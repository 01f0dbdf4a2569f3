------------------------- MODULE MCHandleConnection -------------------------
(* Addresses on both sides of every boundary the code tests; settings that *)
(* parse, that do not, and that are missing; codes with hyphens anywhere.  *)
EXTENDS HandleConnection

V4(a, b) == [kind |-> "v4", octets |-> <<a, b, 0, 1>>]
V6(g, r, up) == [kind |-> "v6", group |-> g, rest |-> r, capitals |-> up]

SampleV4 ==
    {V4(p[1], p[2]) : p \in
        { <<9, 255>>, <<10, 0>>, <<10, 255>>, <<11, 0>>, <<100, 63>>, <<100, 64>>,
          <<100, 127>>, <<100, 128>>, <<101, 64>>, <<127, 0>>, <<169, 253>>,
          <<169, 254>>, <<172, 15>>, <<172, 16>>, <<172, 31>>, <<172, 32>>,
          <<173, 16>>, <<192, 167>>, <<192, 168>>, <<203, 0>>, <<1, 10>> }}

\* ::1, ::2, fb00::1, fc00::1, fdff::1, fe7f::1, fe80::1, febf::1, 2001::1, fc::1
SampleV6 ==
    {V6(0, 1, FALSE), V6(0, 2, FALSE)}
    \cup {V6(g, 1, FALSE) : g \in {64256, 64512, 65023, 65151, 65152, 65215, 8193, 252}}

MCSockets == SampleV4 \cup SampleV6
MCHeaders ==
    {Absent, Garbage, V4(203, 0), V4(10, 7), V4(172, 31), V4(172, 32),
     V6(8193, 1, FALSE), V6(64512, 1, TRUE)}

MCProxies == {V4(203, 0), V4(192, 168), V6(8193, 1, FALSE)}
ProxyLists ==
    { <<>>, <<V4(203, 0)>>, <<V4(203, 0), V4(192, 168), V6(8193, 1, FALSE)>>,
      <<Garbage>>, <<V6(8193, 1, FALSE), Garbage, V4(192, 168)>> }

MCHosts == {"0.0.0.0", "127.0.0.1"}
MCPorts == {"3001", "8080"}
MCCountOf == [text \in {"0", "7"} |-> IF text = "0" THEN 0 ELSE 7]
MCArgLists ==
    { <<>>, <<"--host", "127.0.0.1">>, <<"--host", "localhost">>, <<"--host">>,
      <<"--port", "8080">>, <<"--port", "http">>, <<"--host", "--port", "8080">>,
      <<"--host", "127.0.0.1", "--host", "0.0.0.0">> }
MCEnvironments ==
    [host : {Unset, "127.0.0.1", "localhost"}, port : {Unset, "8080", "http"},
     max : {Unset, "0", "7", "many"}, proxies : ProxyLists]

MCTexts == UNION {[1 .. n -> Characters] : n \in 0 .. 4}
=============================================================================

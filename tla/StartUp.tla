------------------------------ MODULE StartUp ------------------------------
(***************************************************************************)
(* From the command line and the environment to a server that listens:     *)
(* main in signal/src/main.rs and the builder of SignalingServer in        *)
(* signal/src/lib.rs.  A text is what its parser makes of it: the texts    *)
(* that parse are given by the constants.                                  *)
(***************************************************************************)
EXTENDS Naturals, Sequences, FiniteSetsExt

CONSTANTS
    Hosts,          \* texts that make a socket address with a port after them
    Ports,          \* texts that parse as u16
    CountOf,        \* from the texts that parse as usize to their values
    Proxies,        \* entries that parse as an address, trimmed
    ArgLists,       \* command lines, program name left out
    Environments    \* [host, port, max : text; proxies : sequence of entries]

VARIABLES
    args, env,      \* what main reads; env is read for as long as it is needed
    server          \* the SignalingServer main built

startVars == <<args, env, server>>

Unset == "unset"

\* A command line is a sequence of texts, none of which means that there is none.
ASSUME ArgsAssumption == \A list \in ArgLists : list \in Seq(STRING \ {Unset})

NoServer == [host |-> Unset, port |-> Unset, trusted |-> {}, max |-> 0]

NoEnvironment == [host |-> Unset, port |-> Unset, max |-> Unset, proxies |-> <<>>]

DefaultHost == "0.0.0.0"
DefaultPort == "3001"
DefaultMaxConnections == 256

StartInit ==
    /\ args \in ArgLists
    /\ env \in Environments
    /\ server = NoServer

-----------------------------------------------------------------------------
(* get_arg: whatever follows the first occurrence of the key. *)
GetArg(key) ==
    LET at == {i \in DOMAIN args : args[i] = key}
    IN  IF at # {} /\ Min(at) < Len(args) THEN args[Min(at) + 1] ELSE Unset

OrElse(x, y) == IF x # Unset THEN x ELSE y

(* A host that was given is taken as it is; a port only if it parses. *)
BadHost ==
    LET usable(x) == IF x \in Hosts THEN x ELSE Unset
    IN  OrElse(usable(GetArg("--host")), OrElse(usable(env.host), DefaultHost))

Host == OrElse(GetArg("--host"), OrElse(env.host, DefaultHost))

Port ==
    LET parsed(x) == IF x \in Ports THEN x ELSE Unset
    IN  OrElse(parsed(GetArg("--port")), OrElse(parsed(env.port), DefaultPort))

(* An entry that does not parse is skipped, the others are kept. *)
TrustedProxies == {env.proxies[i] : i \in DOMAIN env.proxies} \cap Proxies

MaxConnections ==
    IF env.max \in DOMAIN CountOf THEN CountOf[env.max] ELSE DefaultMaxConnections

(* The address parses: the server is built and run. *)
Listen ==
    /\ Host \in Hosts
    /\ server' = [host |-> Host, port |-> Port,
                  trusted |-> TrustedProxies, max |-> MaxConnections]
    /\ UNCHANGED <<args, env>>

-----------------------------------------------------------------------------
(* An operator who names a host, which is what follows a `--host' on the   *)
(* command line, or in the environment if there is none there, gets that   *)
(* host or no server: a mistake in it never opens the server to every      *)
(* interface, as the default does.  A `--host' that ends the command line  *)
(* names no host, and the environment or the default decides.              *)
Named(key) == {args[i + 1] : i \in {j \in DOMAIN args : args[j] = key /\ j < Len(args)}}

ListensWhereAsked ==
    server # NoServer =>
        IF Named("--host") # {} THEN server.host \in Named("--host")
        ELSE env.host # Unset => server.host = env.host
=============================================================================

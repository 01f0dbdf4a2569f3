----------------------------- MODULE RateLimit -----------------------------
(***************************************************************************)
(* The per-connection rate limiter of signal/src/server.rs, RateLimit; the *)
(* loops that obey it are in HandleConnection.  Time passes in ticks,      *)
(* Second of them to a second; only what lies less than a second back      *)
(* matters, so ages are kept instead of a clock.  Operators named Bad...   *)
(* are wrong versions of the definition after them (see the README); no    *)
(* action uses them.                                                       *)
(***************************************************************************)
EXTENDS Integers

CONSTANTS
    Second,         \* ticks in a second, the granularity of time
    PerSecond,      \* RATE_LIMIT_PER_SECOND
    CloseThreshold  \* RATE_LIMIT_CLOSE_THRESHOLD

ASSUME RateLimitAssumption ==
    /\ Second \in Nat \ {0}
    /\ PerSecond \in Nat \ {0}
    /\ CloseThreshold \in Nat \ {0}

VARIABLES
    remaining,      \* messages left in the current window
    age,            \* of window_start, Second standing for a second or more
    violations,     \* consecutive_violations
    open,           \* the connection has not been closed by the limiter
    passed          \* history: passed[a] messages were accepted in this tick and
                    \* the a ticks before it

rateVars == <<remaining, age, violations, open, passed>>

Init ==
    /\ remaining = PerSecond
    /\ age = 0
    /\ violations = 0
    /\ open = TRUE
    /\ passed = [a \in 0 .. Second - 1 |-> 0]

Tick ==
    /\ open
    /\ age' = IF age < Second THEN age + 1 ELSE age
    /\ passed' = [a \in 0 .. Second - 1 |-> IF a = 0 THEN 0 ELSE passed[a - 1]]
    /\ UNCHANGED <<remaining, violations, open>>

(* The window is restarted by the first message after it has elapsed. *)
BadElapsed == age >= 1
Elapsed == age >= Second

BadBudget == remaining
Budget == IF Elapsed THEN PerSecond ELSE remaining
WindowAge == IF Elapsed THEN 0 ELSE age

BadAllow ==
    /\ open
    /\ age' = WindowAge
    /\ remaining' = Budget - 1
    /\ violations' = 0
    /\ passed' = [a \in 0 .. Second - 1 |-> passed[a] + 1]
    /\ UNCHANGED open

(* check() returns Ok: the loop goes on to handle the message. *)
Allow ==
    /\ open
    /\ Budget > 0
    /\ age' = WindowAge
    /\ remaining' = Budget - 1
    /\ violations' = 0
    /\ passed' = [a \in 0 .. Second - 1 |-> passed[a] + 1]
    /\ UNCHANGED open

(* Err(false): an error is sent, the message dropped. *)
Refuse ==
    /\ open
    /\ Budget = 0
    /\ violations + 1 < CloseThreshold
    /\ age' = WindowAge
    /\ remaining' = Budget
    /\ violations' = violations + 1
    /\ UNCHANGED <<open, passed>>

(* Err(true): the connection is closed. *)
Close ==
    /\ open
    /\ Budget = 0
    /\ violations + 1 >= CloseThreshold
    /\ age' = WindowAge
    /\ remaining' = Budget
    /\ violations' = violations + 1
    /\ open' = FALSE
    /\ UNCHANGED passed

-----------------------------------------------------------------------------
AcceptedLastSecond == passed[Second - 1]

(* The values of the limiter's fields: remaining never wraps below zero.   *)
TypeOK ==
    /\ remaining \in 0 .. PerSecond
    /\ age \in 0 .. Second
    /\ violations \in 0 .. CloseThreshold
    /\ open \in BOOLEAN
    /\ passed \in [0 .. Second - 1 -> Nat]

(* What the history says of the window, as long as it lasts and after: it  *)
(* was opened by the first message since the window before it elapsed, so  *)
(* the messages since then are those its budget paid for, and before them  *)
(* one window's worth at most.  Inductive.                                 *)
WindowInv ==
    /\ \A a, b \in 0 .. Second - 1 : a <= b => passed[a] <= passed[b]
    /\ ~Elapsed => /\ passed[age] = PerSecond - remaining
                   /\ AcceptedLastSecond <= passed[age] + PerSecond
    /\ Elapsed => passed[0] = 0 /\ AcceptedLastSecond <= PerSecond

(* The most a client can get through in any second, however it times its   *)
(* messages around a window's end, is twice the limit; the window does not *)
(* slide, and that much does get through.                                  *)
AtMostTwiceTheLimit == AcceptedLastSecond <= 2 * PerSecond

(* A client that keeps to the limit in every second is never refused: a    *)
(* message is only counted as a violation when the limit was accepted      *)
(* within the second before it.                                            *)
RefusalIsDeserved ==
    [][violations' > violations => AcceptedLastSecond >= PerSecond]_rateVars
=============================================================================

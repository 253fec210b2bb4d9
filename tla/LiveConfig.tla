------------------------------ MODULE LiveConfig ------------------------------
(***************************************************************************)
(* The parameters a running engine accepts changes to, and the command     *)
(* that changes them (struct LiveConfig and apply_command() in             *)
(* src/engine/main.cpp). Numbers are in units of 1/One.                    *)
(***************************************************************************)
EXTENDS Integers

CONSTANTS
    One,          \* the number 1.0
    MaxStaleMs,   \* 3'600'000 in the code
    DevigMethods, \* the names parse_devig() knows
    Commands,     \* the messages a dashboard may send
    Absent,       \* a field the message does not have
    NotFinite     \* what strtod() makes of nan and inf

\* A parsed message has its "cmd" and "key" fields and its "value" field, read
\* as a string (str) and as a number (num).
ASSUME ConfigConstants ==
    /\ One \in Nat \ {0}
    /\ MaxStaleMs \in Nat \ {0}
    /\ Absent \notin DevigMethods
    /\ \A msg \in Commands :
          /\ DOMAIN msg = {"cmd", "key", "str", "num"}
          /\ msg.num \in Int \union {Absent, NotFinite}

Configs ==
    [stale_ms : Nat, kelly_fraction : Int, max_exposure : Int,
     devig_method : DevigMethods, changes : Nat]

\* "changes" only counts.
Parameters(cfg) ==
    <<cfg.stale_ms, cfg.kelly_fraction, cfg.max_exposure, cfg.devig_method>>

IsFinite(num) == num \notin {Absent, NotFinite}

\* Mutant of FractionInRange: only the sign is checked.
FractionPositive(num) == num > 0

\* The range each numeric key accepts. stale-ms is compared before truncation.
StaleMsInRange(num) == num >= One /\ num <= MaxStaleMs * One
FractionInRange(num) == num > 0 /\ num <= One

\* A message that sets a live key to a value of its range.
IsValidChange(msg) ==
    /\ msg.cmd = "set"
    /\ \/ msg.key = "devig" /\ msg.str \in DevigMethods
       \/ /\ IsFinite(msg.num)
          /\ \/ msg.key = "stale-ms" /\ StaleMsInRange(msg.num)
             \/ msg.key \in {"kelly-fraction", "max-exposure"} /\ FractionInRange(msg.num)

\* Mutant of Accepts: no lock in --hash mode.
AcceptsUnlocked(msg, hash_mode) == IsValidChange(msg)

\* Every other message is answered with "ok": false and changes nothing.
Accepts(msg, hash_mode) == ~hash_mode /\ IsValidChange(msg)

\* The configuration an accepted message leaves.
Changed(cfg, msg) ==
    LET counted == [cfg EXCEPT !.changes = @ + 1]
    IN CASE msg.key = "devig" -> [counted EXCEPT !.devig_method = msg.str]
         [] msg.key = "stale-ms" -> [counted EXCEPT !.stale_ms = msg.num \div One]
         [] msg.key = "kelly-fraction" -> [counted EXCEPT !.kelly_fraction = msg.num]
         [] msg.key = "max-exposure" -> [counted EXCEPT !.max_exposure = msg.num]

\* apply_command(): the configuration after the message, accepted or not.
ApplyCommand(cfg, msg, hash_mode) ==
    IF Accepts(msg, hash_mode) THEN Changed(cfg, msg) ELSE cfg

\* The ranges apply_command() keeps the parameters in.
InRangeConfig(cfg) ==
    /\ cfg.stale_ms \in 1..MaxStaleMs
    /\ cfg.kelly_fraction \in 1..One
    /\ cfg.max_exposure \in 1..One
    /\ cfg.devig_method \in DevigMethods
=============================================================================

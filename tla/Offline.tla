-------------------------------- MODULE Offline --------------------------------
(***************************************************************************)
(* A simulator and one of the programs that read what it writes, at any    *)
(* time: the engine or the session verifier, which read the session alone, *)
(* the analysis, or the validation of the devig methods.                   *)
(***************************************************************************)
EXTENDS Analysis, Validation

vars == <<sessionVars, anVars, vaVars>>

OfflineInit == SessionInit /\ AnalysisInit /\ ValidationInit

PlainReader == an_stage = "off" /\ va_stage = "off" /\ (OpenSession \/ ReadRecord \/ EndOfSession)

OfflineNext ==
    \/ (SimStep \/ PlainReader) /\ UNCHANGED <<anVars, vaVars>>
    \/ AnalysisNext /\ UNCHANGED vaVars
    \/ ValidationNext /\ UNCHANGED anVars

OfflineSpec == OfflineInit /\ [][OfflineNext]_vars
-----------------------------------------------------------------------------
\* What the tools hold of the session is of the session, and they are never
\* further on than the reader under them.
ToolsTypeOK ==
    /\ an_stage \in {"off", "session", "settlement", "jumps", "bets", "done", "failed"}
    /\ va_stage \in {"off", "truth", "compare", "done", "failed"}
    /\ an_stage = "off" \/ va_stage = "off"
    /\ an_stage = "session" \/ va_stage \in {"truth", "compare"} => rd_state = "streaming"
    /\ \A m \in MarketIds, b \in Books :
          last_odds[m][b] \in {NoQuote} \union {r \in ToSet(handed) : r.market = m /\ r.book = b}
    /\ winner \in [MarketIds -> {Unset, Ticks - 1}]
    /\ \A m \in MarketIds : jump_ticks[m] \subseteq 0..(Ticks - 1)
    /\ {pair.quote : pair \in matched} \subseteq ToSet(handed)
    /\ va_stage # "off" => Cardinality(matched) + unmatched = Len(handed)

OfflineTypeOK == TypeOK /\ ToolsTypeOK
=============================================================================

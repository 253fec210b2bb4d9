-------------------------------- MODULE BetLog --------------------------------
(***************************************************************************)
(* The engine's bet log (src/engine/BetLog.hpp): bets gather in a buffer,  *)
(* full buffers go to the file, and finish() writes the rest and patches   *)
(* the header's record count, zero until then.                             *)
(***************************************************************************)
EXTENDS Naturals, Sequences

CONSTANT kBufferRecords

ASSUME BufferHoldsSomething == kBufferRecords \in Nat \ {0}

VARIABLES
    log_open,     \* the sink exists and its file is open
    log_buffer,   \* buffer_[0 .. fill_)
    log_file,     \* the records on disk
    header_count, \* record_count in the file's header
    record_count  \* bets accepted

logVars == <<log_open, log_buffer, log_file, header_count, record_count>>

LogInit ==
    /\ log_open = FALSE
    /\ log_buffer = <<>>
    /\ log_file = <<>>
    /\ header_count = 0
    /\ record_count = 0

\* How much of a buffer's content whole buffers have taken to the file.
Written(all) == (Len(all) \div kBufferRecords) * kBufferRecords

\* accept() of each of the bets in turn: every full buffer is written out.
AcceptBets(bets) ==
    LET all == log_buffer \o bets
    IN /\ log_file' = log_file \o SubSeq(all, 1, Written(all))
       /\ log_buffer' = SubSeq(all, Written(all) + 1, Len(all))
       /\ record_count' = record_count + Len(bets)

\* Mutant of FinishLog: the count is patched, the buffer not written.
FinishUnflushed ==
    /\ log_buffer' = <<>>
    /\ header_count' = record_count
    /\ log_open' = FALSE
    /\ UNCHANGED <<log_file, record_count>>

\* finish(): the rest of the buffer, then the count, then the file is closed.
FinishLog ==
    /\ log_file' = log_file \o log_buffer
    /\ log_buffer' = <<>>
    /\ header_count' = record_count
    /\ log_open' = FALSE
    /\ UNCHANGED record_count

\* The destructor closes the file and flushes nothing.
AbandonLog ==
    /\ log_open' = FALSE
    /\ log_buffer' = <<>>
    /\ UNCHANGED <<log_file, header_count, record_count>>

\* The process dies, or a write throws, after accepting some more bets: of what
\* was written, the C library may still hold the end. Inside finish() the buffer
\* may have left, but the count is not patched yet.
CrashLog(bets, finishing) ==
    LET all == log_buffer \o bets
        written == log_file \o (IF finishing THEN all ELSE SubSeq(all, 1, Written(all)))
    IN /\ log_open' = FALSE
       /\ log_buffer' = <<>>
       /\ \E n \in 0..Len(written) : log_file' = SubSeq(written, 1, n)
       /\ record_count' = record_count + Len(bets)
       /\ UNCHANGED header_count
=============================================================================

----------------------------- MODULE TelemetryLog -----------------------------
(***************************************************************************)
(* What the telemetry ring promises, without bytes, cursors or caches: a   *)
(* log of sequence numbers that grows at one end, loses its oldest records *)
(* at the other (counted when evicted, on request when acknowledged), and  *)
(* survives a reset.  risk is what a reset may do to it at this moment:    *)
(*   "none"     the reset keeps the log                                    *)
(*   "wipe"     the header is being written: the log may be re-initialised *)
(*   "scramble" published bytes may be overwritten: anything may be read   *)
(*              back, or the log re-initialised                            *)
(***************************************************************************)
EXTENDS Integers, Sequences

CONSTANT SeqMod

VARIABLES log, next_seq, dropped, risk

logVars == <<log, next_seq, dropped, risk>>

NoAck == SeqMod - 1

ASSUME LogAssumption == SeqMod \in Nat /\ SeqMod > 3

Risks == {"none", "wipe", "scramble"}

Init ==
  /\ log = <<>> /\ next_seq = 1 /\ dropped = 0
  /\ risk \in Risks

Stamp(n) == IF n \in {0, NoAck} THEN 1 ELSE n

Emit ==
  /\ log' = Append(log, Stamp(next_seq))
  /\ next_seq' = (Stamp(next_seq) + 1) % SeqMod
  /\ UNCHANGED dropped

\* The oldest k records make room for a new one; each is counted.
Evict(k) ==
  /\ log' = SubSeq(log, k + 1, Len(log))
  /\ dropped' = dropped + k
  /\ UNCHANGED next_seq

\* Mutant: the ack frees one record more than it names.
Freed_OneMore(ack_seq, k) ==
  /\ \A i \in 1 .. k : log[i] <= ack_seq + 1
  /\ k < Len(log) => log[k + 1] > ack_seq + 1

\* ack_seq frees the leading records up to it and stops at the first later
\* one; a sequence number not generated yet frees nothing.
Freed(ack_seq, k) ==
  /\ \A i \in 1 .. k : log[i] <= ack_seq
  /\ k < Len(log) => log[k + 1] > ack_seq

\* Mutant: a sequence number not generated yet is taken for an ack like any other.
Ack_Unguarded(ack_seq, k) ==
  /\ Freed(ack_seq, k)
  /\ log' = SubSeq(log, k + 1, Len(log))
  /\ UNCHANGED <<next_seq, dropped>>

Ack(ack_seq, k) ==
  /\ ack_seq < next_seq
  /\ Freed(ack_seq, k)
  /\ log' = SubSeq(log, k + 1, Len(log))
  /\ UNCHANGED <<next_seq, dropped>>

Keep == UNCHANGED <<log, next_seq, dropped>>

Wipe ==
  /\ risk \in {"wipe", "scramble"}
  /\ log' = <<>> /\ next_seq' = 1 /\ dropped' = 0

Scramble ==
  /\ risk = "scramble"
  /\ UNCHANGED <<next_seq, dropped>>

Next ==
  /\ risk' \in Risks
  /\ \/ Emit
     \/ \E k \in 1 .. Len(log) : Evict(k)
     \/ \E a \in 0 .. SeqMod - 1, k \in 0 .. Len(log) : Ack(a, k)
     \/ Keep
     \/ Wipe
     \/ Scramble

Spec == Init /\ [][Next]_logVars
==============================================================================

---------------------------- MODULE ImagePullProofs ----------------------------
(***************************************************************************)
(* Proof that Pull throttles its progress lines (LogThrottled) for every  *)
(* length of the stream and every bound on the clock.                      *)
(*                                                                         *)
(* LogThrottled compares consecutive lines, but the decode loop compares   *)
(* the clock with lastLog; the two meet in PInv: while a pull has written *)
(* lines, lastLog is the time of the last one, so a line written because  *)
(* time.Since(lastLog) > time.Second is more than a second after it.       *)
(***************************************************************************)
EXTENDS ImagePull, TLAPS

USE PullAssumption

\* While a Pull has written lines, lastLog is the time of the last one.
LastLogIsLastLine == Len(logs) > 0 => lastLog = logs[Len(logs)]

PInv ==
  /\ clock \in 0..MaxTime
  /\ lastLog \in -1..MaxTime
  /\ logs \in Seq(0..MaxTime)
  /\ LogThrottled
  /\ LastLogIsLastLine

\* Appending a line more than a second after the last one keeps any two
\* consecutive lines more than a second apart.
LEMMA AppendThrottled ==
  ASSUME NEW s \in Seq(Int), NEW t \in Int,
         \A i \in 1..Len(s) - 1 : s[i + 1] - s[i] > Second,
         Len(s) > 0 => t - s[Len(s)] > Second
  PROVE  \A i \in 1..Len(Append(s, t)) - 1 :
           Append(s, t)[i + 1] - Append(s, t)[i] > Second
BY DEF Second

\* PInv holds in the initial states.
LEMMA PInvInit == Init => PInv
BY DEF Init, PInv, LogThrottled, LastLogIsLastLine

\* The one step that writes a line: a message of the stream, with a logger,
\* when a line is due.
LEMMA DecodeWrites ==
  ASSUME PInv, Decode, Head(stream) \notin Ends, logger /\ Due
  PROVE  PInv'
<1>1. logs' = Append(logs, clock) /\ lastLog' = clock /\ clock' = clock
  BY DEF Decode, Ends
<1>2. Len(logs) > 0 => clock - logs[Len(logs)] > Second
  \* lastLog = -1 only before the first line: the times are not negative.
  BY DEF PInv, Due, LastLogIsLastLine
<1>3. LogThrottled'
  BY <1>1, <1>2, AppendThrottled DEF PInv, LogThrottled
<1>4. QED BY <1>1, <1>3 DEF PInv, LastLogIsLastLine

\* Every other step of Decode leaves the lines and lastLog alone.
LEMMA DecodeQuiet ==
  ASSUME PInv, Decode, ~(Head(stream) \notin Ends /\ logger /\ Due)
  PROVE  PInv'
<1>1. UNCHANGED <<logs, lastLog, clock>>
  <2>1. CASE Head(stream) = "eof" BY <2>1 DEF Decode
  <2>2. CASE Head(stream) = "bad" BY <2>2 DEF Decode
  <2>3. CASE Head(stream) \notin Ends BY <2>3 DEF Decode, Ends
  <2>4. QED BY <2>1, <2>2, <2>3 DEF Ends
<1>2. QED BY <1>1 DEF PInv, LogThrottled, LastLogIsLastLine

\* Every step keeps PInv.
LEMMA PInvStep == PInv /\ [Next]_vars => PInv'
<1> SUFFICES ASSUME PInv, [Next]_vars PROVE PInv'
  OBVIOUS
<1>1. CASE StartPull BY <1>1 DEF StartPull, PInv, LogThrottled, LastLogIsLastLine
<1>2. CASE Decode BY <1>2, DecodeWrites, DecodeQuiet
<1>3. CASE Tick BY <1>3 DEF Tick, PInv, LogThrottled, LastLogIsLastLine
<1>4. CASE CallExists \/ CallGetImageByReference \/ OtherClient \/ UNCHANGED vars
  BY <1>4 DEF CallExists, CallGetImageByReference, OtherClient, vars, PInv,
              LogThrottled, LastLogIsLastLine
<1>5. QED BY <1>1, <1>2, <1>3, <1>4 DEF Next

\* LogThrottled (spec.md 5): any two progress lines of one Pull are more
\* than a second apart, whatever the rate of the daemon's messages.
THEOREM LogThrottledHolds == Spec => []LogThrottled
<1>1. PInv => LogThrottled BY DEF PInv
<1>2. QED BY <1>1, PInvInit, PInvStep, PTL DEF Spec

====

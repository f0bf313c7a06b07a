------------------------------ MODULE ImagePull ------------------------------
(***************************************************************************)
(* Pull, Exists and GetImageByReference of the Go package image          *)
(* (src/unnamed/part_002, lines 134-241).  The daemon's pull answer is a  *)
(* stream of JSON messages ending in EOF or in something the decoder      *)
(* cannot read; Pull decodes them one by one and writes a progress line   *)
(* when more than a second passed since the last one.  The clock moves   *)
(* in half seconds between any two steps.  The local image store is the  *)
(* number of images matching the reference, which other clients change.  *)
(***************************************************************************)
EXTENDS Integers, Sequences

CONSTANTS MaxMsgs,   \* progress messages before the stream ends
          MaxTime,   \* clock bound, in half seconds
          MaxFaults  \* bound on changes by other clients

ASSUME PullAssumption == /\ MaxMsgs \in Nat /\ MaxTime \in Nat
                         /\ MaxFaults \in Nat

VARIABLES pc,       \* "idle", "pull" (in the decode loop) or "idle" again
          stream,   \* messages the daemon has yet to deliver
          clock,    \* now, in half seconds
          lastLog,  \* time of the last progress line; -1 is time.Time{}
          logs,     \* times of the progress lines written by this Pull
          logger,   \* Pull was given a logger
          result,   \* what the last Pull returned
          local,    \* images in the local store matching the reference
          faults

vars == <<pc, stream, clock, lastLog, logs, logger, result, local, faults>>

Second == 2

\* Progress messages with and without progressDetail, then the end.
Bodies == {"progress", "status"}
Ends == {"eof", "bad"}
Streams == {s \o <<e>> : s \in UNION {[1..n -> Bodies] : n \in 0..MaxMsgs},
                         e \in Ends}

\* time.Since(lastLog) > time.Second; the zero time is long ago.
Due == lastLog = -1 \/ clock - lastLog > Second

\* ImagePull: the daemon accepts the pull and answers with a stream, or
\* the call returns an error before the loop.
StartPull ==
  /\ pc = "idle"
  /\ \E l \in BOOLEAN : logger' = l
  /\ \/ /\ \E s \in Streams : stream' = s
        /\ pc' = "pull"
        /\ UNCHANGED result
     \/ /\ result' = "error"
        /\ UNCHANGED <<pc, stream>>
  /\ lastLog' = -1
  /\ logs' = <<>>
  /\ UNCHANGED <<clock, local, faults>>

\* A plausible bug: the branch without progressDetail forgets lastLog.
DecodeNoStamp ==
  /\ pc = "pull"
  /\ stream' = Tail(stream)
  /\ CASE Head(stream) = "eof" ->
            /\ pc' = "idle"
            /\ result' = "ok"
            /\ local' = IF local = 0 THEN 1 ELSE local
            /\ UNCHANGED <<lastLog, logs>>
       [] Head(stream) = "bad" ->
            /\ pc' = "idle"
            /\ result' = "error"
            /\ UNCHANGED <<lastLog, logs, local>>
       [] OTHER ->
            /\ IF logger /\ Due
                 THEN /\ logs' = Append(logs, clock)
                      /\ lastLog' = IF Head(stream) = "progress"
                                      THEN clock ELSE lastLog
                 ELSE UNCHANGED <<lastLog, logs>>
            /\ UNCHANGED <<pc, result, local>>
  /\ UNCHANGED <<clock, logger, faults>>

\* A plausible bug: a decode error is logged and the loop goes on; the
\* decoder returns the same error on every later call.
DecodeBadLoops ==
  /\ pc = "pull"
  /\ CASE Head(stream) = "eof" ->
            /\ stream' = Tail(stream)
            /\ pc' = "idle"
            /\ result' = "ok"
            /\ local' = IF local = 0 THEN 1 ELSE local
            /\ UNCHANGED <<lastLog, logs>>
       [] Head(stream) = "bad" ->
            UNCHANGED <<stream, pc, result, lastLog, logs, local>>
       [] OTHER ->
            /\ stream' = Tail(stream)
            /\ IF logger /\ Due
                 THEN /\ logs' = Append(logs, clock)
                      /\ lastLog' = clock
                 ELSE UNCHANGED <<lastLog, logs>>
            /\ UNCHANGED <<pc, result, local>>
  /\ UNCHANGED <<clock, logger, faults>>

\* One iteration of the for loop: d.Decode.  io.EOF: err = nil, break; any
\* other error: log it, break and return it; a message: write a line
\* (with a percentage when Current and Total are non-zero) if one is due.
\* A pull that ends without error has put the image in the local store.
Decode ==
  /\ pc = "pull"
  /\ stream' = Tail(stream)
  /\ CASE Head(stream) = "eof" ->
            /\ pc' = "idle"
            /\ result' = "ok"
            /\ local' = IF local = 0 THEN 1 ELSE local
            /\ UNCHANGED <<lastLog, logs>>
       [] Head(stream) = "bad" ->
            /\ pc' = "idle"
            /\ result' = "error"
            /\ UNCHANGED <<lastLog, logs, local>>
       [] OTHER ->
            /\ IF logger /\ Due
                 THEN /\ logs' = Append(logs, clock)
                      /\ lastLog' = clock
                 ELSE UNCHANGED <<lastLog, logs>>
            /\ UNCHANGED <<pc, result, local>>
  /\ UNCHANGED <<clock, logger, faults>>

\* Time passes.
Tick ==
  /\ clock < MaxTime
  /\ clock' = clock + 1
  /\ UNCHANGED <<pc, stream, lastLog, logs, logger, result, local, faults>>

\* Exists: ImageList by reference; one image: true; more: an error; none:
\* false.  GetImageByReference: one image: found; otherwise the error
\* "found more than 1 image with the same reference".  Both only read.
ExistsResult(n) == CASE n = 1 -> "true" [] n > 1 -> "error" [] OTHER -> "false"
GetImageByReferenceResult(n) == IF n = 1 THEN "found" ELSE "more than 1"

\* The caller asks while no pull runs; ImageList itself may fail.
CallExists ==
  /\ pc = "idle"
  /\ result' \in {ExistsResult(local), "error"}
  /\ UNCHANGED <<pc, stream, clock, lastLog, logs, logger, local, faults>>

CallGetImageByReference ==
  /\ pc = "idle"
  /\ result' \in {GetImageByReferenceResult(local), "error"}
  /\ UNCHANGED <<pc, stream, clock, lastLog, logs, logger, local, faults>>

\* Another client tags a second matching image or removes one.
OtherClient ==
  /\ faults < MaxFaults
  /\ \E n \in {local - 1, local + 1} \cap 0..2 : local' = n
  /\ faults' = faults + 1
  /\ UNCHANGED <<pc, stream, clock, lastLog, logs, logger, result>>

Init ==
  /\ pc = "idle"
  /\ stream = <<>>
  /\ clock = 0
  /\ lastLog = -1
  /\ logs = <<>>
  /\ logger = FALSE
  /\ result = "none"
  /\ local = 0
  /\ faults = 0

Next == StartPull \/ Decode \/ Tick \/ CallExists \/ CallGetImageByReference
        \/ OtherClient

\* The daemon keeps sending until its stream ends, and the loop keeps
\* decoding.  Pull has no timeout of its own: a stalled daemon is what this
\* assumption rules out.
Fairness == WF_vars(Decode)

Spec == Init /\ [][Next]_vars /\ Fairness

(***************************************************************************)
(* Properties.                                                             *)
(***************************************************************************)
\* The values each variable takes.
TypeOK ==
  /\ pc \in {"idle", "pull"}
  /\ stream \in Seq(Bodies \cup Ends)
  /\ clock \in 0..MaxTime
  /\ lastLog \in -1..MaxTime
  /\ logs \in Seq(0..MaxTime)
  /\ logger \in BOOLEAN
  /\ result \in {"none", "ok", "error", "true", "false", "found", "more than 1"}
  /\ local \in 0..2
  /\ faults \in 0..MaxFaults

\* spec.md 5: the progress line of a pull is throttled to at most one per
\* second of elapsed time, whatever the rate of messages: any two progress
\* lines of one Pull are more than a second apart.
LogThrottled ==
  \A i \in 1..Len(logs) - 1 : logs[i + 1] - logs[i] > Second

\* The decode loop of Pull ends: a pull that started returns, with the
\* image or with the decoder's error, once the daemon's stream ends.
PullEnds == pc = "pull" ~> pc = "idle"

==============================================================================

----------------------------- MODULE SerialProofs -----------------------------
(* The two serial links of the pilot's receiver.  The SBUS receiver, for   *)
(* every frame period, poll period, timeout and width of the tick counter; *)
(* the S.Port link, for every number of fields, length of an answer, size  *)
(* of the rings and of a slot, and latency of the task.                    *)
EXTENDS SbusReceiver, SportLink, SequenceTheorems, TLAPS

-----------------------------------------------------------------------------
(* The SBUS receiver. *)

LEMMA ElapsedType ==
  ASSUME NEW now \in Ticks, NEW then \in Ticks
  PROVE  Elapsed(now, then) \in Ticks
  BY SbusAssumption DEF Elapsed, Ticks

(* One tick later is one more elapsed, as long as the counter has not come *)
(* around to the stamp.                                                    *)
LEMMA ElapsedNext ==
  ASSUME NEW now \in Ticks, NEW then \in Ticks, Elapsed(now, then) + 1 < TickMod
  PROVE  NextTick(now) \in Ticks /\ Elapsed(NextTick(now), then) = Elapsed(now, then) + 1
  BY SbusAssumption DEF Elapsed, NextTick, Ticks

LEMMA NextTickType ==
  ASSUME NEW now \in Ticks
  PROVE  NextTick(now) \in Ticks
  BY SbusAssumption DEF NextTick, Ticks

(* What a poll does, step by step: the decoded frame, its stamp, the       *)
(* backstop.                                                               *)
LEMMA PollOutcome ==
  ASSUME TypeOK, Poll
  PROVE  /\ latest' \in RxFrames
         /\ lastValid' \in Ticks
         /\ latest'.status = "OK" =>
              /\ Elapsed(tick, lastValid') < Timeout
              /\ \/ captured \in Frames /\ ~ captured.failsafe /\ lastValid' = tick
                 \/ captured \notin Frames /\ latest.status = "OK" /\ lastValid' = lastValid
<1> DEFINE wellFormed == captured \in Frames
           decoded == IF wellFormed THEN [ch |-> captured.ch, status |-> StatusOf(captured)]
                                    ELSE latest
           stamp == IF wellFormed THEN tick ELSE lastValid
<1>1. /\ latest \in RxFrames /\ tick \in Ticks /\ lastValid \in Ticks
      /\ Timeout \in Nat
      /\ lastValid' = stamp /\ latest' = Backstop(decoded, stamp)
  BY SbusAssumption DEF TypeOK, Poll
<1>2. decoded \in RxFrames /\ stamp \in Ticks
  BY <1>1 DEF Frames, RxFrames, StatusOf
<1>3. decoded.status = "OK" => \/ wellFormed /\ ~ captured.failsafe
                               \/ ~ wellFormed /\ latest.status = "OK"
  BY <1>1 DEF StatusOf
<1> HIDE DEF decoded
<1>4. CASE Expired(stamp)
  BY <1>1, <1>2, <1>4 DEF Backstop, RxFrames
<1>5. CASE ~ Expired(stamp)
  <2>1. latest' = decoded
    BY <1>1, <1>5 DEF Backstop
  <2>2. Elapsed(tick, stamp) < Timeout
    <3>1. Elapsed(tick, stamp) \in Ticks
      BY <1>1, <1>2, ElapsedType
    <3>2. Elapsed(tick, stamp) \in Int
      BY <3>1, SbusAssumption DEF Ticks
    <3>3. ~ (Elapsed(tick, stamp) >= Timeout)
      BY <1>5 DEF Expired
    <3>4. QED
      BY <1>1, <3>2, <3>3
  <2>3. QED
    BY <1>1, <1>2, <1>3, <2>1, <2>2
<1>6. QED
  BY <1>4, <1>5

LEMMA TypeStart == Init => TypeOK
  BY SbusAssumption DEF Init, TypeOK, Ticks, RxFrames

LEMMA TypeStep == TypeOK /\ [Next]_vars => TypeOK'
<1> SUFFICES ASSUME TypeOK, [Next]_vars PROVE TypeOK'
  OBVIOUS
<1> USE DEF lineVars, taskVars
<1>1. CASE FrameBegins
  BY <1>1 DEF FrameBegins, TypeOK
<1>2. ASSUME NEW f \in Sent, FrameEnds(f) PROVE TypeOK'
  <2>1. f \in Frames \cup {Malformed}
    BY DEF Sent
  <2>2. 0 \in 0 .. FramePeriod /\ 0 \in 0 .. Horizon
    BY SbusAssumption
  <2>3. captured' \in Frames \cup {Malformed, NoFrame}
    BY <1>2, <2>1 DEF FrameEnds, TypeOK
  <2>4. QED
    BY <1>2, <2>2, <2>3 DEF FrameEnds, TypeOK
<1>3. CASE LineError
  <2>1. 0 \in 0 .. Horizon
    BY SbusAssumption
  <2>2. QED
    BY <1>3, <2>1 DEF LineError, Rearm, TypeOK
<1>4. ASSUME NEW r \in {"good", "failsafe", "silent"}, ReceiverChanges(r) PROVE TypeOK'
  <2>1. 0 \in 0 .. Horizon
    BY SbusAssumption
  <2>2. sinceFrame' \in 0 .. FramePeriod
    BY <1>4 DEF ReceiverChanges, TypeOK
  <2>3. wire' \in {"gap", "frame"} /\ dma' \in {"off", "armed", "aligned", "late"}
    BY <1>4 DEF ReceiverChanges, TypeOK
  <2>4. QED
    BY <1>4, <2>1, <2>2, <2>3 DEF ReceiverChanges, TypeOK
<1>5. CASE Poll
  <2>1. latest' \in RxFrames /\ lastValid' \in Ticks
    BY <1>5, PollOutcome
  <2>2. 0 \in 0 .. PollDeadline
    BY SbusAssumption
  <2>3. QED
    BY <1>5, <2>1, <2>2 DEF Poll, TypeOK
<1>6. CASE Tick
  <2>1. tick' \in Ticks
    BY <1>6, NextTickType DEF Tick, TypeOK
  <2>2. sincePoll' \in 0 .. PollDeadline /\ sinceFrame' \in 0 .. FramePeriod
    BY <1>6, SbusAssumption DEF Tick, TypeOK
  <2>3. noGood' \in 0 .. Horizon /\ calm' \in 0 .. Horizon
    BY <1>6, SbusAssumption DEF Tick, TypeOK, Capped
  <2>4. QED
    BY <1>6, <2>1, <2>2, <2>3 DEF Tick, TypeOK
<1>7. CASE UNCHANGED vars
  BY <1>7 DEF vars, TypeOK
<1>8. QED
  BY <1>1, <1>2, <1>3, <1>4, <1>5, <1>6, <1>7 DEF Next

(* The receiver's state keeps its types: a pulse train of wraps, errors    *)
(* and losses included.                                                    *)
THEOREM SbusTypeCorrect == Spec => []TypeOK
  BY TypeStart, TypeStep, PTL DEF Spec

(***************************************************************************)
(* LossReported needs the age of what is published: as long as latest is   *)
(* OK, the ticks elapsed since its stamp are real ones, fewer than the     *)
(* timeout and the time since the last poll, and the frame was captured    *)
(* not more than a poll before its stamp.                                  *)
(***************************************************************************)

FreshCapture == captured \in Frames /\ ~ captured.failsafe => noGood <= sincePoll

FreshLatest ==
  /\ rxFrame = latest
  /\ latest.status = "OK" =>
       /\ Elapsed(tick, lastValid) < Timeout + sincePoll
       /\ noGood <= Elapsed(tick, lastValid) + PollDeadline

LossInv == TypeOK /\ FreshCapture /\ FreshLatest

LEMMA LossStart == Init => FreshCapture /\ FreshLatest
  BY CaptureAssumption DEF Init, FreshCapture, FreshLatest

LEMMA LossStep == LossInv /\ [Next]_vars => LossInv'
<1> SUFFICES ASSUME LossInv, [Next]_vars PROVE FreshCapture' /\ FreshLatest'
  BY TypeStep DEF LossInv
<1> USE DEF lineVars, taskVars
<1>1. /\ TypeOK /\ FreshCapture /\ FreshLatest
      /\ noGood \in Nat /\ sincePoll \in Nat /\ sincePoll <= PollDeadline
      /\ tick \in Ticks /\ lastValid \in Ticks
      /\ Timeout \in Nat /\ PollDeadline \in Nat /\ TickMod \in Nat
      /\ Timeout + PollDeadline < TickMod
      /\ Elapsed(tick, lastValid) \in Nat
  BY SbusAssumption, ElapsedType DEF LossInv, TypeOK, Ticks
<1>2. CASE FrameBegins \/ LineError \/ \E r \in {"good", "failsafe", "silent"} : ReceiverChanges(r)
  <2>1. UNCHANGED <<captured, tick, taskVars, noGood>>
    BY <1>2 DEF FrameBegins, LineError, ReceiverChanges
  <2>2. QED
    BY <1>1, <2>1 DEF FreshCapture, FreshLatest
<1>3. ASSUME NEW f \in Sent, FrameEnds(f) PROVE FreshCapture' /\ FreshLatest'
  <2>1. noGood' = 0 \/ noGood' = noGood
    BY <1>3 DEF FrameEnds
  <2>2. UNCHANGED <<tick, taskVars>>
    BY <1>3 DEF FrameEnds
  <2>3. FreshCapture'
    BY <1>1, <1>3 DEF FrameEnds, FreshCapture
  <2>4. FreshLatest'
    BY <1>1, <2>1, <2>2 DEF FreshLatest
  <2>5. QED
    BY <2>3, <2>4
<1>4. CASE Poll
  <2>1. FreshCapture'
    BY <1>4, CaptureAssumption DEF Poll, FreshCapture
  <2>2. rxFrame' = latest' /\ sincePoll' = 0 /\ tick' = tick /\ noGood' = noGood
    BY <1>4 DEF Poll
  <2>3. ASSUME latest'.status = "OK"
        PROVE  /\ Elapsed(tick, lastValid') < Timeout
               /\ noGood <= Elapsed(tick, lastValid') + PollDeadline
    <3>1. Elapsed(tick, lastValid') < Timeout
      BY <1>1, <1>4, <2>3, PollOutcome
    <3>2. CASE captured \in Frames /\ ~ captured.failsafe /\ lastValid' = tick
      <4>1. noGood <= PollDeadline
        BY <1>1, <3>2 DEF FreshCapture
      <4>2. Elapsed(tick, lastValid') = 0
        BY <1>1, <3>2 DEF Elapsed, Ticks
      <4>3. QED
        BY <1>1, <3>1, <4>1, <4>2
    <3>3. CASE latest.status = "OK" /\ lastValid' = lastValid
      BY <1>1, <3>1, <3>3 DEF FreshLatest
    <3>4. QED
      BY <1>1, <1>4, <2>3, <3>2, <3>3, PollOutcome
  <2>4. FreshLatest'
    BY <1>1, <2>2, <2>3 DEF FreshLatest
  <2>5. QED
    BY <2>1, <2>4
<1>5. CASE Tick
  <2>1. /\ sincePoll < PollDeadline /\ sincePoll' = sincePoll + 1
        /\ tick' = NextTick(tick) /\ noGood' <= noGood + 1 /\ noGood' \in Nat
        /\ UNCHANGED <<captured, latest, lastValid, rxFrame>>
    BY <1>1, <1>5, SbusAssumption DEF Tick, Capped
  <2>2. FreshCapture'
    BY <1>1, <2>1 DEF FreshCapture
  <2>3. ASSUME latest.status = "OK"
        PROVE  Elapsed(tick', lastValid) = Elapsed(tick, lastValid) + 1
    <3>1. Elapsed(tick, lastValid) + 1 < TickMod
      BY <1>1, <2>1, <2>3 DEF FreshLatest
    <3>2. QED
      BY <1>1, <2>1, <3>1, ElapsedNext
  <2>4. FreshLatest'
    BY <1>1, <2>1, <2>3 DEF FreshLatest
  <2>5. QED
    BY <2>2, <2>4
<1>6. CASE UNCHANGED vars
  BY <1>1, <1>6 DEF vars, FreshCapture, FreshLatest
<1>7. QED
  BY <1>2, <1>3, <1>4, <1>5, <1>6 DEF Next

(* Nothing older than the timeout and two polls is ever reported as good,  *)
(* however often the tick counter has wrapped.                             *)
THEOREM LossIsReported == Spec => []LossReported
<1>1. Init => LossInv
  BY TypeStart, LossStart DEF LossInv
<1>2. LossInv => LossReported
  <2>1. SUFFICES ASSUME LossInv, rxFrame.status = "OK"
                 PROVE  noGood <= Timeout + 2 * PollDeadline
    BY DEF LossReported
  <2>2. /\ noGood \in Nat /\ sincePoll \in Nat /\ sincePoll <= PollDeadline
        /\ Elapsed(tick, lastValid) \in Nat
        /\ Timeout \in Nat /\ PollDeadline \in Nat
    BY <2>1, SbusAssumption, ElapsedType DEF LossInv, TypeOK, Ticks
  <2>3. QED
    BY <2>1, <2>2 DEF LossInv, FreshLatest
<1>3. QED
  BY <1>1, <1>2, LossStep, PTL DEF Spec

(***************************************************************************)
(* GoodLinkReported: once reception has been clean for longer than the     *)
(* time since the last frame, that last frame was a good one.  It is       *)
(* either still waiting for the poll or was the last one taken, so that    *)
(* its stamp is no older than the frame itself.                            *)
(***************************************************************************)

GoodCapture == captured \in Frames /\ ~ captured.failsafe

\* A capture is aligned with its frame unless a line error re-armed inside
\* that frame; a receiver that is not good is never calm.
CaptureAligned ==
  /\ wire = "gap" => dma = "armed"
  /\ wire = "frame" => dma = "aligned" \/ (dma = "late" /\ calm = 0)
  /\ receiver # "good" => calm = 0

LastFrameGood ==
  calm > sinceFrame =>
    \/ GoodCapture
    \/ /\ captured = NoFrame
       /\ latest.status = "OK"
       /\ Elapsed(tick, lastValid) <= sinceFrame

AlarmIsRecent == latest.status # "OK" => calm <= FramePeriod + sincePoll

LinkInv == LossInv /\ CaptureAligned /\ LastFrameGood /\ AlarmIsRecent

LEMMA LinkStart == Init => LinkInv
<1> SUFFICES ASSUME Init PROVE CaptureAligned /\ LastFrameGood /\ AlarmIsRecent
  BY TypeStart, LossStart DEF LinkInv, LossInv
<1>1. sinceFrame \in Nat /\ calm = 0 /\ sincePoll = 0 /\ FramePeriod \in Nat
      /\ wire = "gap" /\ dma = "armed"
  BY SbusAssumption DEF Init
<1>2. QED
  BY <1>1 DEF CaptureAligned, LastFrameGood, AlarmIsRecent

\* The facts about the numbers that every step of the proof uses.
LEMMA LinkNumbers ==
  ASSUME LossInv
  PROVE  /\ calm \in Nat /\ noGood \in Nat /\ sinceFrame \in Nat /\ sincePoll \in Nat
         /\ sinceFrame <= FramePeriod /\ sincePoll <= PollDeadline
         /\ FramePeriod \in Nat /\ PollDeadline \in Nat /\ Timeout \in Nat
         /\ TickMod \in Nat /\ FramePeriod < Timeout /\ Timeout + PollDeadline < TickMod
         /\ tick \in Ticks /\ lastValid \in Ticks /\ Elapsed(tick, lastValid) \in Nat
         /\ Elapsed(tick, tick) = 0
<1>1. tick \in Ticks /\ lastValid \in Ticks
  BY DEF LossInv, TypeOK
<1>2. Elapsed(tick, lastValid) \in Nat /\ Elapsed(tick, tick) = 0
  BY <1>1, SbusAssumption DEF Elapsed, Ticks
<1>3. QED
  BY <1>1, <1>2, SbusAssumption DEF LossInv, TypeOK

\* A poll of a good line says OK: it takes the good frame, or the one it took
\* before is younger than the timeout.
LEMMA PollOfGoodLink ==
  ASSUME LinkInv, Poll, calm > sinceFrame
  PROVE  /\ latest'.status = "OK"
         /\ Elapsed(tick, lastValid') <= sinceFrame
<1> DEFINE wellFormed == captured \in Frames
           decoded == IF wellFormed THEN [ch |-> captured.ch, status |-> StatusOf(captured)]
                                    ELSE latest
           stamp == IF wellFormed THEN tick ELSE lastValid
<1>1. lastValid' = stamp /\ latest' = Backstop(decoded, stamp)
  BY DEF Poll
<1>2. decoded.status = "OK" /\ Elapsed(tick, stamp) <= sinceFrame
  <2>1. CASE GoodCapture
    BY <2>1, LinkNumbers DEF GoodCapture, StatusOf, LinkInv
  <2>2. CASE captured = NoFrame /\ latest.status = "OK" /\ Elapsed(tick, lastValid) <= sinceFrame
    BY <2>2, CaptureAssumption
  <2>3. QED
    BY <2>1, <2>2 DEF LinkInv, LastFrameGood
<1>3. stamp \in Ticks
  BY LinkNumbers DEF LinkInv
<1> HIDE DEF decoded, stamp
<1>4. ~ Expired(stamp)
  <2>1. Elapsed(tick, stamp) \in Int
    BY <1>3, LinkNumbers, ElapsedType DEF LinkInv, Ticks
  <2>2. QED
    BY <1>2, <2>1, LinkNumbers DEF Expired, LinkInv
<1>5. QED
  BY <1>1, <1>2, <1>4 DEF Backstop

LEMMA LinkStep == LinkInv /\ [Next]_vars => LinkInv'
<1> SUFFICES ASSUME LinkInv, [Next]_vars
             PROVE  CaptureAligned' /\ LastFrameGood' /\ AlarmIsRecent'
  BY LossStep DEF LinkInv
<1> USE DEF lineVars, taskVars
<1>1. /\ LossInv /\ CaptureAligned /\ LastFrameGood /\ AlarmIsRecent
      /\ wire \in {"gap", "frame"}
      /\ calm \in Nat /\ sinceFrame \in Nat /\ sincePoll \in Nat
      /\ sinceFrame <= FramePeriod /\ FramePeriod \in Nat
  BY LinkNumbers DEF LinkInv, LossInv, TypeOK
\* Nothing is claimed of a line that is not calm.
<1>2. ASSUME calm' = 0, sinceFrame' \in Nat, sincePoll' \in Nat
      PROVE  LastFrameGood' /\ AlarmIsRecent'
  <2>1. PICK m \in Nat, n \in Nat : sinceFrame' = m /\ sincePoll' = n
    BY <1>2
  <2>2. ~ (0 > m) /\ 0 <= FramePeriod + n
    BY <1>1
  <2>3. QED
    BY <1>2, <2>1, <2>2 DEF LastFrameGood, AlarmIsRecent
<1>3. CASE FrameBegins
  BY <1>1, <1>3 DEF FrameBegins, CaptureAligned, LastFrameGood, AlarmIsRecent, GoodCapture
<1>4. ASSUME NEW f \in Sent, FrameEnds(f)
      PROVE  CaptureAligned' /\ LastFrameGood' /\ AlarmIsRecent'
  <2>1. /\ wire = "frame" /\ wire' = "gap" /\ sinceFrame' = 0 /\ dma' = "armed"
        /\ dma = "aligned" \/ (dma = "late" /\ calm = 0)
        /\ calm' = 0 \/ (f # Malformed /\ calm' = calm)
        /\ UNCHANGED <<receiver, tick, latest, lastValid, sincePoll, rxFrame>>
    BY <1>1, <1>4 DEF FrameEnds, CaptureAligned
  <2>2. CaptureAligned'
    BY <1>1, <2>1 DEF CaptureAligned
  <2>3. CASE calm' = 0
    BY <1>1, <1>2, <2>1, <2>2, <2>3
  <2>4. CASE calm' # 0
    <3>1. /\ dma = "aligned" /\ receiver = "good" /\ f # Malformed /\ calm' = calm
          /\ captured' = f
      BY <1>1, <1>4, <2>1, <2>4 DEF CaptureAligned, FrameEnds
    <3>2. f \in Frames /\ ~ f.failsafe
      BY <3>1 DEF Sent
    <3>3. QED
      BY <1>1, <2>1, <2>2, <3>1, <3>2 DEF LastFrameGood, AlarmIsRecent, GoodCapture
  <2>5. QED
    BY <2>3, <2>4
<1>5. CASE LineError
  <2>1. CaptureAligned'
    BY <1>1, <1>5 DEF LineError, Rearm, CaptureAligned
  <2>2. QED
    BY <1>1, <1>2, <1>5, <2>1 DEF LineError
<1>6. ASSUME NEW r \in {"good", "failsafe", "silent"}, ReceiverChanges(r)
      PROVE  CaptureAligned' /\ LastFrameGood' /\ AlarmIsRecent'
  <2>1. calm' = 0 /\ sinceFrame' \in Nat /\ sincePoll' \in Nat
    BY <1>1, <1>6 DEF ReceiverChanges
  <2>2. CaptureAligned'
    <3>1. CASE r = "silent" /\ wire = "frame"
      <4>1. wire' = "gap" /\ dma' = "armed"
        BY <1>1, <1>6, <3>1 DEF ReceiverChanges, CaptureAligned
      <4>2. QED
        BY <2>1, <4>1 DEF CaptureAligned
    <3>2. CASE ~ (r = "silent" /\ wire = "frame")
      <4>1. wire' = wire /\ dma' = dma
        BY <1>6, <3>2 DEF ReceiverChanges
      <4>2. QED
        BY <1>1, <2>1, <4>1 DEF CaptureAligned
    <3>3. QED
      BY <3>1, <3>2
  <2>3. QED
    BY <1>2, <2>1, <2>2
<1>7. CASE Poll
  <2>1. /\ UNCHANGED <<receiver, wire, sinceFrame, dma, tick, noGood, calm>>
        /\ captured' = NoFrame /\ sincePoll' = 0
    BY <1>7 DEF Poll
  <2>2. CaptureAligned'
    BY <1>1, <2>1 DEF CaptureAligned
  <2>3. CASE calm > sinceFrame
    BY <1>7, <2>1, <2>2, <2>3, PollOfGoodLink DEF LastFrameGood, AlarmIsRecent
  <2>4. CASE ~ (calm > sinceFrame)
    BY <1>1, <2>1, <2>2, <2>4 DEF LastFrameGood, AlarmIsRecent
  <2>5. QED
    BY <2>3, <2>4
<1>8. CASE Tick
  <2>1. /\ wire = "gap" /\ sincePoll' = sincePoll + 1
        /\ tick' = NextTick(tick)
        /\ UNCHANGED <<receiver, wire, dma, captured, latest, lastValid, rxFrame>>
    BY <1>8 DEF Tick
  <2>2. CASE receiver # "good"
    <3>1. calm' = 0 /\ sinceFrame' \in Nat /\ sincePoll' \in Nat
      BY <1>1, <1>8, <2>1, <2>2 DEF Tick
    <3>2. QED
      BY <1>1, <1>2, <2>1, <3>1 DEF CaptureAligned
  <2>3. CASE receiver = "good"
    <3>1. sinceFrame' = sinceFrame + 1 /\ calm' \in Nat /\ calm' <= calm + 1
      BY <1>1, <1>8, <2>3, SbusAssumption DEF Tick, Capped
    <3>2. CaptureAligned'
      BY <1>1, <2>1, <2>3 DEF CaptureAligned
    <3>3. AlarmIsRecent'
      BY <1>1, <2>1, <3>1 DEF AlarmIsRecent
    <3>4. ASSUME latest.status = "OK"
          PROVE  Elapsed(tick', lastValid) = Elapsed(tick, lastValid) + 1
      <4>1. /\ Elapsed(tick, lastValid) \in Nat /\ sincePoll < PollDeadline
            /\ Elapsed(tick, lastValid) < Timeout + sincePoll
            /\ Timeout + PollDeadline < TickMod
            /\ Timeout \in Nat /\ PollDeadline \in Nat /\ TickMod \in Nat
            /\ tick \in Ticks /\ lastValid \in Ticks
        BY <1>1, <1>8, <3>4, LinkNumbers DEF LossInv, FreshLatest, Tick
      <4>2. Elapsed(tick, lastValid) + 1 < TickMod
        BY <1>1, <4>1
      <4>3. QED
        BY <2>1, <4>1, <4>2, ElapsedNext
    <3>5. LastFrameGood'
      <4>1. Elapsed(tick, lastValid) \in Nat
        BY <1>1, LinkNumbers
      <4>2. QED
        BY <1>1, <2>1, <3>1, <3>4, <4>1 DEF LastFrameGood, GoodCapture
    <3>6. QED
      BY <3>2, <3>3, <3>5
  <2>4. QED
    BY <2>2, <2>3
<1>9. CASE UNCHANGED vars
  BY <1>1, <1>9 DEF vars, CaptureAligned, LastFrameGood, AlarmIsRecent, GoodCapture
<1>10. QED
  BY <1>3, <1>4, <1>5, <1>6, <1>7, <1>8, <1>9 DEF Next

(* A line that works is reported as good, whatever went before: errors in  *)
(* the middle of a frame, losses, rollovers of the tick counter.           *)
THEOREM GoodLinkIsReported == Spec => []GoodLinkReported
<1>1. LinkInv => GoodLinkReported
  <2>1. SUFFICES ASSUME LinkInv, calm > FramePeriod + PollDeadline
                 PROVE  rxFrame.status = "OK"
    BY DEF GoodLinkReported
  <2>2. /\ calm \in Nat /\ sincePoll \in Nat /\ sincePoll <= PollDeadline
        /\ FramePeriod \in Nat /\ PollDeadline \in Nat /\ rxFrame = latest
    BY <2>1, LinkNumbers DEF LinkInv, LossInv, FreshLatest
  <2>3. QED
    BY <2>1, <2>2 DEF LinkInv, AlarmIsRecent
<1>2. QED
  BY <1>1, LinkStart, LinkStep, PTL DEF Spec

(* Only a good frame, taken by a poll, ends a loss.                        *)
THEOREM LossIsLatched == Spec => LossLatched
<1> DEFINE Step == (rxFrame.status = "FAILSAFE" /\ rxFrame.status' = "OK")
                      => (captured \in Frames /\ ~ captured.failsafe)
<1>1. LossInv /\ [Next]_vars => [Step]_vars
  <2>1. SUFFICES ASSUME LossInv, Next, rxFrame.status = "FAILSAFE", rxFrame.status' = "OK"
                 PROVE  captured \in Frames /\ ~ captured.failsafe
    OBVIOUS
  <2>2. Poll
    BY <2>1 DEF Next, FrameBegins, FrameEnds, LineError, ReceiverChanges, Tick, taskVars
  <2>3. latest'.status = "OK" /\ latest.status # "OK" /\ TypeOK
    BY <2>1, <2>2 DEF LossInv, FreshLatest, Poll
  <2>4. QED
    BY <2>2, <2>3, PollOutcome
<1>2. Init => LossInv
  BY TypeStart, LossStart DEF LossInv
<1>3. QED
  BY <1>1, <1>2, LossStep, PTL DEF Spec, LossLatched

(* The receiver's own failsafe bit decides the poll that takes its frame.  *)
THEOREM BitIsReported == Spec => BitReported
<1> DEFINE Step == (captured \in Frames /\ captured.failsafe /\ captured' = NoFrame)
                      => rxFrame.status' = "FAILSAFE"
<1>1. TypeOK /\ [Next]_vars => [Step]_vars
  <2>1. SUFFICES ASSUME TypeOK, Next, captured \in Frames, captured.failsafe,
                        captured' = NoFrame
                 PROVE  rxFrame.status' = "FAILSAFE"
    OBVIOUS
  <2>2. Poll
    BY <2>1, CaptureAssumption
       DEF Next, FrameBegins, FrameEnds, Sent, LineError, ReceiverChanges, Tick
  <2>3. rxFrame' = latest' /\ latest' \in RxFrames /\ latest'.status # "OK"
    BY <2>1, <2>2, PollOutcome DEF Poll
  <2>4. QED
    BY <2>3 DEF RxFrames
<1>2. QED
  BY <1>1, TypeStart, TypeStep, PTL DEF Spec, BitReported


-----------------------------------------------------------------------------
(* S.Port: sequences, marks and bytes. *)

LEMMA SportNumbers ==
  /\ SPORT_FIELD_COUNT \in Nat /\ SPORT_FIELD_COUNT > 0
  /\ FrameLen \in Nat /\ FrameLen > 0
  /\ RingUsable \in Nat /\ FrameLen <= RingUsable
  /\ Latency \in Nat /\ Latency < RingUsable
  /\ SlotLen \in Nat
  /\ 3 + Latency + FrameLen <= SlotLen
  /\ 6 + Latency <= SlotLen
BY SportAssumption

LEMMA Pushed ==
  ASSUME NEW S, NEW q \in Seq(S), NEW e \in S
  PROVE  /\ Append(q, e) \in Seq(S)
         /\ Len(Append(q, e)) = Len(q) + 1
         /\ \A i \in 1 .. Len(q) : Append(q, e)[i] = q[i]
         /\ Append(q, e)[Len(q) + 1] = e
BY AppendProperties

LEMMA Popped ==
  ASSUME NEW S, NEW q \in Seq(S), q # <<>>
  PROVE  /\ Len(q) \in Nat /\ Len(q) > 0
         /\ Head(q) = q[1] /\ Head(q) \in S
         /\ Tail(q) \in Seq(S)
         /\ Len(Tail(q)) = Len(q) - 1
         /\ \A i \in 1 .. Len(q) - 1 : Tail(q)[i] = q[i + 1]
BY HeadTailProperties

LEMMA EmptyOrNot ==
  ASSUME NEW S, NEW q \in Seq(S)
  PROVE  Len(q) \in Nat /\ (q = <<>> <=> Len(q) = 0)
BY EmptySeq

(* No two of the bytes that the state machine tells apart are the same.    *)
DataByte(kind) == <<"data", kind>>
SumByte(kind) == <<"sum", kind>>
OtherId == <<"ID">>

LEMMA Distinct ==
  /\ START_STOP # PHYSICAL_ID
  /\ START_STOP # PUSH_PHYSICAL_ID
  /\ START_STOP # DLE
  /\ START_STOP # OtherId
  /\ PHYSICAL_ID # PUSH_PHYSICAL_ID
  /\ PHYSICAL_ID # OtherId
  /\ PUSH_PHYSICAL_ID # OtherId
  /\ DLE # OtherId
BY DEF START_STOP, PHYSICAL_ID, PUSH_PHYSICAL_ID, DLE, OtherId

LEMMA PushBytes ==
  ASSUME NEW kind
  PROVE  /\ DataByte(kind) # START_STOP /\ SumByte(kind) # START_STOP
         /\ DataByte(kind) # DLE /\ SumByte(kind) # DLE
         /\ SumByte(kind) # OtherId
         /\ DataByte(kind) # PHYSICAL_ID
         /\ DataByte(kind)[1] # "sum"
         /\ SumByte(kind)[1] = "sum"
         /\ kind # "trim" => DataByte(kind) # DataByte("trim") /\ SumByte(kind) # SumByte("trim")
BY DEF DataByte, SumByte, START_STOP, DLE, PHYSICAL_ID, OtherId

Bytes == BytesOf(slot)

LEMMA BytesPut ==
  ASSUME slot \in Kinds
  PROVE  /\ slot = "ours" => /\ Len(Bytes) = 2
                             /\ Bytes[1] = START_STOP
                             /\ Bytes[2] = PHYSICAL_ID
         /\ slot = "other" => /\ Len(Bytes) = 3
                              /\ Bytes[1] = START_STOP
                              /\ Bytes[2] = OtherId
                              /\ Bytes[3] = PHYSICAL_ID
         /\ slot \in Pushes => /\ Len(Bytes) = 5
                               /\ Bytes[1] = START_STOP
                               /\ Bytes[2] = PUSH_PHYSICAL_ID
                               /\ Bytes[3] = DataByte(slot)
                               /\ Bytes[4] = DLE
                               /\ Bytes[5] = SumByte(slot)
         /\ Len(Bytes) \in 2 .. 5
         /\ DOMAIN Bytes = 1 .. Len(Bytes)
         /\ \A i \in 1 .. Len(Bytes) : Bytes[i] \in Received
<1>1. CASE slot = "ours"
  <2>1. Bytes = <<START_STOP, PHYSICAL_ID>>
    BY <1>1 DEF Bytes, BytesOf
  <2>2. QED
    BY <1>1, <2>1 DEF Pushes, Received, Kinds, Bytes
<1>2. CASE slot = "other"
  <2>1. Bytes = <<START_STOP, OtherId, PHYSICAL_ID>>
    BY <1>2 DEF Bytes, BytesOf, OtherId
  <2>2. QED
    BY <1>2, <2>1 DEF Pushes, Received, Kinds, Bytes
<1>3. CASE slot \in Pushes
  <2>1. Bytes = <<START_STOP, PUSH_PHYSICAL_ID, DataByte(slot), DLE, SumByte(slot)>>
    BY <1>3 DEF Bytes, BytesOf, DataByte, SumByte, Pushes
  <2>2. QED
    BY <1>3, <2>1 DEF Pushes, Received, Kinds, Bytes
<1>4. QED
  BY <1>1, <1>2, <1>3 DEF Kinds

LEMMA OtherIdReceived == OtherId \in Received
<1>1. "other" \in Kinds
  BY DEF Kinds
<1>2. BytesOf("other") = <<START_STOP, OtherId, PHYSICAL_ID>>
  BY DEF BytesOf, OtherId
<1>3. BytesOf("other")[2] = OtherId /\ 2 \in DOMAIN BytesOf("other")
  BY <1>2
<1>4. QED
  BY <1>1, <1>3 DEF Received

LEMMA FrameBytes ==
  ASSUME NEW f \in Fields
  PROVE  /\ Frame(f) \in Seq(TxBytes)
         /\ Len(Frame(f)) = FrameLen
         /\ Frame(f) # <<>>
         /\ \A i \in 1 .. FrameLen : Frame(f)[i] = <<f, i>>
<1>1. Frame(f) \in Seq(TxBytes) /\ Len(Frame(f)) = FrameLen
  BY SportNumbers DEF Frame, TxBytes
<1>2. QED
  BY <1>1, SportNumbers DEF Frame

-----------------------------------------------------------------------------
(* S.Port: the types, and what the control register always shows. *)

TaskSteps == {"wait", "drain", "append", "clear", "clear write", "set", "set write",
              "arm", "arm write", "erasing"}

(* The task appends as long as it has bytes left, and never writes back a  *)
(* CR1 that neither sends nor listens as the last of its three.            *)
Always ==
  /\ pc = "append" <=> toSend # <<>>
  /\ cr1.te \/ cr1.re \/ pc \in {"set", "set write"}
  /\ pc = "arm write" => reg.te \/ reg.re

LEMMA Registers ==
  ASSUME NEW c \in CR1
  PROVE  /\ NothingLeft(c) \in CR1
         /\ NothingLeft(c).te = c.te
         /\ NothingLeft(c).re = c.re
         /\ EnableReceive([c EXCEPT !.tcie = FALSE]) \in CR1
         /\ EnableReceive([c EXCEPT !.tcie = FALSE]).re
         /\ Armed(c) \in CR1
         /\ Armed(c).te = c.te
         /\ Armed(c).re = c.re
         /\ [c EXCEPT !.te = FALSE, !.re = FALSE] \in CR1
         /\ [c EXCEPT !.te = TRUE] \in CR1
         /\ [c EXCEPT !.te = TRUE].te
<1>1. NothingLeft(c) \in CR1 /\ EnableReceive([c EXCEPT !.tcie = FALSE]) \in CR1 /\ Armed(c) \in CR1
  BY DEF NothingLeft, EnableReceive, Armed, CR1
<1>2. [c EXCEPT !.te = FALSE, !.re = FALSE] \in CR1 /\ [c EXCEPT !.te = TRUE] \in CR1
  BY DEF CR1
<1>3. NothingLeft(c).te = c.te /\ NothingLeft(c).re = c.re
  BY Zenon DEF NothingLeft, CR1
<1>4. Armed(c).te = c.te /\ Armed(c).re = c.re
  BY Zenon DEF Armed, CR1
<1>5. EnableReceive([c EXCEPT !.tcie = FALSE]).re
  BY Zenon DEF EnableReceive, CR1
<1>6. [c EXCEPT !.te = TRUE].te
  BY Zenon DEF CR1
<1>7. QED
  BY <1>1, <1>2, <1>3, <1>4, <1>5, <1>6

LEMMA ListeningBits ==
  /\ Listening \in CR1
  /\ Listening.te = FALSE /\ Listening.re = TRUE
  /\ Listening.txeie = FALSE /\ Listening.tcie = FALSE
BY DEF Listening, CR1

LEMMA SportTypeStart == SportInit => SportTypeOK /\ Always
<1> SUFFICES ASSUME SportInit PROVE SportTypeOK /\ Always
  OBVIOUS
<1> USE SportNumbers, ListeningBits
<1>1. rx \in RxStates
  BY DEF SportInit, RxStates
<1>2. field \in Fields
  BY DEF SportInit, Fields
<1>3. Always
  BY DEF SportInit, Always
<1>4. /\ rxRing \in Seq(Received) /\ Len(rxRing) = 0
      /\ txRing \in Seq(TxBytes) /\ Len(txRing) = 0
      /\ toSend \in Seq(TxBytes) /\ Len(toSend) = 0
      /\ out \in Seq(TxBytes)
  BY EmptySeq DEF SportInit
<1>5. /\ slot \in Kinds /\ pc = "wait" /\ cr1 = Listening /\ reg = Listening
      /\ slotTime = 0 /\ lag = 0
      /\ rdr = NoByte /\ tdr = NoByte /\ shifting = NoByte
      /\ reply = NoReply /\ applied = NoReply
      /\ tc = TRUE /\ notified = FALSE /\ late = FALSE /\ clean = TRUE
  BY Zenon DEF SportInit
<1>6. SportTypeOK
  <2>1. {late, clean} \subseteq BOOLEAN /\ tc \in BOOLEAN /\ notified \in BOOLEAN
    BY <1>5, Zenon
  <2>2. slotTime \in 0 .. SlotLen /\ lag \in 0 .. Latency
    BY <1>5
  <2>3. QED
    BY <1>1, <1>2, <1>4, <1>5, <2>1, <2>2 DEF SportTypeOK
<1>7. QED
  BY <1>3, <1>6

LEMMA ReceiveTyped ==
  ASSUME rx \in RxStates, NEW b \in Received
  PROVE  Receive(b) \in RxStates
<1>1. Destuffed(b) \in Received
  BY OtherIdReceived DEF Destuffed, OtherId
<1>2. QED
  BY <1>1 DEF Receive, ReceivedMarker, RxStates

LEMMA NextField ==
  ASSUME NEW f \in Fields
  PROVE  (f + 1) % SPORT_FIELD_COUNT \in Fields
BY SportNumbers DEF Fields

LEMMA SlotBytes ==
  ASSUME slot \in Kinds, NEW i \in DOMAIN BytesOf(slot)
  PROVE  BytesOf(slot)[i] \in Received
BY DEF Received

LEMMA SportTypeStep ==
  SportTypeOK /\ Always /\ [SportNext]_sportVars => SportTypeOK' /\ Always'
<1> SUFFICES ASSUME SportTypeOK, Always, [SportNext]_sportVars
             PROVE  SportTypeOK' /\ Always'
  OBVIOUS
<1> USE SportNumbers
<1>1. ASSUME UART7_IRQHandler PROVE SportTypeOK' /\ Always'
  <2> DEFINE feeds == cr1.txeie /\ tdr = NoByte /\ txRing # <<>>
             drained == cr1.txeie /\ tdr = NoByte /\ txRing = <<>>
             completes == tc /\ ~ feeds /\ (cr1.tcie \/ drained)
             afterTxe == IF drained THEN NothingLeft(cr1) ELSE cr1
             moves == feeds /\ cr1.te /\ shifting = NoByte
  <2>1. afterTxe \in CR1 /\ afterTxe.te = cr1.te /\ afterTxe.re = cr1.re
    BY Registers DEF SportTypeOK
  <2> HIDE DEF afterTxe
  <2>2. cr1' = IF completes THEN EnableReceive([afterTxe EXCEPT !.tcie = FALSE]) ELSE afterTxe
    BY <1>1 DEF UART7_IRQHandler, afterTxe
  <2>3. cr1' \in CR1
    BY <2>1, <2>2, Registers
  <2>4. cr1'.te \/ cr1'.re \/ pc \in {"set", "set write"}
    <3>1. CASE completes
      <4>1. cr1'.re
        BY <2>1, <2>2, <3>1, Registers
      <4>2. QED
        BY <4>1
    <3>2. CASE ~ completes
      <4>1. cr1' = afterTxe
        BY <2>2, <3>2
      <4>2. cr1.te \/ cr1.re \/ pc \in {"set", "set write"}
        BY DEF Always
      <4>3. QED
        BY <2>1, <4>1, <4>2, Zenon
    <3>3. QED
      BY <3>1, <3>2
  <2>5. rxRing' \in Seq(Received) /\ Len(rxRing') <= RingUsable
    <3>1. CASE rdr # NoByte /\ Room(rxRing)
      <4>1. rxRing' = Append(rxRing, rdr)
        BY <1>1, <3>1 DEF UART7_IRQHandler
      <4>2. rdr \in Received
        BY <3>1 DEF SportTypeOK
      <4>3. Append(rxRing, rdr) \in Seq(Received) /\ Len(Append(rxRing, rdr)) = Len(rxRing) + 1
        BY <4>2, Pushed DEF SportTypeOK
      <4>4. Len(rxRing) < RingUsable /\ Len(rxRing) \in Nat
        BY <3>1, EmptyOrNot DEF Room, SportTypeOK
      <4>5. QED
        BY <4>1, <4>3, <4>4
    <3>2. CASE ~ (rdr # NoByte /\ Room(rxRing))
      BY <1>1, <3>2 DEF UART7_IRQHandler, SportTypeOK
    <3>3. QED
      BY <3>1, <3>2
  <2>6. /\ txRing' \in Seq(TxBytes) /\ Len(txRing') <= RingUsable
        /\ shifting' \in TxBytes \cup {NoByte}
        /\ tdr' \in TxBytes \cup {NoByte}
    <3>1. CASE feeds
      <4>1. /\ txRing' = Tail(txRing)
            /\ shifting' \in {shifting, Head(txRing)}
            /\ tdr' \in {tdr, Head(txRing)}
        BY <1>1, <3>1 DEF UART7_IRQHandler
      <4>2. /\ Len(txRing) \in Nat /\ Head(txRing) \in TxBytes
            /\ Tail(txRing) \in Seq(TxBytes) /\ Len(Tail(txRing)) = Len(txRing) - 1
        BY <3>1, Popped DEF SportTypeOK
      <4>3. /\ txRing' \in Seq(TxBytes) /\ Len(txRing') = Len(txRing) - 1
            /\ Len(txRing) <= RingUsable
        BY <4>1, <4>2 DEF SportTypeOK
      <4>4. shifting' \in TxBytes \cup {NoByte} /\ tdr' \in TxBytes \cup {NoByte}
        BY <4>1, <4>2 DEF SportTypeOK
      <4>5. QED
        BY <4>2, <4>3, <4>4
    <3>2. CASE ~ feeds
      <4>1. txRing' = txRing /\ shifting' = shifting /\ tdr' = tdr
        BY <1>1, <3>2 DEF UART7_IRQHandler
      <4>2. QED
        BY <4>1 DEF SportTypeOK
    <3>3. QED
      BY <3>1, <3>2
  <2>7. tc' \in BOOLEAN /\ notified' \in BOOLEAN /\ rdr' \in Received \cup {NoByte}
    BY <1>1 DEF UART7_IRQHandler, SportTypeOK
  <2>8. UNCHANGED <<busVars, sportTaskVars, lag, out>>
    BY <1>1 DEF UART7_IRQHandler
  <2>9. SportTypeOK'
    BY <2>3, <2>5, <2>6, <2>7, <2>8 DEF SportTypeOK, busVars, sportTaskVars
  <2>10. Always'
    BY <2>4, <2>8 DEF Always, sportTaskVars
  <2>11. QED
    BY <2>9, <2>10
<1>2. ASSUME Wake PROVE SportTypeOK' /\ Always'
  BY <1>2 DEF Wake, Goto, SportTypeOK, Always, busVars, uartVars
<1>3. ASSUME Block PROVE SportTypeOK' /\ Always'
  BY <1>3 DEF Block, Goto, SportTypeOK, Always, busVars, uartVars, ringVars
<1>4. ASSUME ReadByte PROVE SportTypeOK' /\ Always'
  <2> DEFINE b == Head(rxRing)
  <2>1. /\ pc = "drain" /\ rxRing # <<>>
        /\ rxRing' = Tail(rxRing)
        /\ rx' = Receive(b)
        /\ UNCHANGED <<busVars, uartVars, txRing, notified, reg, lag>>
    BY <1>4 DEF ReadByte
  <2>2. /\ b \in Received /\ Len(rxRing) \in Nat
        /\ Tail(rxRing) \in Seq(Received) /\ Len(Tail(rxRing)) = Len(rxRing) - 1
    BY <2>1, Popped DEF SportTypeOK
  <2>3. rx' \in RxStates
    BY <2>1, <2>2, ReceiveTyped DEF SportTypeOK
  <2>4. rxRing' \in Seq(Received) /\ Len(rxRing') <= RingUsable
    BY <2>1, <2>2 DEF SportTypeOK
  <2> HIDE DEF b
  <2>5. cr1.te \/ cr1.re
    BY <2>1 DEF Always
  <2>6. toSend = <<>>
    BY <2>1 DEF Always
  <2>7. /\ pc' \in {"drain", "append", "erasing"}
        /\ toSend' \in Seq(TxBytes) /\ Len(toSend') <= FrameLen
        /\ pc' = "append" <=> toSend' # <<>>
        /\ field' \in Fields
        /\ reply' \in Fields \cup {Skipped, NoReply}
        /\ applied' \in Pushes \cup {NoReply}
        /\ late' \in BOOLEAN
        /\ out' \in Seq(TxBytes)
    <3>1. CASE UNCHANGED <<pc, field, toSend, reply, applied, late, out>>
      BY <2>1, <2>6, <3>1 DEF SportTypeOK
    <3>2. CASE /\ field' = (field + 1) % SPORT_FIELD_COUNT
               /\ \/ /\ toSend' = Frame(field)
                     /\ reply' = IF clean THEN field ELSE NoReply
                     /\ Goto("append")
                  \/ /\ reply' = IF clean THEN Skipped ELSE NoReply
                     /\ UNCHANGED <<toSend, pc>>
               /\ UNCHANGED <<applied, late, out>>
      <4>1. field \in Fields /\ field' \in Fields
        BY <3>2, NextField DEF SportTypeOK
      <4>2. Frame(field) \in Seq(TxBytes) /\ Len(Frame(field)) = FrameLen /\ Frame(field) # <<>>
        BY <4>1, FrameBytes
      <4>3. toSend' \in Seq(TxBytes) /\ Len(toSend') <= FrameLen
        <5>1. CASE toSend' = Frame(field)
          BY <4>2, <5>1
        <5>2. CASE toSend' = toSend
          BY <5>2 DEF SportTypeOK
        <5>3. QED
          BY <3>2, <5>1, <5>2
      <4>4. pc' \in {"drain", "append"} /\ (pc' = "append" <=> toSend' # <<>>)
        BY <2>1, <2>6, <3>2, <4>2 DEF Goto
      <4>5. reply' \in Fields \cup {Skipped, NoReply}
        BY <3>2, <4>1
      <4>6. QED
        BY <3>2, <4>1, <4>3, <4>4, <4>5 DEF SportTypeOK
    <3>3. CASE /\ applied' = IF clean THEN "trim" ELSE NoReply
               /\ late' = TRUE
               /\ out' = <<>>
               /\ Goto("erasing")
               /\ UNCHANGED <<field, toSend, reply>>
      <4>1. applied' \in Pushes \cup {NoReply}
        BY <3>3 DEF Pushes
      <4>2. out' \in Seq(TxBytes)
        BY <3>3
      <4>3. QED
        BY <2>6, <3>3, <4>1, <4>2 DEF SportTypeOK, Goto
    <3>4. QED
      BY <1>4, <3>1, <3>2, <3>3 DEF ReadByte
  <2>8. SportTypeOK'
    BY <2>1, <2>3, <2>4, <2>7 DEF SportTypeOK, busVars, uartVars
  <2>9. Always'
    BY <2>1, <2>5, <2>7, Zenon DEF Always, uartVars
  <2>10. QED
    BY <2>8, <2>9
<1>5. ASSUME EraseEnds PROVE SportTypeOK' /\ Always'
  BY <1>5 DEF EraseEnds, Goto, SportTypeOK, Always, busVars, uartVars, ringVars
<1>6. ASSUME AppendByte PROVE SportTypeOK' /\ Always'
  <2>1. /\ pc = "append" /\ Len(txRing) < RingUsable
        /\ txRing' = Append(txRing, Head(toSend))
        /\ toSend' = Tail(toSend)
        /\ pc' = IF Len(toSend) = 1 THEN "clear" ELSE "append"
        /\ UNCHANGED <<busVars, uartVars, rxRing, notified, reg, rx, field, reply, applied, late,
                       lag, out>>
    BY <1>6 DEF AppendByte, Room, Goto
  <2>2. toSend # <<>>
    BY <2>1 DEF Always
  <2>3. /\ Len(toSend) \in Nat /\ Len(toSend) > 0 /\ Head(toSend) \in TxBytes
        /\ Tail(toSend) \in Seq(TxBytes) /\ Len(Tail(toSend)) = Len(toSend) - 1
    BY <2>2, Popped DEF SportTypeOK
  <2>4. /\ Append(txRing, Head(toSend)) \in Seq(TxBytes)
        /\ Len(txRing) \in Nat
        /\ Len(Append(txRing, Head(toSend))) = Len(txRing) + 1
    BY <2>3, Pushed, EmptyOrNot DEF SportTypeOK
  <2>5. /\ txRing' \in Seq(TxBytes) /\ Len(txRing') <= RingUsable
        /\ toSend' \in Seq(TxBytes) /\ Len(toSend') <= FrameLen
    BY <2>1, <2>3, <2>4 DEF SportTypeOK
  <2>6. toSend' = <<>> <=> Len(toSend') = 0
    BY <2>5, EmptyOrNot
  <2>7. pc' = "append" <=> toSend' # <<>>
    BY <2>1, <2>3, <2>6
  <2>8. cr1.te \/ cr1.re
    BY <2>1 DEF Always
  <2>9. pc' \in {"clear", "append"}
    BY <2>1
  <2>10. SportTypeOK'
    BY <2>1, <2>5, <2>9 DEF SportTypeOK, busVars, uartVars
  <2>11. Always'
    BY <2>1, <2>7, <2>8, <2>9, Zenon DEF Always, uartVars
  <2>12. QED
    BY <2>10, <2>11
<1>7. ASSUME ReadCr1 PROVE SportTypeOK' /\ Always'
  <2>1. /\ pc \in {"clear", "set", "arm"}
        /\ reg' = cr1
        /\ pc' = CASE pc = "clear" -> "clear write" [] pc = "set" -> "set write" [] pc = "arm" -> "arm write"
        /\ UNCHANGED <<busVars, uartVars, ringVars, toSend, rx, field, reply, applied, late, lag, out>>
    BY <1>7 DEF ReadCr1, Goto
  <2>2. /\ pc' \in {"clear write", "set write", "arm write"}
        /\ pc' = "arm write" => pc = "arm"
        /\ pc = "set" => pc' = "set write"
    BY <2>1
  <2>3. SportTypeOK'
    BY <2>1, <2>2 DEF SportTypeOK, busVars, uartVars, ringVars
  <2>4. toSend = <<>>
    BY <2>1 DEF Always
  <2>5. cr1.te \/ cr1.re \/ pc = "set"
    BY <2>1 DEF Always
  <2>6. cr1' = cr1 /\ toSend' = toSend
    BY <2>1 DEF uartVars
  <2>7. Always'
    BY <2>1, <2>2, <2>4, <2>5, <2>6, Zenon DEF Always
  <2>8. QED
    BY <2>3, <2>7
<1>8. ASSUME WriteBack PROVE SportTypeOK' /\ Always'
  <2>1. PICK new \in CR1 :
          /\ WriteCr1(new)
          /\ \/ pc = "clear write" /\ pc' = "set"
             \/ pc = "set write" /\ pc' = "arm" /\ new.te
             \/ pc = "arm write" /\ pc' = "drain" /\ (new.te \/ new.re)
    <3>1. reg \in CR1
      BY DEF SportTypeOK
    <3>2. CASE pc = "clear write" /\ WriteCr1([reg EXCEPT !.te = FALSE, !.re = FALSE]) /\ Goto("set")
      BY <3>1, <3>2, Registers DEF Goto
    <3>3. CASE pc = "set write" /\ WriteCr1([reg EXCEPT !.te = TRUE]) /\ Goto("arm")
      BY <3>1, <3>3, Registers DEF Goto
    <3>4. CASE pc = "arm write" /\ WriteCr1(Armed(reg)) /\ Goto("drain")
      <4>1. reg.te \/ reg.re
        BY <3>4 DEF Always
      <4>2. Armed(reg) \in CR1 /\ Armed(reg).te = reg.te /\ Armed(reg).re = reg.re
        BY <3>1, Registers
      <4>3. Armed(reg).te \/ Armed(reg).re
        BY <4>1, <4>2, Zenon
      <4>4. QED
        BY <3>4, <4>2, <4>3 DEF Goto
    <3>5. QED
      BY <1>8, <3>2, <3>3, <3>4 DEF WriteBack
  <2>2. /\ cr1' = new
        /\ shifting' \in {tdr, shifting, NoByte}
        /\ tdr' \in {tdr, NoByte}
        /\ tc' \in BOOLEAN
        /\ rdr' = rdr
    BY <2>1 DEF WriteCr1
  <2>3. reg' = Listening /\ UNCHANGED <<busVars, ringVars, toSend, rx, field, reply, applied, late, lag, out>>
    BY <1>8 DEF WriteBack
  <2>4. pc' \in {"set", "arm", "drain"} /\ pc \in {"clear write", "set write", "arm write"}
    BY <2>1
  <2>5. SportTypeOK'
    BY <2>2, <2>3, <2>4, ListeningBits DEF SportTypeOK, busVars, ringVars
  <2>6. cr1'.te \/ cr1'.re \/ pc' = "set"
    BY <2>1, <2>2, Zenon
  <2>7. toSend' = <<>>
    BY <2>3, <2>4 DEF Always
  <2>8. Always'
    BY <2>4, <2>6, <2>7, Zenon DEF Always
  <2>9. QED
    BY <2>5, <2>8
<1>9. ASSUME ByteTime PROVE SportTypeOK' /\ Always'
  <2>1. /\ slotTime' = slotTime + 1 /\ slotTime < SlotLen
        /\ shifting' \in {tdr, NoByte} /\ tdr' \in {tdr, NoByte} /\ tc' \in BOOLEAN
        /\ out' \in {out, Append(out, shifting)} /\ (shifting = NoByte => out' = out)
        /\ lag' \in {0, lag + 1}
        /\ late \/ lag < Latency
        /\ lag' = IF late \/ (pc = "wait" /\ ~ notified) THEN 0 ELSE lag + 1
        /\ UNCHANGED <<slot, clean, cr1, ringVars, sportTaskVars>>
    BY <1>9 DEF ByteTime
  <2>2. rdr' \in Received \cup {NoByte}
    BY <1>9, SlotBytes DEF ByteTime, SportTypeOK
  <2>3. lag' \in 0 .. Latency /\ slotTime' \in 0 .. SlotLen
    <3>1. lag \in 0 .. Latency /\ slotTime \in 0 .. SlotLen
      BY DEF SportTypeOK
    <3>2. QED
      BY <2>1, <3>1
  <2>4. out' \in Seq(TxBytes)
    <3>1. out \in Seq(TxBytes) /\ shifting \in TxBytes \cup {NoByte}
      BY DEF SportTypeOK
    <3>2. shifting # NoByte => Append(out, shifting) \in Seq(TxBytes)
      BY <3>1, Pushed
    <3>3. QED
      BY <2>1, <3>1, <3>2
  <2>5. SportTypeOK'
    BY <2>1, <2>2, <2>3, <2>4 DEF SportTypeOK, ringVars, sportTaskVars
  <2>6. Always'
    BY <2>1 DEF Always, sportTaskVars
  <2>7. QED
    BY <2>5, <2>6
<1>10. ASSUME NEW kind \in Kinds, NextSlot(kind) PROVE SportTypeOK' /\ Always'
  <2>1. /\ slot' \in Kinds /\ slotTime' = 0
        /\ reply' = NoReply /\ applied' = NoReply
        /\ UNCHANGED <<uartVars, ringVars, pc, reg, toSend, rx, field, lag>>
    BY <1>10 DEF NextSlot
  <2>5. late' \in BOOLEAN /\ clean' \in BOOLEAN
    BY <1>10, Zenon DEF NextSlot
  <2>6. out' \in Seq(TxBytes)
    BY <1>10 DEF NextSlot
  <2>7. slotTime' \in 0 .. SlotLen
    BY <2>1
  <2>2. SportTypeOK'
    BY <2>1, <2>5, <2>6, <2>7 DEF SportTypeOK, uartVars, ringVars
  <2>3. Always'
    BY <2>1 DEF Always, uartVars
  <2>4. QED
    BY <2>2, <2>3
<1>11. ASSUME UNCHANGED sportVars PROVE SportTypeOK' /\ Always'
  <2>1. UNCHANGED <<busVars, uartVars, ringVars, sportTaskVars, lag, out>>
    BY <1>11 DEF sportVars
  <2>2. SportTypeOK'
    BY <2>1 DEF SportTypeOK, busVars, uartVars, ringVars, sportTaskVars
  <2>3. Always'
    BY <2>1, Zenon DEF Always, busVars, uartVars, ringVars, sportTaskVars
  <2>4. QED
    BY <2>2, <2>3
<1>12. CASE Task
  BY <1>2, <1>3, <1>4, <1>5, <1>6, <1>7, <1>8, <1>12 DEF Task
<1>13. CASE \E kind \in Kinds : NextSlot(kind)
  BY <1>10, <1>13
<1>14. QED
  BY <1>1, <1>9, <1>11, <1>12, <1>13 DEF SportNext

(* The link's variables always have their types: the rings never hold more *)
(* than they can, and the task never takes a byte from an empty one.       *)
THEOREM SportTypeCorrect == SportSpec => []SportTypeOK
<1>1. SportInit => SportTypeOK /\ Always
  BY SportTypeStart
<1>2. SportTypeOK /\ Always /\ [SportNext]_sportVars => (SportTypeOK /\ Always)'
  BY SportTypeStep
<1>3. QED
  BY <1>1, <1>2, PTL DEF SportSpec

-----------------------------------------------------------------------------
(* S.Port: the values of CR1 on the way of an answer. *)

Off == [te |-> FALSE, re |-> FALSE, txeie |-> FALSE, tcie |-> FALSE]
Driving == [te |-> TRUE, re |-> FALSE, txeie |-> FALSE, tcie |-> FALSE]
Feeding == [te |-> TRUE, re |-> FALSE, txeie |-> TRUE, tcie |-> FALSE]
Ending == [te |-> TRUE, re |-> FALSE, txeie |-> FALSE, tcie |-> TRUE]

LEMMA ControlBits ==
  /\ Off.te = FALSE /\ Off.re = FALSE /\ Off.txeie = FALSE /\ Off.tcie = FALSE
  /\ Driving.te = TRUE /\ Driving.re = FALSE /\ Driving.txeie = FALSE /\ Driving.tcie = FALSE
  /\ Feeding.te = TRUE /\ Feeding.re = FALSE /\ Feeding.txeie = TRUE /\ Feeding.tcie = FALSE
  /\ Ending.te = TRUE /\ Ending.re = FALSE /\ Ending.txeie = FALSE /\ Ending.tcie = TRUE
<1>1. Off.te = FALSE /\ Off.re = FALSE /\ Off.txeie = FALSE /\ Off.tcie = FALSE
  BY DEF Off
<1>2. Driving.te = TRUE /\ Driving.re = FALSE /\ Driving.txeie = FALSE /\ Driving.tcie = FALSE
  BY DEF Driving
<1>3. Feeding.te = TRUE /\ Feeding.re = FALSE /\ Feeding.txeie = TRUE /\ Feeding.tcie = FALSE
  BY DEF Feeding
<1>4. Ending.te = TRUE /\ Ending.re = FALSE /\ Ending.txeie = FALSE /\ Ending.tcie = TRUE
  BY DEF Ending
<1>5. QED
  BY <1>1, <1>2, <1>3, <1>4, Zenon

LEMMA SameRegister ==
  ASSUME NEW c \in CR1, NEW d \in CR1,
         c.te = d.te, c.re = d.re, c.txeie = d.txeie, c.tcie = d.tcie
  PROVE  c = d
BY DEF CR1

LEMMA ControlSteps ==
  /\ [Listening EXCEPT !.te = FALSE, !.re = FALSE] = Off
  /\ [Off EXCEPT !.te = TRUE] = Driving
  /\ Armed(Driving) = Feeding
  /\ NothingLeft(Feeding) = Ending
  /\ EnableReceive([Ending EXCEPT !.tcie = FALSE]) = Listening
<1>1. Off \in CR1 /\ Driving \in CR1 /\ Feeding \in CR1 /\ Ending \in CR1 /\ Listening \in CR1
  BY DEF Off, Driving, Feeding, Ending, Listening, CR1
<1>2. ASSUME NEW c \in CR1
      PROVE  /\ [c EXCEPT !.te = FALSE, !.re = FALSE].te = FALSE
             /\ [c EXCEPT !.te = FALSE, !.re = FALSE].re = FALSE
             /\ [c EXCEPT !.te = FALSE, !.re = FALSE].txeie = c.txeie
             /\ [c EXCEPT !.te = FALSE, !.re = FALSE].tcie = c.tcie
  BY Zenon DEF CR1
<1>3. ASSUME NEW c \in CR1
      PROVE  /\ [c EXCEPT !.te = TRUE].te = TRUE
             /\ [c EXCEPT !.te = TRUE].re = c.re
             /\ [c EXCEPT !.te = TRUE].txeie = c.txeie
             /\ [c EXCEPT !.te = TRUE].tcie = c.tcie
  BY Zenon DEF CR1
<1>4. ASSUME NEW c \in CR1
      PROVE  /\ Armed(c).te = c.te
             /\ Armed(c).re = c.re
             /\ Armed(c).txeie = TRUE
             /\ Armed(c).tcie = c.tcie
  BY Zenon DEF Armed, CR1
<1>5. ASSUME NEW c \in CR1
      PROVE  /\ NothingLeft(c).te = c.te
             /\ NothingLeft(c).re = c.re
             /\ NothingLeft(c).txeie = FALSE
             /\ NothingLeft(c).tcie = TRUE
  BY Zenon DEF NothingLeft, CR1
<1>6. ASSUME NEW c \in CR1
      PROVE  /\ EnableReceive([c EXCEPT !.tcie = FALSE]).te = FALSE
             /\ EnableReceive([c EXCEPT !.tcie = FALSE]).re = TRUE
             /\ EnableReceive([c EXCEPT !.tcie = FALSE]).txeie = c.txeie
             /\ EnableReceive([c EXCEPT !.tcie = FALSE]).tcie = FALSE
  BY Zenon DEF EnableReceive, CR1
<1>7. [Listening EXCEPT !.te = FALSE, !.re = FALSE] = Off
  <2>1. [Listening EXCEPT !.te = FALSE, !.re = FALSE] \in CR1
    BY <1>1, Registers
  <2>2. /\ [Listening EXCEPT !.te = FALSE, !.re = FALSE].te = Off.te
        /\ [Listening EXCEPT !.te = FALSE, !.re = FALSE].re = Off.re
        /\ [Listening EXCEPT !.te = FALSE, !.re = FALSE].txeie = Off.txeie
        /\ [Listening EXCEPT !.te = FALSE, !.re = FALSE].tcie = Off.tcie
    BY <1>1, <1>2, ListeningBits, ControlBits, Zenon
  <2>3. QED
    BY <1>1, <2>1, <2>2, SameRegister
<1>8. [Off EXCEPT !.te = TRUE] = Driving
  <2>1. [Off EXCEPT !.te = TRUE] \in CR1
    BY <1>1, Registers
  <2>2. /\ [Off EXCEPT !.te = TRUE].te = Driving.te
        /\ [Off EXCEPT !.te = TRUE].re = Driving.re
        /\ [Off EXCEPT !.te = TRUE].txeie = Driving.txeie
        /\ [Off EXCEPT !.te = TRUE].tcie = Driving.tcie
    BY <1>1, <1>3, ControlBits, Zenon
  <2>3. QED
    BY <1>1, <2>1, <2>2, SameRegister
<1>9. Armed(Driving) = Feeding
  <2>1. Armed(Driving) \in CR1
    BY <1>1, Registers
  <2>2. /\ Armed(Driving).te = Feeding.te
        /\ Armed(Driving).re = Feeding.re
        /\ Armed(Driving).txeie = Feeding.txeie
        /\ Armed(Driving).tcie = Feeding.tcie
    BY <1>1, <1>4, ControlBits, Zenon
  <2>3. QED
    BY <1>1, <2>1, <2>2, SameRegister
<1>10. NothingLeft(Feeding) = Ending
  <2>1. NothingLeft(Feeding) \in CR1
    BY <1>1, Registers
  <2>2. QED
    BY <1>1, <1>5, <2>1, SameRegister, ControlBits
<1>11. EnableReceive([Ending EXCEPT !.tcie = FALSE]) = Listening
  <2>1. EnableReceive([Ending EXCEPT !.tcie = FALSE]) \in CR1
    BY <1>1, Registers
  <2>2. QED
    BY <1>1, <1>6, <2>1, SameRegister, ControlBits, ListeningBits
<1>12. QED
  BY <1>7, <1>8, <1>9, <1>10, <1>11

LEMMA ControlsDiffer == Feeding # Ending /\ Listening # Feeding /\ Listening # Ending
BY Zenon, ControlBits, ListeningBits

-----------------------------------------------------------------------------
(* S.Port: what holds in every slot that the task is in time for. *)

(* The bytes of the slot that have arrived, those of them that the task    *)
(* has not read, and those it has.                                         *)
Arrived == IF slotTime < Len(Bytes) THEN slotTime ELSE Len(Bytes)
Unread == IF rdr = NoByte THEN Len(rxRing) ELSE Len(rxRing) + 1
Taken == Arrived - Unread

AnswerSteps == {"append", "clear", "clear write", "set", "set write", "arm", "arm write"}

(* The task is never behind by more bytes than it has been busy for: the   *)
(* ring is not overrun, nothing waits in it while the task sleeps, and the *)
(* bytes are done with before the next slot.                               *)
Reception ==
  /\ Taken >= 0
  /\ \A i \in 1 .. Len(rxRing) : rxRing[i] = Bytes[Taken + i]
  /\ rdr # NoByte => slotTime \in 1 .. Len(Bytes) /\ rdr = Bytes[slotTime]
  /\ Unread <= lag + 1
  /\ pc = "wait" /\ ~ notified => rxRing = <<>>
  /\ rxRing # <<>> \/ pc \in AnswerSteps => slotTime <= Len(Bytes) + lag

(* The receive state is the one of the bytes it has seen. *)
Marked == [state |-> "AWAITING_ID", stuffing |-> FALSE, payload |-> NoByte]
Collecting == [state |-> "PUSH_PAYLOAD", stuffing |-> FALSE, payload |-> NoByte]
Collected(kind) == [state |-> "PUSH_PAYLOAD", stuffing |-> FALSE, payload |-> DataByte(kind)]
Unstuffing(kind) == [state |-> "PUSH_PAYLOAD", stuffing |-> TRUE, payload |-> DataByte(kind)]

RxAt ==
  /\ Taken = 1 => rx = Marked
  /\ slot \in {"ours", "other"} /\ Taken >= 2 => rx.state = "IDLE"
  /\ slot \in Pushes => /\ Taken = 2 => rx = Collecting
                        /\ Taken = 3 => rx = Collected(slot)
                        /\ Taken = 4 => rx = Unstuffing(slot)
                        /\ Taken = 5 => slot # "trim"

(* The stages of an answer: nothing to send, appended to the ring, the     *)
(* line turned around, the bytes sent, and listening again.                *)
Unplugged == tdr = NoByte /\ shifting = NoByte
Silent == cr1 = Listening /\ Unplugged /\ txRing = <<>> /\ toSend = <<>> /\ pc \in {"wait", "drain"}
Quiet == Silent /\ out = <<>> /\ reply = NoReply

Loading ==
  /\ pc = "append" /\ cr1 = Listening /\ Unplugged /\ out = <<>>
  /\ Len(txRing) + Len(toSend) = FrameLen
  /\ \A i \in 1 .. Len(txRing) : txRing[i] = <<reply, i>>
  /\ \A i \in 1 .. Len(toSend) : toSend[i] = <<reply, Len(txRing) + i>>

Turning ==
  /\ Unplugged /\ out = <<>> /\ toSend = <<>>
  /\ txRing = Frame(reply)
  /\ \/ pc = "clear" /\ cr1 = Listening
     \/ pc = "clear write" /\ cr1 = Listening /\ reg = Listening
     \/ pc = "set" /\ cr1 = Off
     \/ pc = "set write" /\ cr1 = Off /\ reg = Off
     \/ pc = "arm" /\ cr1 = Driving
     \/ pc = "arm write" /\ cr1 = Driving /\ reg = Driving

(* The bytes fed to the UART: those that have left, the one in the shift   *)
(* register and the one in TDR.                                            *)
Shifted == IF shifting = NoByte THEN 0 ELSE 1
Waiting == IF tdr = NoByte THEN 0 ELSE 1
Fed == Len(out) + Shifted + Waiting

Sending ==
  /\ pc \in {"wait", "drain"} /\ toSend = <<>>
  /\ cr1 \in {Feeding, Ending}
  /\ Fed + Len(txRing) = FrameLen
  /\ \A i \in 1 .. Len(out) : out[i] = <<reply, i>>
  /\ shifting # NoByte => shifting = <<reply, Len(out) + 1>> /\ ~ tc
  /\ tdr # NoByte => shifting # NoByte /\ tdr = <<reply, Len(out) + 2>> /\ cr1 = Feeding
  /\ \A i \in 1 .. Len(txRing) : txRing[i] = <<reply, Fed + i>>
  /\ cr1 = Ending => txRing = <<>>
  /\ shifting = NoByte /\ cr1 = Feeding => txRing # <<>>
  /\ shifting = NoByte /\ cr1 = Ending => tc
  /\ slotTime <= 2 + Latency + Len(out)

Answered == Silent /\ out = Frame(reply)

Answering ==
  \/ reply = Skipped /\ Silent /\ out = <<>>
  \/ reply \in Fields /\ (Loading \/ Turning \/ Sending \/ Answered)

Polled == slot = "ours" /\ Taken = 2

Answer == IF Polled THEN Answering ELSE Quiet

OnTime == ~ late => clean /\ Reception /\ RxAt /\ Answer /\ applied = NoReply

(* A push makes the task late in its own slot, and only after all of it.   *)
Applied ==
  late /\ clean =>
    /\ slot = "trim" /\ slotTime >= 5
    /\ rxRing = <<>> /\ rdr = NoByte
    /\ applied = "trim" /\ reply = NoReply /\ out = <<>>

LEMMA Counted ==
  ASSUME SportTypeOK
  PROVE  /\ slotTime \in Nat /\ slotTime <= SlotLen
         /\ lag \in Nat /\ lag <= Latency
         /\ Len(Bytes) \in Nat /\ Len(Bytes) \in 2 .. 5 /\ Len(Bytes) <= 5
         /\ Len(rxRing) \in Nat /\ (rxRing = <<>> <=> Len(rxRing) = 0)
         /\ Arrived \in Nat /\ Arrived <= slotTime /\ Arrived <= Len(Bytes)
         /\ Unread \in Nat /\ Taken \in Int
         /\ Taken + Unread = Arrived
<1> USE SportNumbers
<1>1. /\ slotTime \in Nat /\ slotTime <= SlotLen
      /\ lag \in Nat /\ lag <= Latency
  <2>1. slotTime \in 0 .. SlotLen /\ lag \in 0 .. Latency
    BY DEF SportTypeOK
  <2>2. QED
    BY <2>1
<1>2. Len(Bytes) \in 2 .. 5 /\ Len(Bytes) <= 5
  <2>1. ASSUME NEW n \in 2 .. 5 PROVE n <= 5
    OBVIOUS
  <2>2. QED
    BY <2>1, BytesPut DEF SportTypeOK
<1>3. Len(rxRing) \in Nat /\ (rxRing = <<>> <=> Len(rxRing) = 0)
  BY EmptyOrNot DEF SportTypeOK
<1>4. QED
  BY <1>1, <1>2, <1>3 DEF Arrived, Unread, Taken

(* A ring that the task is in time for has room for the next byte. *)
LEMMA RoomLeft ==
  ASSUME SportTypeOK, Reception, rdr # NoByte
  PROVE  Room(rxRing)
BY Counted, SportNumbers DEF Reception, Unread, Room

(* The line listens until the last byte of the slot is there. *)
LEMMA ListensFirst ==
  ASSUME SportTypeOK, Reception, Answer, slotTime < Len(Bytes)
  PROVE  cr1 = Listening
<1>1. Taken <= slotTime
  BY Counted
<1>2. slot = "ours" => Len(Bytes) = 2
  BY BytesPut DEF SportTypeOK
<1>3. ~ Polled
  <2>1. slotTime \in Nat /\ Taken \in Int
    BY Counted
  <2>2. slot = "ours" => slotTime < 2
    BY <1>2
  <2>3. QED
    BY <1>1, <2>1, <2>2 DEF Polled
<1>4. QED
  BY <1>3 DEF Answer, Quiet, Silent

(* Without a late answer CR1 has one of five values. *)
LEMMA OneOfFive ==
  ASSUME Answer
  PROVE  cr1 \in {Listening, Off, Driving, Feeding, Ending}
<1>1. CASE Answering
  BY <1>1 DEF Answering, Silent, Loading, Turning, Sending, Answered
<1>2. CASE Quiet
  BY <1>2 DEF Quiet, Silent
<1>3. QED
  BY <1>1, <1>2 DEF Answer

-----------------------------------------------------------------------------
(* S.Port: the interrupt, in time. *)

LEMMA IrqDoes ==
  ASSUME SportTypeOK, UART7_IRQHandler
  PROVE  /\ Pending
         /\ rdr' = NoByte
         /\ rxRing' = IF rdr # NoByte /\ Room(rxRing) THEN Append(rxRing, rdr) ELSE rxRing
         /\ notified' = (notified \/ rdr # NoByte)
         /\ slot' = slot /\ slotTime' = slotTime /\ clean' = clean
         /\ pc' = pc /\ reg' = reg /\ toSend' = toSend /\ rx' = rx /\ field' = field
         /\ reply' = reply /\ applied' = applied /\ late' = late /\ lag' = lag /\ out' = out
<1>1. UNCHANGED <<busVars, sportTaskVars, lag, out>>
  BY DEF UART7_IRQHandler
<1>2. /\ slot' = slot /\ slotTime' = slotTime /\ clean' = clean
      /\ pc' = pc /\ reg' = reg /\ toSend' = toSend /\ rx' = rx /\ field' = field
      /\ reply' = reply /\ applied' = applied /\ late' = late /\ lag' = lag /\ out' = out
  BY <1>1 DEF busVars, sportTaskVars
<1>3. QED
  BY <1>2, Zenon DEF UART7_IRQHandler

LEMMA IrqIdle ==
  ASSUME UART7_IRQHandler, tc \in BOOLEAN, cr1 \in {Listening, Off, Driving}
  PROVE  UNCHANGED <<cr1, tdr, shifting, tc, txRing>>
<1>1. cr1.txeie = FALSE /\ cr1.tcie = FALSE
  BY ListeningBits, ControlBits, Zenon
<1>2. cr1' = cr1
  BY <1>1, Zenon DEF UART7_IRQHandler
<1>3. tdr' = tdr /\ shifting' = shifting /\ txRing' = txRing
  BY <1>1, Zenon DEF UART7_IRQHandler
<1>4. tc' = tc
  <2>1. tc' = (tc /\ TRUE)
    BY <1>1, Zenon DEF UART7_IRQHandler
  <2>2. QED
    BY <2>1
<1>5. QED
  BY <1>2, <1>3, <1>4

LEMMA IrqFeeds ==
  ASSUME UART7_IRQHandler, tc \in BOOLEAN, cr1 = Feeding, tdr = NoByte, txRing # <<>>
  PROVE  /\ cr1' = Feeding
         /\ txRing' = Tail(txRing)
         /\ ~ tc'
         /\ shifting = NoByte => shifting' = Head(txRing) /\ tdr' = NoByte
         /\ shifting # NoByte => shifting' = shifting /\ tdr' = Head(txRing)
<1>1. cr1.txeie /\ cr1.te /\ ~ cr1.tcie
  BY ControlBits, Zenon
<1>2. cr1' = Feeding
  BY <1>1, Zenon DEF UART7_IRQHandler
<1>3. txRing' = Tail(txRing)
  BY <1>1, Zenon DEF UART7_IRQHandler
<1>4. ~ tc'
  BY <1>1, Zenon DEF UART7_IRQHandler
<1>5. shifting = NoByte => shifting' = Head(txRing) /\ tdr' = NoByte
  BY <1>1, Zenon DEF UART7_IRQHandler
<1>6. shifting # NoByte => shifting' = shifting /\ tdr' = Head(txRing)
  BY <1>1, Zenon DEF UART7_IRQHandler
<1>7. QED
  BY <1>2, <1>3, <1>4, <1>5, <1>6, Zenon

LEMMA IrqDrained ==
  ASSUME UART7_IRQHandler, tc \in BOOLEAN, cr1 = Feeding, tdr = NoByte, txRing = <<>>, ~ tc
  PROVE  cr1' = Ending /\ UNCHANGED <<tdr, shifting, tc, txRing>>
<1>1. cr1.txeie /\ ~ cr1.tcie
  BY ControlBits, Zenon
<1>2. cr1' = NothingLeft(cr1)
  BY <1>1, Zenon DEF UART7_IRQHandler
<1>3. tdr' = tdr /\ shifting' = shifting /\ txRing' = txRing
  BY <1>1, Zenon DEF UART7_IRQHandler
<1>4. tc' = tc
  <2>1. tc' = (tc /\ TRUE)
    BY <1>1, Zenon DEF UART7_IRQHandler
  <2>2. QED
    BY <2>1
<1>5. QED
  BY <1>2, <1>3, <1>4, ControlSteps

LEMMA IrqNotFed ==
  ASSUME UART7_IRQHandler, tc \in BOOLEAN, cr1 = Feeding, tdr # NoByte
  PROVE  UNCHANGED <<cr1, tdr, shifting, tc, txRing>>
<1>1. ~ cr1.tcie
  BY ControlBits, Zenon
<1>2. cr1' = cr1
  BY <1>1, Zenon DEF UART7_IRQHandler
<1>3. tdr' = tdr /\ shifting' = shifting /\ txRing' = txRing
  BY <1>1, Zenon DEF UART7_IRQHandler
<1>4. tc' = tc
  <2>1. tc' = (tc /\ TRUE)
    BY <1>1, Zenon DEF UART7_IRQHandler
  <2>2. QED
    BY <2>1
<1>5. QED
  BY <1>2, <1>3, <1>4

LEMMA IrqEnds ==
  ASSUME UART7_IRQHandler, tc \in BOOLEAN, cr1 = Ending
  PROVE  /\ cr1' = IF tc THEN Listening ELSE Ending
         /\ tdr' = tdr /\ shifting' = shifting /\ txRing' = txRing
         /\ tc' = tc
<1>1. ~ cr1.txeie /\ cr1.tcie
  BY ControlBits, Zenon
<1>2. cr1' = IF tc THEN EnableReceive([cr1 EXCEPT !.tcie = FALSE]) ELSE cr1
  BY <1>1, Zenon DEF UART7_IRQHandler
<1>3. tdr' = tdr /\ shifting' = shifting /\ txRing' = txRing
  BY <1>1, Zenon DEF UART7_IRQHandler
<1>4. tc' = tc
  <2>1. tc' = (tc /\ TRUE)
    BY <1>1, Zenon DEF UART7_IRQHandler
  <2>2. QED
    BY <2>1
<1>5. QED
  BY <1>2, <1>3, <1>4, ControlSteps, Zenon

LEMMA IrqReception ==
  ASSUME SportTypeOK, Reception, UART7_IRQHandler
  PROVE  Reception' /\ Taken' = Taken
<1>1. /\ rdr' = NoByte
      /\ notified' = (notified \/ rdr # NoByte)
      /\ slot' = slot /\ slotTime' = slotTime /\ pc' = pc /\ lag' = lag
  BY IrqDoes
<1>2. Bytes' = Bytes /\ Arrived' = Arrived
  BY <1>1 DEF Bytes, Arrived
<1>3. CASE rdr = NoByte
  <2>1. rxRing' = rxRing /\ notified' = notified
    <3>1. rxRing' = rxRing
      BY <1>3, IrqDoes
    <3>2. notified \in BOOLEAN
      BY DEF SportTypeOK
    <3>3. QED
      BY <1>1, <1>3, <3>1, <3>2
  <2>2. Unread' = Unread
    BY <1>1, <1>3, <2>1 DEF Unread
  <2>3. Taken' = Taken
    BY <1>2, <2>2 DEF Taken
  <2>4. QED
    BY <1>1, <1>2, <1>3, <2>1, <2>2, <2>3, Zenon DEF Reception
<1>4. CASE rdr # NoByte
  <2>1. rxRing' = Append(rxRing, rdr) /\ notified'
    BY <1>4, IrqDoes, RoomLeft
  <2>2. rxRing \in Seq(Received) /\ rdr \in Received
    BY <1>4 DEF SportTypeOK
  <2>3. /\ Len(rxRing) \in Nat /\ Len(rxRing') = Len(rxRing) + 1
        /\ \A i \in 1 .. Len(rxRing) : rxRing'[i] = rxRing[i]
        /\ rxRing'[Len(rxRing) + 1] = rdr
    BY <2>1, <2>2, Pushed, EmptyOrNot
  <2>4. Unread' = Unread
    BY <1>1, <1>4, <2>3 DEF Unread
  <2>5. Taken' = Taken
    BY <1>2, <2>4 DEF Taken
  <2>6. slotTime \in 1 .. Len(Bytes) /\ rdr = Bytes[slotTime]
    BY <1>4 DEF Reception
  <2>7. Taken + Len(rxRing) + 1 = slotTime
    <3>1. Arrived = slotTime
      BY <2>6, Counted DEF Arrived
    <3>2. QED
      BY <1>4, <2>3, <3>1, Counted DEF Unread
  <2>8. ASSUME NEW i \in 1 .. Len(rxRing') PROVE rxRing'[i] = Bytes'[Taken' + i]
    <3>1. CASE i \in 1 .. Len(rxRing)
      <4>1. rxRing[i] = Bytes[Taken + i]
        BY <3>1 DEF Reception
      <4>2. QED
        BY <1>2, <2>3, <2>5, <3>1, <4>1
    <3>2. CASE i = Len(rxRing) + 1
      <4>1. Taken + i = slotTime
        BY <2>7, <3>2, <2>3, Counted
      <4>2. QED
        BY <1>2, <2>3, <2>5, <2>6, <3>2, <4>1
    <3>3. QED
      BY <2>3, <3>1, <3>2
  <2>9. slotTime' <= Len(Bytes') + lag'
    BY <1>1, <1>2, <2>6, Counted
  <2>10. Taken' >= 0 /\ Unread' <= lag' + 1
    BY <1>1, <2>4, <2>5 DEF Reception
  <2>11. QED
    BY <1>1, <2>1, <2>5, <2>8, <2>9, <2>10 DEF Reception
<1>5. QED
  BY <1>3, <1>4

LEMMA IrqSending ==
  ASSUME SportTypeOK, Sending, reply \in Fields, UART7_IRQHandler
  PROVE  Sending' \/ Answered'
<1>1. /\ slotTime' = slotTime /\ pc' = pc /\ toSend' = toSend /\ reply' = reply /\ out' = out
  BY IrqDoes
<1>2. tc \in BOOLEAN /\ Len(out) \in Nat /\ Len(txRing) \in Nat /\ FrameLen \in Nat
  BY EmptyOrNot, SportNumbers DEF SportTypeOK
<1>3. ASSUME UNCHANGED <<cr1, tdr, shifting, tc, txRing>> PROVE Sending'
  BY <1>1, <1>3, Zenon DEF Sending, Fed, Shifted, Waiting
<1>4. CASE cr1 = Feeding /\ tdr = NoByte /\ txRing # <<>>
  <2>1. /\ cr1' = Feeding /\ txRing' = Tail(txRing) /\ ~ tc'
        /\ shifting = NoByte => shifting' = Head(txRing) /\ tdr' = NoByte
        /\ shifting # NoByte => shifting' = shifting /\ tdr' = Head(txRing)
    BY <1>2, <1>4, IrqFeeds
  <2>2. /\ Len(txRing) > 0
        /\ Head(txRing) = txRing[1] /\ Head(txRing) \in TxBytes
        /\ Len(Tail(txRing)) = Len(txRing) - 1
        /\ \A i \in 1 .. Len(txRing) - 1 : Tail(txRing)[i] = txRing[i + 1]
    BY <1>4, Popped DEF SportTypeOK
  <2>3. Head(txRing) # NoByte
    BY <2>2, MarkAssumption
  <2>4. Head(txRing) = <<reply, Fed + 1>>
    BY <1>2, <2>2 DEF Sending
  <2>5. Fed' = Fed + 1 /\ Fed \in Nat
    <3>1. Waiting = 0 /\ Fed = Len(out) + Shifted /\ Shifted \in {0, 1}
      BY <1>2, <1>4 DEF Fed, Shifted, Waiting
    <3>2. Fed' = Len(out) + Shifted' + Waiting'
      BY <1>1 DEF Fed
    <3>3. CASE shifting = NoByte
      <4>1. Shifted = 0 /\ Shifted' = 1 /\ Waiting' = 0
        BY <2>1, <2>3, <3>3 DEF Shifted, Waiting
      <4>2. QED
        BY <1>2, <3>1, <3>2, <4>1
    <3>4. CASE shifting # NoByte
      <4>1. Shifted = 1 /\ Shifted' = 1 /\ Waiting' = 1
        BY <2>1, <2>3, <3>4 DEF Shifted, Waiting
      <4>2. QED
        BY <1>2, <3>1, <3>2, <4>1
    <3>5. QED
      BY <3>3, <3>4
  <2>6. Fed' + Len(txRing') = FrameLen
    <3>1. Fed + Len(txRing) = FrameLen
      BY DEF Sending
    <3>2. Len(txRing') = Len(txRing) - 1
      BY <2>1, <2>2
    <3>3. QED
      BY <1>2, <2>5, <3>1, <3>2
  <2>7. shifting' = <<reply, Len(out) + 1>> /\ shifting' # NoByte
    <3>1. CASE shifting = NoByte
      <4>1. Fed = Len(out)
        BY <1>2, <1>4, <3>1 DEF Fed, Shifted, Waiting
      <4>2. QED
        BY <2>1, <2>3, <2>4, <3>1, <4>1
    <3>2. CASE shifting # NoByte
      BY <2>1, <3>2 DEF Sending
    <3>3. QED
      BY <3>1, <3>2
  <2>8. tdr' # NoByte => tdr' = <<reply, Len(out) + 2>>
    <3>1. CASE shifting = NoByte
      BY <2>1, <3>1
    <3>2. CASE shifting # NoByte
      <4>1. Fed = Len(out) + 1
        BY <1>2, <1>4, <3>2 DEF Fed, Shifted, Waiting
      <4>2. Fed + 1 = Len(out) + 2
        BY <1>2, <4>1
      <4>3. QED
        BY <2>1, <2>4, <3>2, <4>2
    <3>3. QED
      BY <3>1, <3>2
  <2>9. ASSUME NEW i \in 1 .. Len(txRing') PROVE txRing'[i] = <<reply, Fed' + i>>
    <3>1. i \in 1 .. Len(txRing) - 1 /\ i + 1 \in 1 .. Len(txRing)
      BY <1>2, <2>1, <2>2
    <3>2. txRing'[i] = txRing[i + 1]
      BY <2>1, <2>2, <3>1
    <3>3. txRing[i + 1] = <<reply, Fed + (i + 1)>>
      BY <3>1 DEF Sending
    <3>4. Fed + (i + 1) = Fed' + i
      BY <2>5, <3>1
    <3>5. QED
      BY <3>2, <3>3, <3>4
  <2>10. /\ pc' \in {"wait", "drain"} /\ toSend' = <<>>
         /\ slotTime' <= 2 + Latency + Len(out')
         /\ \A i \in 1 .. Len(out') : out'[i] = <<reply', i>>
    BY <1>1 DEF Sending
  <2>11. cr1' \in {Feeding, Ending} /\ cr1' # Ending
    BY <2>1, ControlsDiffer
  <2>12. Sending'
    BY <1>1, <2>1, <2>6, <2>7, <2>8, <2>9, <2>10, <2>11 DEF Sending
  <2>13. QED
    BY <2>12
<1>5. CASE cr1 = Feeding /\ tdr = NoByte /\ txRing = <<>>
  <2>1. shifting # NoByte /\ ~ tc
    BY <1>5 DEF Sending
  <2>2. cr1' = Ending /\ UNCHANGED <<tdr, shifting, tc, txRing>>
    BY <1>2, <1>5, <2>1, IrqDrained
  <2>3. Fed' = Fed
    BY <1>1, <2>2 DEF Fed, Shifted, Waiting
  <2>4. /\ pc' \in {"wait", "drain"} /\ toSend' = <<>>
        /\ slotTime' <= 2 + Latency + Len(out')
        /\ \A i \in 1 .. Len(out') : out'[i] = <<reply', i>>
        /\ Fed' + Len(txRing') = FrameLen
        /\ \A i \in 1 .. Len(txRing') : txRing'[i] = <<reply', Fed' + i>>
        /\ shifting' = <<reply', Len(out') + 1>>
    BY <1>1, <2>1, <2>2, <2>3 DEF Sending
  <2>5. Sending'
    BY <1>5, <2>1, <2>2, <2>4, Zenon DEF Sending
  <2>6. QED
    BY <2>5
<1>6. CASE cr1 = Feeding /\ tdr # NoByte
  BY <1>2, <1>3, <1>6, IrqNotFed
<1>7. CASE cr1 = Ending
  <2>1. /\ cr1' = IF tc THEN Listening ELSE Ending
        /\ tdr' = tdr /\ shifting' = shifting /\ txRing' = txRing
        /\ tc' = tc
    BY <1>2, <1>7, IrqEnds
  <2>2. CASE ~ tc
    BY <1>3, <1>7, <2>1, <2>2
  <2>3. CASE tc
    <3>1. shifting = NoByte /\ tdr = NoByte /\ txRing = <<>>
      BY <1>7, <2>3, ControlsDiffer DEF Sending
    <3>2. Len(out) = FrameLen
      <4>1. Len(txRing) = 0 /\ Fed = Len(out)
        BY <1>2, <3>1 DEF Fed, Shifted, Waiting
      <4>2. QED
        BY <1>2, <4>1 DEF Sending
    <3>3. out = Frame(reply)
      <4>1. out \in Seq(TxBytes)
        BY DEF SportTypeOK
      <4>2. /\ Frame(reply) \in Seq(TxBytes) /\ Len(Frame(reply)) = FrameLen
            /\ \A i \in 1 .. FrameLen : Frame(reply)[i] = <<reply, i>>
        BY FrameBytes
      <4>3. \A i \in 1 .. Len(out) : out[i] = Frame(reply)[i]
        BY <3>2, <4>2 DEF Sending
      <4>4. QED
        BY <3>2, <4>1, <4>2, <4>3, SeqEqual
    <3>4. Silent'
      BY <1>1, <2>1, <2>3, <3>1 DEF Silent, Unplugged, Sending
    <3>5. out' = Frame(reply')
      BY <1>1, <3>3
    <3>6. QED
      BY <3>4, <3>5 DEF Answered
  <2>4. QED
    BY <2>2, <2>3
<1>8. QED
  BY <1>4, <1>5, <1>6, <1>7 DEF Sending

LEMMA IrqAnswer ==
  ASSUME SportTypeOK, Answer, UART7_IRQHandler, Taken' = Taken
  PROVE  Answer'
<1>1. /\ slot' = slot /\ slotTime' = slotTime /\ pc' = pc /\ reg' = reg /\ toSend' = toSend
      /\ reply' = reply /\ out' = out
  BY IrqDoes
<1>2. tc \in BOOLEAN
  BY DEF SportTypeOK
<1>3. Polled' = Polled
  BY <1>1 DEF Polled
<1>4. ASSUME UNCHANGED <<cr1, tdr, shifting, tc, txRing>> PROVE Answer'
  BY <1>1, <1>3, <1>4, Zenon
     DEF Answer, Answering, Quiet, Silent, Loading, Turning, Sending, Answered, Unplugged, Fed, Shifted, Waiting
<1>5. CASE cr1 \in {Listening, Off, Driving}
  BY <1>2, <1>4, <1>5, IrqIdle
<1>6. CASE cr1 \in {Feeding, Ending}
  <2>1. Polled /\ reply \in Fields /\ Sending
    BY <1>6, ControlsDiffer, Zenon, ControlBits, ListeningBits
       DEF Answer, Answering, Quiet, Silent, Loading, Turning, Answered
  <2>2. Sending' \/ Answered'
    BY <2>1, IrqSending
  <2>3. QED
    BY <1>1, <1>3, <2>1, <2>2 DEF Answer, Answering
<1>7. QED
  BY <1>5, <1>6, OneOfFive

-----------------------------------------------------------------------------
(* S.Port: the task between two bytes, in time. *)

LEMMA NothingPending ==
  ASSUME ~ Pending
  PROVE  rdr = NoByte /\ (cr1 = Feeding => tdr # NoByte) /\ (cr1 = Ending => ~ tc)
<1>1. rdr = NoByte
  BY DEF Pending
<1>2. cr1 = Feeding => tdr # NoByte
  BY ControlBits, Zenon DEF Pending
<1>3. cr1 = Ending => ~ tc
  BY ControlBits, Zenon DEF Pending
<1>4. QED
  BY <1>1, <1>2, <1>3

(* What the task may do without touching the bytes it receives. *)
LEMMA ReceptionKept ==
  ASSUME SportTypeOK, Reception, RxAt,
         rdr' = rdr, rxRing' = rxRing, slot' = slot, slotTime' = slotTime, rx' = rx, lag' = lag,
         pc # "wait", pc' # "wait",
         pc' \in AnswerSteps => pc \in AnswerSteps
  PROVE  Reception' /\ RxAt' /\ Taken' = Taken
<1>1. Bytes' = Bytes /\ Arrived' = Arrived /\ Unread' = Unread /\ Taken' = Taken
  BY DEF Bytes, Arrived, Unread, Taken
<1>2. Reception'
  BY <1>1, Zenon DEF Reception
<1>3. RxAt'
  BY <1>1, Zenon DEF RxAt
<1>4. QED
  BY <1>1, <1>2, <1>3

LEMMA AnswerKept ==
  ASSUME Answer, Taken' = Taken, slot' = slot, slotTime' = slotTime,
         UNCHANGED <<cr1, tdr, shifting, tc, txRing, toSend, reply, out>>,
         pc \in {"wait", "drain"}, pc' \in {"wait", "drain"}
  PROVE  Answer'
<1>1. Polled' = Polled
  BY DEF Polled
<1>2. Silent => Silent'
  BY DEF Silent, Unplugged
<1>3. Sending => Sending'
  BY DEF Sending, Fed, Shifted, Waiting
<1>4. ~ Loading /\ ~ Turning
  BY DEF Loading, Turning
<1>5. QED
  BY <1>1, <1>2, <1>3, <1>4, Zenon DEF Answer, Answering, Quiet, Answered

LEMMA WakeInTime ==
  ASSUME SportTypeOK, Reception, RxAt, Answer, ~ Pending, Wake
  PROVE  Reception' /\ RxAt' /\ Answer'
<1>1. /\ pc = "wait" /\ pc' = "drain" /\ notified' = FALSE
      /\ rdr' = rdr /\ rxRing' = rxRing /\ slot' = slot /\ slotTime' = slotTime /\ rx' = rx /\ lag' = lag
      /\ UNCHANGED <<cr1, tdr, shifting, tc, txRing, toSend, reply, out>>
  BY DEF Wake, Goto, busVars, uartVars
<1>2. Bytes' = Bytes /\ Arrived' = Arrived /\ Unread' = Unread /\ Taken' = Taken
  BY <1>1 DEF Bytes, Arrived, Unread, Taken
<1>3. pc' \notin AnswerSteps
  BY <1>1 DEF AnswerSteps
<1>4. Reception'
  BY <1>1, <1>2, <1>3, Zenon DEF Reception
<1>5. RxAt'
  BY <1>1, <1>2, Zenon DEF RxAt
<1>6. Answer'
  BY <1>1, <1>2, AnswerKept
<1>7. QED
  BY <1>4, <1>5, <1>6

LEMMA BlockInTime ==
  ASSUME SportTypeOK, Reception, RxAt, Answer, ~ Pending, Block
  PROVE  Reception' /\ RxAt' /\ Answer'
<1>1. /\ pc = "drain" /\ rxRing = <<>> /\ pc' = "wait" /\ lag' = 0
      /\ rdr' = rdr /\ rxRing' = rxRing /\ slot' = slot /\ slotTime' = slotTime /\ rx' = rx
      /\ UNCHANGED <<cr1, tdr, shifting, tc, txRing, toSend, reply, out>>
  BY DEF Block, Goto, busVars, uartVars, ringVars
<1>2. Bytes' = Bytes /\ Arrived' = Arrived /\ Unread' = Unread /\ Taken' = Taken
  BY <1>1 DEF Bytes, Arrived, Unread, Taken
<1>3. rdr = NoByte
  BY NothingPending
<1>4. Unread = 0 /\ Len(rxRing) = 0
  BY <1>1, <1>3, Counted DEF Unread
<1>5. pc' \notin AnswerSteps
  BY <1>1 DEF AnswerSteps
<1>6. Reception'
  <2>1. Taken' >= 0
    BY <1>2 DEF Reception
  <2>2. \A i \in 1 .. Len(rxRing') : rxRing'[i] = Bytes'[Taken' + i]
    BY <1>1, <1>4
  <2>3. Unread' <= lag' + 1
    BY <1>1, <1>2, <1>4
  <2>4. QED
    BY <1>1, <1>3, <1>5, <2>1, <2>2, <2>3 DEF Reception
<1>7. RxAt'
  BY <1>1, <1>2, Zenon DEF RxAt
<1>8. Answer'
  BY <1>1, <1>2, AnswerKept
<1>9. QED
  BY <1>6, <1>7, <1>8

(* The task turns the line around only for an answer it has appended. *)
LEMMA StageOf ==
  ASSUME Answer
  PROVE  /\ pc = "append" => Polled /\ reply \in Fields /\ Loading
         /\ pc \in {"clear", "clear write", "set", "set write", "arm", "arm write"} =>
              Polled /\ reply \in Fields /\ Turning
         /\ pc # "erasing"
         /\ pc = "drain" => ~ Loading /\ ~ Turning
BY DEF Answer, Answering, Quiet, Silent, Loading, Turning, Sending, Answered

LEMMA AppendInTime ==
  ASSUME SportTypeOK, Always, Reception, RxAt, Answer, ~ Pending, AppendByte
  PROVE  Reception' /\ RxAt' /\ Answer'
<1>1. /\ pc = "append"
      /\ txRing' = Append(txRing, Head(toSend))
      /\ toSend' = Tail(toSend)
      /\ pc' = IF Len(toSend) = 1 THEN "clear" ELSE "append"
      /\ rdr' = rdr /\ rxRing' = rxRing /\ slot' = slot /\ slotTime' = slotTime /\ rx' = rx /\ lag' = lag
      /\ UNCHANGED <<cr1, tdr, shifting, tc, reply, out>>
  BY DEF AppendByte, Goto, busVars, uartVars
<1>2. Reception' /\ RxAt' /\ Taken' = Taken
  BY <1>1, ReceptionKept DEF AnswerSteps
<1>3. Polled /\ reply \in Fields /\ Loading
  BY <1>1, StageOf
<1>4. Polled'
  BY <1>1, <1>2, <1>3 DEF Polled
<1>5. toSend # <<>>
  BY <1>1 DEF Always
<1>6. /\ Len(toSend) \in Nat /\ Len(toSend) > 0
      /\ Head(toSend) = toSend[1] /\ Head(toSend) \in TxBytes
      /\ Tail(toSend) \in Seq(TxBytes)
      /\ Len(Tail(toSend)) = Len(toSend) - 1
      /\ \A i \in 1 .. Len(toSend) - 1 : Tail(toSend)[i] = toSend[i + 1]
  BY <1>5, Popped DEF SportTypeOK
<1>7. /\ txRing' \in Seq(TxBytes)
      /\ Len(txRing) \in Nat /\ Len(txRing') = Len(txRing) + 1
      /\ \A i \in 1 .. Len(txRing) : txRing'[i] = txRing[i]
      /\ txRing'[Len(txRing) + 1] = Head(toSend)
  BY <1>1, <1>6, Pushed, EmptyOrNot DEF SportTypeOK
<1>8. \A i \in 1 .. Len(txRing') : txRing'[i] = <<reply, i>>
  <2>1. toSend[1] = <<reply, Len(txRing) + 1>>
    BY <1>3, <1>6, <1>7 DEF Loading
  <2>2. \A i \in 1 .. Len(txRing) : txRing'[i] = <<reply, i>>
    BY <1>3, <1>7 DEF Loading
  <2>3. QED
    BY <1>6, <1>7, <2>1, <2>2
<1>9. Len(txRing') + Len(toSend') = FrameLen
  BY <1>1, <1>3, <1>6, <1>7 DEF Loading
<1>10. ASSUME NEW i \in 1 .. Len(toSend') PROVE toSend'[i] = <<reply, Len(txRing') + i>>
  <2>1. i \in 1 .. Len(toSend) - 1 /\ i + 1 \in 1 .. Len(toSend)
    BY <1>1, <1>6, <1>10
  <2>2. toSend[i + 1] = <<reply, Len(txRing) + (i + 1)>>
    BY <1>3, <2>1 DEF Loading
  <2>3. Len(txRing) + (i + 1) = Len(txRing') + i
    BY <1>7, <2>1
  <2>4. QED
    BY <1>1, <1>6, <2>1, <2>2, <2>3
<1>11. CASE Len(toSend) = 1
  <2>1. toSend' = <<>>
    BY <1>1, <1>6, <1>11, EmptyOrNot
  <2>2. Len(toSend') = 0
    BY <1>1, <1>6, <1>11
  <2>3. txRing' = Frame(reply)
    <3>1. /\ Frame(reply) \in Seq(TxBytes) /\ Len(Frame(reply)) = FrameLen
          /\ \A i \in 1 .. FrameLen : Frame(reply)[i] = <<reply, i>>
      BY <1>3, FrameBytes
    <3>2. Len(txRing') = FrameLen
      BY <1>7, <1>9, <2>2
    <3>3. QED
      BY <1>7, <1>8, <3>1, <3>2, SeqEqual
  <2>4. Turning'
    BY <1>1, <1>3, <1>11, <2>1, <2>3 DEF Turning, Loading, Unplugged
  <2>5. QED
    BY <1>1, <1>2, <1>3, <1>4, <2>4 DEF Answer, Answering
<1>12. CASE Len(toSend) # 1
  <2>1. Loading'
    BY <1>1, <1>3, <1>8, <1>9, <1>10, <1>12 DEF Loading, Unplugged
  <2>2. QED
    BY <1>1, <1>2, <1>3, <1>4, <2>1 DEF Answer, Answering
<1>13. QED
  BY <1>11, <1>12

LEMMA ReadCr1InTime ==
  ASSUME SportTypeOK, Reception, RxAt, Answer, ~ Pending, ReadCr1
  PROVE  Reception' /\ RxAt' /\ Answer'
<1>1. /\ pc \in {"clear", "set", "arm"}
      /\ reg' = cr1
      /\ pc' = CASE pc = "clear" -> "clear write" [] pc = "set" -> "set write" [] pc = "arm" -> "arm write"
      /\ rdr' = rdr /\ rxRing' = rxRing /\ slot' = slot /\ slotTime' = slotTime /\ rx' = rx /\ lag' = lag
      /\ UNCHANGED <<cr1, tdr, shifting, tc, txRing, toSend, reply, out>>
  BY DEF ReadCr1, Goto, busVars, uartVars, ringVars
<1>2. Reception' /\ RxAt' /\ Taken' = Taken
  BY <1>1, ReceptionKept DEF AnswerSteps
<1>3. Polled /\ reply \in Fields /\ Turning
  BY <1>1, StageOf
<1>4. Polled'
  BY <1>1, <1>2, <1>3 DEF Polled
<1>5. Turning'
  BY <1>1, <1>3 DEF Turning, Unplugged
<1>6. QED
  BY <1>1, <1>2, <1>3, <1>4, <1>5 DEF Answer, Answering

LEMMA WriteBackInTime ==
  ASSUME SportTypeOK, Reception, RxAt, Answer, ~ Pending, WriteBack
  PROVE  Reception' /\ RxAt' /\ Answer'
<1>1. /\ pc \in {"clear write", "set write", "arm write"}
      /\ pc' \in {"set", "arm", "drain"}
      /\ rdr' = rdr /\ rxRing' = rxRing /\ slot' = slot /\ slotTime' = slotTime /\ rx' = rx /\ lag' = lag
      /\ UNCHANGED <<txRing, toSend, reply, out>>
  BY DEF WriteBack, WriteCr1, Goto, busVars, ringVars
<1>2. Reception' /\ RxAt' /\ Taken' = Taken
  BY <1>1, ReceptionKept DEF AnswerSteps
<1>3. Polled /\ reply \in Fields /\ Turning
  BY <1>1, StageOf
<1>4. Polled'
  BY <1>1, <1>2, <1>3 DEF Polled
<1>5. tdr = NoByte /\ shifting = NoByte
  BY <1>3 DEF Turning, Unplugged
<1>6. ASSUME NEW new, WriteCr1(new) PROVE cr1' = new /\ tdr' = NoByte /\ shifting' = NoByte
  BY <1>5, <1>6, Zenon DEF WriteCr1
<1>7. CASE pc = "clear write"
  <2>1. pc' = "set" /\ WriteCr1([reg EXCEPT !.te = FALSE, !.re = FALSE])
    BY <1>7 DEF WriteBack, Goto
  <2>2. reg = Listening
    BY <1>3, <1>7 DEF Turning
  <2>3. cr1' = Off /\ tdr' = NoByte /\ shifting' = NoByte
    BY <1>6, <2>1, <2>2, ControlSteps
  <2>4. Turning'
    BY <1>1, <1>3, <2>1, <2>3 DEF Turning, Unplugged
  <2>5. QED
    BY <1>1, <1>2, <1>3, <1>4, <2>4 DEF Answer, Answering
<1>8. CASE pc = "set write"
  <2>1. pc' = "arm" /\ WriteCr1([reg EXCEPT !.te = TRUE])
    BY <1>8 DEF WriteBack, Goto
  <2>2. reg = Off
    BY <1>3, <1>8 DEF Turning
  <2>3. cr1' = Driving /\ tdr' = NoByte /\ shifting' = NoByte
    BY <1>6, <2>1, <2>2, ControlSteps
  <2>4. Turning'
    BY <1>1, <1>3, <2>1, <2>3 DEF Turning, Unplugged
  <2>5. QED
    BY <1>1, <1>2, <1>3, <1>4, <2>4 DEF Answer, Answering
<1>9. CASE pc = "arm write"
  <2>1. pc' = "drain" /\ WriteCr1(Armed(reg))
    BY <1>9 DEF WriteBack, Goto
  <2>2. reg = Driving
    BY <1>3, <1>9 DEF Turning
  <2>3. cr1' = Feeding /\ tdr' = NoByte /\ shifting' = NoByte
    BY <1>6, <2>1, <2>2, ControlSteps
  <2>4. /\ txRing' = Frame(reply) /\ Len(txRing') = FrameLen /\ txRing' # <<>>
        /\ \A i \in 1 .. FrameLen : Frame(reply)[i] = <<reply, i>>
    BY <1>1, <1>3, FrameBytes DEF Turning
  <2>5. toSend' = <<>> /\ out' = <<>> /\ Len(out') = 0
    BY <1>1, <1>3, EmptySeq DEF Turning
  <2>6. Fed' = 0
    BY <2>3, <2>5 DEF Fed, Shifted, Waiting
  <2>7. slotTime' <= 2 + Latency + Len(out')
    <3>1. Len(Bytes) = 2
      BY <1>3, BytesPut DEF Polled, SportTypeOK
    <3>2. slotTime <= Len(Bytes) + lag
      BY <1>9 DEF Reception, AnswerSteps
    <3>3. slotTime \in Nat /\ lag \in Nat /\ lag <= Latency /\ Latency \in Nat
      BY Counted, SportNumbers
    <3>4. slotTime <= 2 + Latency
      BY <3>1, <3>2, <3>3
    <3>5. slotTime' = slotTime /\ Len(out') = 0
      BY <1>1, <2>5
    <3>6. QED
      BY <3>3, <3>4, <3>5
  <2>8. /\ Fed' + Len(txRing') = FrameLen
        /\ \A i \in 1 .. Len(txRing') : txRing'[i] = <<reply', Fed' + i>>
        /\ \A i \in 1 .. Len(out') : out'[i] = <<reply', i>>
    <3>1. Fed' + Len(txRing') = FrameLen
      BY <2>4, <2>6, SportNumbers
    <3>2. ASSUME NEW i \in 1 .. Len(txRing') PROVE txRing'[i] = <<reply', Fed' + i>>
      <4>1. Fed' + i = i
        BY <2>6, <3>2
      <4>2. QED
        BY <1>1, <2>4, <3>2, <4>1
    <3>3. \A i \in 1 .. Len(out') : out'[i] = <<reply', i>>
      BY <2>5
    <3>4. QED
      BY <3>1, <3>2, <3>3
  <2>9. Sending'
    BY <2>1, <2>3, <2>4, <2>5, <2>7, <2>8, ControlsDiffer DEF Sending
  <2>10. QED
    BY <1>1, <1>2, <1>3, <1>4, <2>9 DEF Answer, Answering
<1>10. QED
  BY <1>1, <1>7, <1>8, <1>9

-----------------------------------------------------------------------------
(* S.Port: a byte is read, in time. *)

LEMMA SameRx ==
  ASSUME NEW r \in RxStates, NEW s \in RxStates,
         r.state = s.state, r.stuffing = s.stuffing, r.payload = s.payload
  PROVE  r = s
BY DEF RxStates

LEMMA RxShapes ==
  ASSUME NEW kind \in Pushes
  PROVE  /\ Marked \in RxStates /\ Collecting \in RxStates
         /\ Collected(kind) \in RxStates /\ Unstuffing(kind) \in RxStates
         /\ DataByte(kind) \in Received /\ DataByte(kind) # NoByte
<1>1. DataByte(kind) \in Received
  <2>1. kind \in Kinds /\ kind # "ours" /\ kind # "other"
    BY DEF Kinds, Pushes
  <2>2. BytesOf(kind) = <<START_STOP, PUSH_PHYSICAL_ID, DataByte(kind), DLE, SumByte(kind)>>
    BY <2>1 DEF BytesOf, DataByte, SumByte
  <2>3. 3 \in DOMAIN BytesOf(kind) /\ BytesOf(kind)[3] = DataByte(kind)
    BY <2>2
  <2>4. QED
    BY <2>1, <2>3 DEF Received
<1>2. QED
  BY <1>1, MarkAssumption DEF Marked, Collecting, Collected, Unstuffing, RxStates

LEMMA RxFields ==
  ASSUME NEW kind
  PROVE  /\ Marked.state = "AWAITING_ID" /\ Marked.stuffing = FALSE /\ Marked.payload = NoByte
         /\ Collecting.state = "PUSH_PAYLOAD" /\ Collecting.stuffing = FALSE /\ Collecting.payload = NoByte
         /\ Collected(kind).state = "PUSH_PAYLOAD" /\ Collected(kind).stuffing = FALSE
         /\ Collected(kind).payload = DataByte(kind)
         /\ Unstuffing(kind).state = "PUSH_PAYLOAD" /\ Unstuffing(kind).stuffing = TRUE
         /\ Unstuffing(kind).payload = DataByte(kind)
<1>1. Marked.state = "AWAITING_ID" /\ Marked.stuffing = FALSE /\ Marked.payload = NoByte
  BY DEF Marked
<1>2. Collecting.state = "PUSH_PAYLOAD" /\ Collecting.stuffing = FALSE /\ Collecting.payload = NoByte
  BY DEF Collecting
<1>3. /\ Collected(kind).state = "PUSH_PAYLOAD" /\ Collected(kind).stuffing = FALSE
      /\ Collected(kind).payload = DataByte(kind)
  BY DEF Collected
<1>4. /\ Unstuffing(kind).state = "PUSH_PAYLOAD" /\ Unstuffing(kind).stuffing = TRUE
      /\ Unstuffing(kind).payload = DataByte(kind)
  BY DEF Unstuffing
<1>5. QED
  BY <1>1, <1>2, <1>3, <1>4, Zenon

LEMMA RxMarked ==
  ASSUME rx \in RxStates
  PROVE  ReceivedMarker = Marked
<1>1. ReceivedMarker \in RxStates /\ Marked \in RxStates
  BY DEF ReceivedMarker, Marked, RxStates
<1>2. /\ ReceivedMarker.state = "AWAITING_ID" /\ ReceivedMarker.stuffing = FALSE
      /\ ReceivedMarker.payload = NoByte
  BY Zenon DEF ReceivedMarker, RxStates
<1>3. /\ ReceivedMarker.state = Marked.state /\ ReceivedMarker.stuffing = Marked.stuffing
      /\ ReceivedMarker.payload = Marked.payload
  BY <1>2, RxFields, Zenon
<1>4. QED
  BY <1>1, <1>3, SameRx

LEMMA RxCollects ==
  ASSUME NEW kind \in Pushes
  PROVE  /\ [Marked EXCEPT !.state = "PUSH_PAYLOAD"] = Collecting
         /\ [Collecting EXCEPT !.stuffing = FALSE, !.payload = DataByte(kind)] = Collected(kind)
         /\ [Collected(kind) EXCEPT !.stuffing = TRUE] = Unstuffing(kind)
<1> USE RxShapes
<1>1. ASSUME NEW r \in RxStates
      PROVE  /\ [r EXCEPT !.state = "PUSH_PAYLOAD"] \in RxStates
             /\ [r EXCEPT !.stuffing = FALSE, !.payload = DataByte(kind)] \in RxStates
             /\ [r EXCEPT !.stuffing = TRUE] \in RxStates
  BY DEF RxStates
<1>2. ASSUME NEW r \in RxStates
      PROVE  /\ [r EXCEPT !.state = "PUSH_PAYLOAD"].state = "PUSH_PAYLOAD"
             /\ [r EXCEPT !.state = "PUSH_PAYLOAD"].stuffing = r.stuffing
             /\ [r EXCEPT !.state = "PUSH_PAYLOAD"].payload = r.payload
  BY Zenon DEF RxStates
<1>3. ASSUME NEW r \in RxStates
      PROVE  /\ [r EXCEPT !.stuffing = FALSE, !.payload = DataByte(kind)].state = r.state
             /\ [r EXCEPT !.stuffing = FALSE, !.payload = DataByte(kind)].stuffing = FALSE
             /\ [r EXCEPT !.stuffing = FALSE, !.payload = DataByte(kind)].payload = DataByte(kind)
  BY Zenon DEF RxStates
<1>4. ASSUME NEW r \in RxStates
      PROVE  /\ [r EXCEPT !.stuffing = TRUE].state = r.state
             /\ [r EXCEPT !.stuffing = TRUE].stuffing = TRUE
             /\ [r EXCEPT !.stuffing = TRUE].payload = r.payload
  BY Zenon DEF RxStates
<1>5. [Marked EXCEPT !.state = "PUSH_PAYLOAD"] = Collecting
  <2> DEFINE new == [Marked EXCEPT !.state = "PUSH_PAYLOAD"]
  <2>1. Marked \in RxStates /\ Collecting \in RxStates /\ new \in RxStates
    BY <1>1
  <2>2. new.state = Collecting.state /\ new.stuffing = Collecting.stuffing /\ new.payload = Collecting.payload
    BY <1>2, <2>1, RxFields, Zenon
  <2> HIDE DEF new
  <2>3. QED
    BY <2>1, <2>2, SameRx DEF new
<1>6. [Collecting EXCEPT !.stuffing = FALSE, !.payload = DataByte(kind)] = Collected(kind)
  <2> DEFINE new == [Collecting EXCEPT !.stuffing = FALSE, !.payload = DataByte(kind)]
  <2>1. Collecting \in RxStates /\ Collected(kind) \in RxStates /\ new \in RxStates
    BY <1>1
  <2>2. /\ new.state = Collected(kind).state /\ new.stuffing = Collected(kind).stuffing
        /\ new.payload = Collected(kind).payload
    BY <1>3, <2>1, RxFields, Zenon
  <2> HIDE DEF new
  <2>3. QED
    BY <2>1, <2>2, SameRx DEF new
<1>7. [Collected(kind) EXCEPT !.stuffing = TRUE] = Unstuffing(kind)
  <2> DEFINE new == [Collected(kind) EXCEPT !.stuffing = TRUE]
  <2>1. Collected(kind) \in RxStates /\ Unstuffing(kind) \in RxStates /\ new \in RxStates
    BY <1>1
  <2>2. /\ new.state = Unstuffing(kind).state /\ new.stuffing = Unstuffing(kind).stuffing
        /\ new.payload = Unstuffing(kind).payload
    BY <1>4, <2>1, RxFields, Zenon
  <2> HIDE DEF new
  <2>3. QED
    BY <2>1, <2>2, SameRx DEF new
<1>8. QED
  BY <1>5, <1>6, <1>7

(* Nothing but a checksum byte can complete a push. *)
LEMMA NoPush ==
  ASSUME NEW b, b # SumByte("trim")
  PROVE  ~ IsPush(b)
<1>1. Destuffed(b) \in {b, OtherId}
  BY DEF Destuffed, OtherId
<1>2. OtherId # SumByte("trim")
  BY PushBytes
<1>3. QED
  BY <1>1, <1>2 DEF IsPush, SumByte

(* What the next byte of the slot does to the receive state: a poll is     *)
(* only our own, and a push only the whole one that may be applied.        *)
LEMMA NextByte ==
  ASSUME SportTypeOK, RxAt, NEW b, NEW k \in 1 .. Len(Bytes), b = Bytes[k], k = Taken + 1
  PROVE  /\ k = 1 => Receive(b) = Marked
         /\ slot \in {"ours", "other"} /\ k >= 2 => Receive(b).state = "IDLE"
         /\ slot \in Pushes => /\ k = 2 => Receive(b) = Collecting
                               /\ k = 3 => Receive(b) = Collected(slot)
                               /\ k = 4 => Receive(b) = Unstuffing(slot)
         /\ IsPoll(b) <=> slot = "ours" /\ k = 2
         /\ IsPush(b) <=> slot = "trim" /\ k = 5
<1> USE Distinct
<1>1. slot \in Kinds /\ rx \in RxStates
  BY DEF SportTypeOK
<1>2. slot \notin {"ours", "other"} => slot \in Pushes
  BY <1>1 DEF Kinds
<1>3. slot \in Pushes => slot \notin {"ours", "other"}
  BY DEF Pushes
<1>4. Taken = k - 1
  BY Counted
<1>5. CASE k = 1
  <2>1. b = START_STOP
    BY <1>1, <1>2, <1>5, BytesPut
  <2>2. Receive(b) = Marked
    BY <1>1, <2>1, RxMarked DEF Receive
  <2>3. ~ IsPoll(b)
    BY <2>1 DEF IsPoll
  <2>4. ~ IsPush(b)
    BY <2>1, NoPush, PushBytes
  <2>5. QED
    BY <1>5, <2>2, <2>3, <2>4
<1>6. CASE k >= 2 /\ slot \in {"ours", "other"}
  <2>1. ~ IsPush(b) /\ Receive(b).state = "IDLE" /\ (IsPoll(b) <=> slot = "ours" /\ k = 2)
    <3>1. CASE k = 2
      <4>1. rx = Marked
        BY <1>4, <3>1 DEF RxAt
      <4>2. rx.state = "AWAITING_ID"
        BY <4>1, RxFields
      <4>3. b = IF slot = "ours" THEN PHYSICAL_ID ELSE OtherId
        BY <1>1, <1>6, <3>1, BytesPut
      <4>4. b # START_STOP /\ b # PUSH_PHYSICAL_ID
        BY <4>3
      <4>5. Receive(b) = [rx EXCEPT !.state = "IDLE"]
        BY <4>2, <4>4 DEF Receive
      <4>6. Receive(b).state = "IDLE"
        BY <1>1, <4>5 DEF RxStates
      <4>7. IsPoll(b) <=> slot = "ours"
        BY <1>6, <4>2, <4>3 DEF IsPoll
      <4>8. ~ IsPush(b)
        BY <4>2 DEF IsPush
      <4>9. QED
        BY <3>1, <4>6, <4>7, <4>8
    <3>2. CASE k # 2
      <4>1. slot = "other" /\ k = 3
        BY <1>1, <1>6, <3>2, BytesPut
      <4>2. rx.state = "IDLE"
        BY <1>4, <4>1 DEF RxAt
      <4>3. b = PHYSICAL_ID
        BY <1>1, <4>1, BytesPut
      <4>4. Receive(b) = rx
        BY <4>2, <4>3 DEF Receive
      <4>5. QED
        BY <3>2, <4>2, <4>4 DEF IsPoll, IsPush
    <3>3. QED
      BY <3>1, <3>2
  <2>2. slot # "trim" /\ k # 1
    BY <1>6
  <2>3. QED
    BY <1>3, <1>6, <2>1, <2>2
<1>7. CASE k = 2 /\ slot \in Pushes
  <2>1. rx = Marked
    BY <1>4, <1>7 DEF RxAt
  <2>2. rx.state = "AWAITING_ID"
    BY <2>1, RxFields
  <2>3. b = PUSH_PHYSICAL_ID
    BY <1>1, <1>7, BytesPut
  <2>4. Receive(b) = [rx EXCEPT !.state = "PUSH_PAYLOAD"]
    BY <2>2, <2>3 DEF Receive
  <2>5. Receive(b) = Collecting
    BY <1>7, <2>1, <2>4, RxCollects
  <2>6. ~ IsPoll(b) /\ ~ IsPush(b)
    BY <2>2, <2>3 DEF IsPoll, IsPush
  <2>7. QED
    BY <1>3, <1>7, <2>5, <2>6
<1>8. CASE k = 3 /\ slot \in Pushes
  <2>1. rx = Collecting
    BY <1>4, <1>8 DEF RxAt
  <2>2. rx.state = "PUSH_PAYLOAD" /\ rx.stuffing = FALSE /\ rx.payload = NoByte
    BY <2>1, RxFields, Zenon
  <2>3. b = DataByte(slot)
    BY <1>1, <1>8, BytesPut
  <2>4. b # START_STOP /\ b # DLE /\ b[1] # "sum"
    BY <2>3, PushBytes
  <2>5. Destuffed(b) = b
    BY <2>2, <2>4, Zenon DEF Destuffed
  <2>6. Receive(b) = [rx EXCEPT !.stuffing = FALSE, !.payload = Destuffed(b)]
    BY <2>2, <2>4 DEF Receive
  <2>7. Receive(b) = Collected(slot)
    BY <1>8, <2>1, <2>3, <2>5, <2>6, RxCollects
  <2>8. ~ IsPoll(b)
    BY <2>2 DEF IsPoll
  <2>9. ~ IsPush(b)
    <3>1. DataByte("trim") # NoByte
      BY RxShapes DEF Pushes
    <3>2. QED
      BY <2>2, <3>1 DEF IsPush, DataByte
  <2>10. QED
    BY <1>3, <1>8, <2>7, <2>8, <2>9
<1>9. CASE k = 4 /\ slot \in Pushes
  <2>1. rx = Collected(slot)
    BY <1>4, <1>9 DEF RxAt
  <2>2. rx.state = "PUSH_PAYLOAD"
    BY <2>1, RxFields
  <2>3. b = DLE
    BY <1>1, <1>9, BytesPut
  <2>4. Receive(b) = [rx EXCEPT !.stuffing = TRUE]
    BY <2>2, <2>3 DEF Receive
  <2>5. Receive(b) = Unstuffing(slot)
    BY <1>9, <2>1, <2>4, RxCollects
  <2>6. ~ IsPoll(b)
    BY <2>2 DEF IsPoll
  <2>7. ~ IsPush(b)
    BY <2>3, NoPush, PushBytes
  <2>8. QED
    BY <1>3, <1>9, <2>5, <2>6, <2>7
<1>10. CASE k = 5 /\ slot \in Pushes
  <2>1. rx = Unstuffing(slot)
    BY <1>4, <1>10 DEF RxAt
  <2>2. rx.state = "PUSH_PAYLOAD" /\ rx.stuffing = TRUE /\ rx.payload = DataByte(slot)
    BY <2>1, RxFields, Zenon
  <2>3. b = SumByte(slot)
    BY <1>1, <1>10, BytesPut
  <2>4. ~ IsPoll(b)
    BY <2>2 DEF IsPoll
  <2>5. IsPush(b) <=> slot = "trim"
    <3>1. CASE slot = "trim"
      <4>1. b[1] = "sum"
        BY <2>3, PushBytes
      <4>2. Destuffed(b) = b
        BY <2>2, <4>1, Zenon DEF Destuffed
      <4>3. QED
        BY <2>2, <2>3, <3>1, <4>2 DEF IsPush, DataByte, SumByte
    <3>2. CASE slot # "trim"
      <4>1. b # SumByte("trim")
        BY <2>3, <3>2, PushBytes
      <4>2. QED
        BY <3>2, <4>1, NoPush
    <3>3. QED
      BY <3>1, <3>2
  <2>6. QED
    BY <1>3, <1>10, <2>4, <2>5
<1>11. k \in 1 .. 5
  BY Counted
<1>12. QED
  BY <1>2, <1>5, <1>6, <1>7, <1>8, <1>9, <1>10, <1>11

LEMMA ReadInTime ==
  ASSUME SportTypeOK, Always, Reception, RxAt, Answer, ~ late, clean, applied = NoReply,
         ~ Pending, ReadByte
  PROVE  OnTime' /\ Applied'
<1> DEFINE b == Head(rxRing)
           k == Taken + 1
<1>1. /\ pc = "drain" /\ rxRing # <<>>
      /\ rxRing' = Tail(rxRing)
      /\ rx' = Receive(b)
      /\ slot' = slot /\ slotTime' = slotTime /\ clean' = clean /\ lag' = lag /\ rdr' = rdr
      /\ UNCHANGED <<cr1, tdr, shifting, tc, txRing>>
  BY DEF ReadByte, busVars, uartVars
<1>2. /\ Len(rxRing) \in Nat /\ Len(rxRing) > 0
      /\ b = rxRing[1]
      /\ Len(rxRing') = Len(rxRing) - 1
      /\ \A i \in 1 .. Len(rxRing) - 1 : rxRing'[i] = rxRing[i + 1]
  BY <1>1, Popped DEF SportTypeOK
<1>3. rdr = NoByte
  BY NothingPending
<1>4. Unread = Len(rxRing) /\ Unread' = Unread - 1
  BY <1>1, <1>2, <1>3 DEF Unread
<1>5. Bytes' = Bytes /\ Arrived' = Arrived
  BY <1>1 DEF Bytes, Arrived
<1>6. Taken \in Nat /\ k \in 1 .. Len(Bytes) /\ k <= slotTime
  <2>1. Taken >= 0
    BY DEF Reception
  <2>2. QED
    BY <1>2, <1>4, <2>1, Counted
<1>7. Taken' = k
  BY <1>4, <1>5, Counted DEF Taken
<1>8. b = Bytes[k]
  <2>1. rxRing[1] = Bytes[Taken + 1]
    BY <1>2 DEF Reception
  <2>2. QED
    BY <1>2, <2>1
<1> HIDE DEF b
<1>9. /\ k = 1 => rx' = Marked
      /\ slot \in {"ours", "other"} /\ k >= 2 => rx'.state = "IDLE"
      /\ slot \in Pushes => /\ k = 2 => rx' = Collecting
                            /\ k = 3 => rx' = Collected(slot)
                            /\ k = 4 => rx' = Unstuffing(slot)
      /\ IsPoll(b) <=> slot = "ours" /\ k = 2
      /\ IsPush(b) <=> slot = "trim" /\ k = 5
  BY <1>1, <1>6, <1>8, NextByte
<1> HIDE DEF k
<1>10. ASSUME pc' # "wait" PROVE Reception'
  <2>1. Taken' >= 0
    BY <1>6, <1>7 DEF k
  <2>2. ASSUME NEW i \in 1 .. Len(rxRing') PROVE rxRing'[i] = Bytes'[Taken' + i]
    <3>1. i \in 1 .. Len(rxRing) - 1 /\ i + 1 \in 1 .. Len(rxRing)
      BY <1>2, <2>2
    <3>2. rxRing[i + 1] = Bytes[Taken + (i + 1)]
      BY <3>1 DEF Reception
    <3>3. Taken + (i + 1) = Taken' + i
      BY <1>6, <1>7, <3>1 DEF k
    <3>4. QED
      BY <1>2, <1>5, <3>1, <3>2, <3>3
  <2>3. Unread' <= lag' + 1
    <3>1. Unread <= lag + 1
      BY DEF Reception
    <3>2. QED
      BY <1>1, <1>2, <1>4, <3>1, Counted
  <2>4. slotTime' <= Len(Bytes') + lag'
    <3>1. slotTime <= Len(Bytes) + lag
      BY <1>1 DEF Reception
    <3>2. QED
      BY <1>1, <1>5, <3>1
  <2>5. rdr' = NoByte
    BY <1>1, <1>3
  <2>6. QED
    BY <1>10, <2>1, <2>2, <2>3, <2>4, <2>5 DEF Reception
<1>11. ~ (slot = "trim" /\ k = 5) => RxAt'
  BY <1>1, <1>7, <1>9 DEF RxAt, Pushes
<1>12. CASE /\ ~ IsPoll(b) /\ ~ IsPush(b)
            /\ UNCHANGED <<pc, field, toSend, reply, applied, late, out>>
  <2>1. Reception' /\ RxAt'
    BY <1>1, <1>9, <1>10, <1>11, <1>12
  <2>2. ~ Polled' /\ Quiet
    <3>1. ~ (slot = "ours" /\ k = 2)
      BY <1>9, <1>12
    <3>2. ~ Polled'
      BY <1>1, <1>7, <3>1 DEF Polled
    <3>3. ~ Polled
      <4>1. ASSUME slot = "ours" PROVE Taken # 2
        <5>1. Len(Bytes) = 2
          BY <4>1, BytesPut DEF SportTypeOK
        <5>2. QED
          BY <1>6, <5>1 DEF k
      <4>2. QED
        BY <4>1 DEF Polled
    <3>4. QED
      BY <3>2, <3>3 DEF Answer
  <2>3. Quiet'
    BY <1>1, <1>12, <2>2 DEF Quiet, Silent, Unplugged
  <2>4. QED
    BY <1>1, <1>12, <2>1, <2>2, <2>3 DEF OnTime, Applied, Answer
<1>13. ASSUME slot = "ours", k = 2 PROVE Polled' /\ Quiet /\ RxAt'
  <2>1. Polled'
    BY <1>1, <1>7, <1>13 DEF Polled
  <2>2. Taken = 1
    BY <1>6, <1>13 DEF k
  <2>3. ~ Polled
    BY <2>2 DEF Polled
  <2>4. QED
    BY <1>11, <1>13, <2>1, <2>3 DEF Answer
<1>14. CASE /\ IsPoll(b)
            /\ toSend' = Frame(field)
            /\ reply' = IF clean THEN field ELSE NoReply
            /\ pc' = "append"
            /\ UNCHANGED <<applied, late, out>>
  <2>1. Polled' /\ Quiet /\ RxAt'
    BY <1>9, <1>13, <1>14
  <2>2. Reception'
    BY <1>10, <1>14
  <2>3. reply' = field /\ reply' \in Fields
    BY <1>14 DEF SportTypeOK
  <2>4. /\ Len(toSend') = FrameLen
        /\ \A i \in 1 .. FrameLen : toSend'[i] = <<reply', i>>
    BY <1>14, <2>3, FrameBytes
  <2>5. txRing' = <<>> /\ Len(txRing') = 0
    BY <1>1, <2>1, EmptySeq DEF Quiet, Silent
  <2>6. ASSUME NEW i \in 1 .. Len(toSend') PROVE toSend'[i] = <<reply', Len(txRing') + i>>
    <3>1. Len(txRing') + i = i
      BY <2>5, <2>6
    <3>2. QED
      BY <2>4, <2>6, <3>1
  <2>7. Len(txRing') + Len(toSend') = FrameLen
    BY <2>4, <2>5, SportNumbers
  <2>8. \A i \in 1 .. Len(txRing') : txRing'[i] = <<reply', i>>
    BY <2>5
  <2>9. cr1' = Listening /\ Unplugged' /\ out' = <<>>
    BY <1>1, <1>14, <2>1 DEF Quiet, Silent, Unplugged
  <2>10. Loading'
    BY <1>14, <2>6, <2>7, <2>8, <2>9 DEF Loading
  <2>11. Answer'
    BY <2>1, <2>3, <2>10 DEF Answer, Answering
  <2>12. QED
    BY <1>1, <1>14, <2>1, <2>2, <2>11 DEF OnTime, Applied
<1>15. CASE /\ IsPoll(b)
            /\ reply' = IF clean THEN Skipped ELSE NoReply
            /\ UNCHANGED <<toSend, pc, applied, late, out>>
  <2>1. Polled' /\ Quiet /\ RxAt'
    BY <1>9, <1>13, <1>15
  <2>2. Reception'
    BY <1>1, <1>10, <1>15
  <2>3. Silent' /\ out' = <<>>
    BY <1>1, <1>15, <2>1 DEF Quiet, Silent, Unplugged
  <2>4. Answer'
    BY <1>15, <2>1, <2>3 DEF Answer, Answering
  <2>5. QED
    BY <1>1, <1>15, <2>1, <2>2, <2>4 DEF OnTime, Applied
<1>16. CASE /\ IsPush(b)
            /\ applied' = IF clean THEN "trim" ELSE NoReply
            /\ late' = TRUE
            /\ out' = <<>>
            /\ reply' = reply
  <2>1. slot = "trim" /\ k = 5
    BY <1>9, <1>16
  <2>2. slotTime' >= 5
    BY <1>1, <1>6, <2>1, Counted
  <2>3. rxRing' = <<>>
    <3>1. Len(Bytes) = 5
      BY <2>1, BytesPut DEF SportTypeOK, Pushes
    <3>2. Unread = 1
      <4>1. Taken = 4
        BY <1>6, <2>1 DEF k
      <4>2. Arrived <= 5 /\ Unread \in Nat /\ Unread = Arrived - 4 /\ Arrived \in Nat
        BY <3>1, <4>1, Counted
      <4>3. Unread > 0
        BY <1>2, <1>4
      <4>4. QED
        BY <4>2, <4>3
    <3>3. Len(rxRing') = 0
      BY <1>2, <1>4, <3>2
    <3>4. rxRing' \in Seq(Received)
      BY <1>1, Popped DEF SportTypeOK
    <3>5. QED
      BY <3>3, <3>4, EmptySeq
  <2>4. reply = NoReply
    <3>1. ~ Polled
      BY <2>1 DEF Polled
    <3>2. QED
      BY <3>1 DEF Answer, Quiet
  <2>5. QED
    BY <1>1, <1>3, <1>16, <2>1, <2>2, <2>3, <2>4 DEF OnTime, Applied
<1>17. QED
  BY <1>12, <1>14, <1>15, <1>16 DEF ReadByte, Goto, b

-----------------------------------------------------------------------------
(* S.Port: the bus, in time. *)

(* In time, a byte waits in TDR only while the transmitter is on. *)
LEMMA TransmitterOn ==
  ASSUME Answer
  PROVE  tdr # NoByte => cr1.te
<1>1. Sending => (tdr # NoByte => cr1.te)
  BY DEF Sending, Feeding
<1>2. ~ Sending => tdr = NoByte
  BY DEF Answer, Answering, Quiet, Silent, Loading, Turning, Answered, Unplugged
<1>3. QED
  BY <1>1, <1>2

LEMMA ByteDoes ==
  ASSUME SportTypeOK, tdr # NoByte => cr1.te, ~ late, ByteTime
  PROVE  /\ ~ Pending /\ lag < Latency
         /\ slotTime' = slotTime + 1
         /\ rdr' = IF cr1.re /\ slotTime' \in DOMAIN Bytes THEN Bytes[slotTime'] ELSE NoByte
         /\ shifting' = tdr /\ tdr' = NoByte
         /\ tc' = (tc \/ (shifting # NoByte /\ tdr = NoByte))
         /\ out' = IF shifting = NoByte THEN out ELSE Append(out, shifting)
         /\ lag' = IF pc = "wait" /\ ~ notified THEN 0 ELSE lag + 1
         /\ slot' = slot /\ clean' = clean /\ cr1' = cr1
         /\ rxRing' = rxRing /\ txRing' = txRing /\ notified' = notified
         /\ pc' = pc /\ reg' = reg /\ toSend' = toSend /\ rx' = rx /\ reply' = reply
         /\ applied' = applied /\ late' = late
<1>1. UNCHANGED <<slot, clean, cr1, ringVars, sportTaskVars>>
  BY DEF ByteTime
<1>2. /\ slot' = slot /\ clean' = clean /\ cr1' = cr1
      /\ rxRing' = rxRing /\ txRing' = txRing /\ notified' = notified
      /\ pc' = pc /\ reg' = reg /\ toSend' = toSend /\ rx' = rx /\ reply' = reply
      /\ applied' = applied /\ late' = late
  BY <1>1 DEF ringVars, sportTaskVars
<1>3. shifting' = tdr /\ tdr' = NoByte
  BY DEF ByteTime
<1>4. QED
  BY <1>2, <1>3, Zenon DEF ByteTime, Bytes

LEMMA ByteReception ==
  ASSUME SportTypeOK, Reception, Answer, ~ late, ByteTime
  PROVE  Reception' /\ Taken' = Taken
<1>1. /\ ~ Pending /\ lag < Latency
      /\ slotTime' = slotTime + 1
      /\ rdr' = IF cr1.re /\ slotTime' \in DOMAIN Bytes THEN Bytes[slotTime'] ELSE NoByte
      /\ lag' = IF pc = "wait" /\ ~ notified THEN 0 ELSE lag + 1
      /\ slot' = slot /\ rxRing' = rxRing /\ notified' = notified /\ pc' = pc
  BY TransmitterOn, ByteDoes
<1>2. /\ Bytes' = Bytes
      /\ Len(Bytes) \in Nat /\ DOMAIN Bytes = 1 .. Len(Bytes)
      /\ \A i \in 1 .. Len(Bytes) : Bytes[i] \in Received
  BY <1>1, BytesPut, Counted DEF Bytes, SportTypeOK
<1>3. rdr = NoByte /\ Unread = Len(rxRing)
  BY <1>1, NothingPending DEF Unread
<1>4. /\ slotTime \in Nat /\ lag \in Nat /\ Len(rxRing) \in Nat /\ Taken \in Int /\ Arrived \in Nat
      /\ Taken + Unread = Arrived
  BY Counted
<1>5. /\ Unread <= lag + 1 /\ Taken >= 0
      /\ pc = "wait" /\ ~ notified => Len(rxRing) = 0
      /\ rxRing # <<>> \/ pc \in AnswerSteps => slotTime <= Len(Bytes) + lag
  BY Counted DEF Reception
<1>6. CASE slotTime < Len(Bytes)
  <2>1. cr1.re
    BY <1>6, ListensFirst, ListeningBits
  <2>2. rdr' = Bytes[slotTime'] /\ slotTime' \in 1 .. Len(Bytes)
    BY <1>1, <1>2, <1>4, <1>6, <2>1
  <2>3. rdr' # NoByte
    BY <1>2, <2>2, MarkAssumption
  <2>4. Unread' = Unread + 1
    BY <1>1, <1>3, <2>3 DEF Unread
  <2>5. Arrived' = Arrived + 1
    <3>1. Arrived = slotTime
      BY <1>6 DEF Arrived
    <3>2. Arrived' = slotTime + 1
      BY <1>1, <1>2, <1>4, <1>6 DEF Arrived
    <3>3. QED
      BY <3>1, <3>2
  <2>6. Taken' = Taken
    <3>1. Unread \in Int
      BY <1>3, <1>4
    <3>2. QED
      BY <1>4, <2>4, <2>5, <3>1 DEF Taken
  <2>7. Unread' <= lag' + 1
    BY <1>1, <1>3, <1>4, <1>5, <2>4
  <2>8. slotTime' <= Len(Bytes') + lag'
    BY <1>1, <1>2, <1>4, <2>2
  <2>9. \A i \in 1 .. Len(rxRing') : rxRing'[i] = Bytes'[Taken' + i]
    BY <1>1, <1>2, <2>6 DEF Reception
  <2>10. pc' = "wait" /\ ~ notified' => rxRing' = <<>>
    BY <1>1 DEF Reception
  <2>11. QED
    BY <1>2, <1>5, <2>2, <2>6, <2>7, <2>8, <2>9, <2>10 DEF Reception
<1>7. CASE slotTime >= Len(Bytes)
  <2>1. rdr' = NoByte
    <3>1. slotTime' \notin DOMAIN Bytes
      BY <1>1, <1>2, <1>4, <1>7
    <3>2. QED
      BY <1>1, <3>1
  <2>2. Unread' = Unread
    BY <1>1, <1>3, <2>1 DEF Unread
  <2>3. Arrived' = Arrived
    BY <1>1, <1>2, <1>4, <1>7 DEF Arrived
  <2>4. Taken' = Taken
    BY <2>2, <2>3 DEF Taken
  <2>5. Unread' <= lag' + 1
    BY <1>1, <1>3, <1>4, <1>5, <2>2
  <2>6. pc' = "wait" /\ ~ notified' => rxRing' = <<>>
    BY <1>1 DEF Reception
  <2>7. rxRing' # <<>> \/ pc' \in AnswerSteps => slotTime' <= Len(Bytes') + lag'
    <3>1. ASSUME rxRing # <<>> \/ pc \in AnswerSteps PROVE slotTime + 1 <= Len(Bytes) + lag'
      <4>1. ~ (pc = "wait" /\ ~ notified)
        BY <3>1 DEF Reception, AnswerSteps
      <4>2. lag' = lag + 1
        BY <1>1, <4>1
      <4>3. slotTime <= Len(Bytes) + lag
        BY <1>5, <3>1
      <4>4. QED
        BY <1>2, <1>4, <4>2, <4>3
    <3>2. QED
      BY <1>1, <1>2, <3>1
  <2>8. \A i \in 1 .. Len(rxRing') : rxRing'[i] = Bytes'[Taken' + i]
    BY <1>1, <1>2, <2>4 DEF Reception
  <2>9. QED
    BY <1>5, <2>1, <2>4, <2>5, <2>6, <2>7, <2>8 DEF Reception
<1>8. QED
  BY <1>2, <1>4, <1>6, <1>7

(* In every byte time of a running answer one of its bytes leaves. *)
LEMMA ByteSending ==
  ASSUME SportTypeOK, Sending, reply \in Fields, ~ late, ByteTime
  PROVE  Sending'
<1>1. /\ ~ Pending
      /\ slotTime' = slotTime + 1
      /\ shifting' = tdr /\ tdr' = NoByte
      /\ tc' = (tc \/ (shifting # NoByte /\ tdr = NoByte))
      /\ out' = IF shifting = NoByte THEN out ELSE Append(out, shifting)
      /\ cr1' = cr1 /\ txRing' = txRing /\ pc' = pc /\ toSend' = toSend /\ reply' = reply
  BY ByteDoes DEF Sending, Feeding
<1>2. /\ Len(out) \in Nat /\ Len(txRing) \in Nat /\ FrameLen \in Nat /\ Latency \in Nat
      /\ slotTime \in Nat
      /\ shifting \in TxBytes \cup {NoByte}
  BY EmptyOrNot, SportNumbers, Counted DEF SportTypeOK
<1>3. shifting # NoByte
  <2>1. CASE cr1 = Feeding
    BY <1>1, <2>1, NothingPending DEF Sending
  <2>2. CASE cr1 = Ending
    BY <1>1, <2>2, NothingPending DEF Sending
  <2>3. QED
    BY <2>1, <2>2 DEF Sending
<1>4. /\ Len(out') = Len(out) + 1
      /\ \A i \in 1 .. Len(out) : out'[i] = out[i]
      /\ out'[Len(out) + 1] = shifting
  <2>1. out' = Append(out, shifting)
    BY <1>1, <1>3
  <2>2. out \in Seq(TxBytes) /\ shifting \in TxBytes
    BY <1>2, <1>3 DEF SportTypeOK
  <2>3. QED
    BY <2>1, <2>2, Pushed
<1>5. \A i \in 1 .. Len(out') : out'[i] = <<reply', i>>
  <2>1. out'[Len(out) + 1] = <<reply, Len(out) + 1>>
    BY <1>3, <1>4 DEF Sending
  <2>2. \A i \in 1 .. Len(out) : out'[i] = <<reply, i>>
    BY <1>4 DEF Sending
  <2>3. QED
    BY <1>1, <1>2, <1>4, <2>1, <2>2
<1>6. Fed' = Fed
  <2>1. Fed = Len(out) + 1 + Waiting
    BY <1>3 DEF Fed, Shifted
  <2>2. Shifted' = Waiting /\ Waiting' = 0 /\ Waiting \in {0, 1}
    BY <1>1 DEF Shifted, Waiting
  <2>3. Fed' = Len(out) + 1 + Waiting + 0
    BY <1>4, <2>2 DEF Fed
  <2>4. QED
    BY <1>2, <2>1, <2>2, <2>3
<1>7. /\ Fed' + Len(txRing') = FrameLen
      /\ \A i \in 1 .. Len(txRing') : txRing'[i] = <<reply', Fed' + i>>
  BY <1>1, <1>6 DEF Sending
<1>8. shifting' # NoByte => shifting' = <<reply', Len(out') + 1>> /\ ~ tc'
  <2>1. ASSUME tdr # NoByte PROVE tdr = <<reply, Len(out') + 1>> /\ ~ tc'
    <3>1. tdr = <<reply, Len(out) + 2>> /\ ~ tc
      BY <1>3, <2>1 DEF Sending
    <3>2. Len(out) + 2 = Len(out') + 1
      BY <1>2, <1>4
    <3>3. QED
      BY <1>1, <2>1, <3>1, <3>2
  <2>2. QED
    BY <1>1, <2>1
<1>9. shifting' = NoByte /\ cr1' = Feeding => txRing' # <<>>
  BY <1>1, NothingPending
<1>10. shifting' = NoByte /\ cr1' = Ending => tc'
  BY <1>1, <1>3
<1>11. slotTime' <= 2 + Latency + Len(out')
  <2>1. slotTime <= 2 + Latency + Len(out)
    BY DEF Sending
  <2>2. slotTime' = slotTime + 1 /\ Len(out') = Len(out) + 1
    BY <1>1, <1>4
  <2>3. QED
    BY <1>2, <2>1, <2>2
<1>12. /\ pc' \in {"wait", "drain"} /\ toSend' = <<>>
       /\ cr1' \in {Feeding, Ending}
       /\ cr1' = Ending => txRing' = <<>>
       /\ tdr' = NoByte
  BY <1>1 DEF Sending
<1>13. QED
  BY <1>5, <1>7, <1>8, <1>9, <1>10, <1>11, <1>12 DEF Sending

LEMMA ByteAnswer ==
  ASSUME SportTypeOK, Answer, ~ late, ByteTime, Taken' = Taken
  PROVE  Answer'
<1>1. /\ shifting' = tdr /\ tdr' = NoByte
      /\ out' = IF shifting = NoByte THEN out ELSE Append(out, shifting)
      /\ slot' = slot /\ cr1' = cr1 /\ txRing' = txRing
      /\ pc' = pc /\ reg' = reg /\ toSend' = toSend /\ reply' = reply
  BY TransmitterOn, ByteDoes
<1>2. Polled' = Polled
  BY <1>1 DEF Polled
<1>3. Unplugged => Unplugged' /\ out' = out
  BY <1>1 DEF Unplugged
<1>4. Silent => Silent' /\ out' = out
  BY <1>1, <1>3 DEF Silent
<1>5. Loading => Loading'
  BY <1>1, <1>3 DEF Loading
<1>6. Turning => Turning'
  BY <1>1, <1>3 DEF Turning
<1>7. Sending /\ reply \in Fields => Sending'
  BY ByteSending
<1>8. QED
  BY <1>1, <1>2, <1>4, <1>5, <1>6, <1>7, Zenon DEF Answer, Answering, Quiet, Answered

LEMMA ByteInTime ==
  ASSUME SportTypeOK, Reception, RxAt, Answer, ~ late, ByteTime
  PROVE  Reception' /\ RxAt' /\ Answer'
<1>1. Reception' /\ Taken' = Taken
  BY ByteReception
<1>2. Answer'
  BY <1>1, ByteAnswer
<1>3. slot' = slot /\ rx' = rx
  BY TransmitterOn, ByteDoes
<1>4. RxAt'
  BY <1>1, <1>3, Zenon DEF RxAt
<1>5. QED
  BY <1>1, <1>2, <1>4

(* At the end of a slot the task is done with it. *)
LEMMA SlotOver ==
  ASSUME SportTypeOK, Reception, Answer, slotTime = SlotLen
  PROVE  /\ rxRing = <<>> /\ rdr = NoByte /\ Taken = Len(Bytes)
         /\ Silent
         /\ IF slot = "ours"
              THEN \/ reply = Skipped /\ out = <<>>
                   \/ reply \in Fields /\ out = Frame(reply)
              ELSE reply = NoReply /\ out = <<>>
<1>1. /\ Len(Bytes) \in 2 .. 5 /\ lag \in Nat /\ lag <= Latency /\ Latency \in Nat
      /\ SlotLen \in Nat /\ 6 + Latency <= SlotLen
      /\ 3 + Latency + FrameLen <= SlotLen /\ FrameLen \in Nat
  BY Counted, SportNumbers
<1> DEFINE n == Len(Bytes)
<1>2. n \in Nat /\ n <= 5
  BY Counted
<1> HIDE DEF n
<1>3. slotTime > n + lag /\ slotTime > n
  BY <1>1, <1>2
<1>4. rxRing = <<>> /\ pc \notin AnswerSteps
  <2>1. rxRing # <<>> \/ pc \in AnswerSteps => slotTime <= Len(Bytes) + lag
    BY DEF Reception
  <2>2. ~ (slotTime <= Len(Bytes) + lag)
    BY <1>1, <1>2, <1>3 DEF n
  <2>3. QED
    BY <2>1, <2>2
<1>5. rdr = NoByte
  <2>1. rdr # NoByte => slotTime \in 1 .. n
    BY DEF Reception, n
  <2>2. QED
    BY <1>1, <1>2, <1>3, <2>1
<1>6. Taken = Len(Bytes)
  <2>1. Unread = 0
    BY <1>4, <1>5, Counted DEF Unread
  <2>2. ~ (slotTime < Len(Bytes))
    BY <1>1, <1>2, <1>3 DEF n
  <2>3. Arrived = Len(Bytes)
    BY <2>2 DEF Arrived
  <2>4. QED
    BY <2>1, <2>3, Counted
<1>7. Polled <=> slot = "ours"
  BY <1>6, BytesPut DEF Polled, SportTypeOK
<1>8. ~ Loading /\ ~ Turning
  BY <1>4 DEF Loading, Turning, AnswerSteps
<1>9. ~ Sending
  <2>1. SUFFICES ASSUME Sending PROVE FALSE
    OBVIOUS
  <2>2. Len(out) \in Nat /\ Len(txRing) \in Nat
    BY EmptyOrNot DEF SportTypeOK
  <2>3. Shifted \in {0, 1} /\ Waiting \in {0, 1}
    BY DEF Shifted, Waiting
  <2>4. Len(out) + Shifted + Waiting + Len(txRing) = FrameLen
    BY <2>1 DEF Sending, Fed
  <2>5. slotTime <= 2 + Latency + Len(out)
    BY <2>1 DEF Sending
  <2>6. QED
    BY <1>1, <2>2, <2>3, <2>4, <2>5
<1>10. QED
  BY <1>4, <1>5, <1>6, <1>7, <1>8, <1>9, Zenon DEF Answer, Answering, Quiet, Answered

LEMMA BytesAhead ==
  ASSUME SportTypeOK'
  PROVE  Len(Bytes') \in 2 .. 5
<1>1. slot' \in Kinds
  BY DEF SportTypeOK
<1>2. /\ slot' = "ours" => BytesOf(slot') = <<START_STOP, PHYSICAL_ID>>
      /\ slot' = "other" => BytesOf(slot') = <<START_STOP, OtherId, PHYSICAL_ID>>
      /\ slot' \in Pushes =>
           BytesOf(slot') = <<START_STOP, PUSH_PHYSICAL_ID, DataByte(slot'), DLE, SumByte(slot')>>
  BY DEF BytesOf, OtherId, DataByte, SumByte, Pushes
<1>3. Len(BytesOf(slot')) \in 2 .. 5
  BY <1>1, <1>2 DEF Kinds
<1>4. QED
  BY <1>3 DEF Bytes

LEMMA SlotDoes ==
  ASSUME NEW kind, NextSlot(kind)
  PROVE  /\ ~ Pending /\ slotTime = SlotLen
         /\ slot' = kind /\ slotTime' = 0
         /\ late' = (late /\ ~ Settled)
         /\ clean' = ~ late'
         /\ out' = <<>> /\ reply' = NoReply /\ applied' = NoReply
         /\ rdr' = rdr /\ cr1' = cr1 /\ tdr' = tdr /\ shifting' = shifting
         /\ rxRing' = rxRing /\ txRing' = txRing /\ notified' = notified
         /\ pc' = pc /\ toSend' = toSend /\ lag' = lag
<1>1. UNCHANGED <<uartVars, ringVars, pc, reg, toSend, rx, field, lag>>
  BY DEF NextSlot
<1>2. /\ rdr' = rdr /\ cr1' = cr1 /\ tdr' = tdr /\ shifting' = shifting
      /\ rxRing' = rxRing /\ txRing' = txRing /\ notified' = notified
      /\ pc' = pc /\ toSend' = toSend /\ lag' = lag
  BY <1>1 DEF uartVars, ringVars
<1>3. QED
  BY <1>2, Zenon DEF NextSlot

LEMMA NextInTime ==
  ASSUME SportTypeOK, SportTypeOK', Always, OnTime, NEW kind \in Kinds, NextSlot(kind)
  PROVE  OnTime' /\ Applied'
<1>1. /\ ~ Pending /\ slotTime = SlotLen
      /\ slot' = kind /\ slotTime' = 0
      /\ late' = (late /\ ~ Settled)
      /\ clean' = ~ late'
      /\ out' = <<>> /\ reply' = NoReply /\ applied' = NoReply
      /\ rdr' = rdr /\ cr1' = cr1 /\ tdr' = tdr /\ shifting' = shifting
      /\ rxRing' = rxRing /\ txRing' = txRing /\ notified' = notified
      /\ pc' = pc /\ toSend' = toSend /\ lag' = lag
  BY SlotDoes
<1>2. Applied'
  BY <1>1 DEF Applied
<1>3. ASSUME ~ late' PROVE clean' /\ Reception' /\ RxAt' /\ Answer' /\ applied' = NoReply
  <2>1. Silent /\ rxRing = <<>> /\ rdr = NoByte
    <3>1. CASE late
      <4>1. Settled
        BY <1>1, <1>3, <3>1
      <4>2. toSend = <<>>
        BY <4>1 DEF Settled, Always
      <4>3. QED
        BY <1>1, <4>1, <4>2, NothingPending DEF Settled, Silent, Unplugged
    <3>2. CASE ~ late
      BY <1>1, <3>2, SlotOver DEF OnTime
    <3>3. QED
      BY <3>1, <3>2
  <2>2. Silent' /\ rxRing' = <<>> /\ rdr' = NoByte
    BY <1>1, <2>1 DEF Silent, Unplugged
  <2>3. Len(rxRing') = 0 /\ Unread' = 0
    BY <2>2, EmptySeq DEF Unread
  <2>4. Len(Bytes') \in 2 .. 5
    BY BytesAhead
  <2>5. Arrived' = 0 /\ Taken' = 0
    BY <1>1, <2>3, <2>4 DEF Arrived, Taken
  <2>6. lag' \in Nat
    BY <1>1, Counted
  <2>7. Reception'
    <3>1. pc' \notin AnswerSteps
      BY <2>2 DEF Silent, AnswerSteps
    <3>2. \A i \in 1 .. Len(rxRing') : rxRing'[i] = Bytes'[Taken' + i]
      BY <2>3
    <3>3. Taken' >= 0 /\ Unread' <= lag' + 1
      <4>1. Taken' >= 0
        BY <2>5
      <4>2. ASSUME NEW n \in Nat PROVE 0 <= n + 1
        OBVIOUS
      <4>3. QED
        BY <2>3, <2>6, <4>1, <4>2
    <3>4. QED
      BY <2>2, <3>1, <3>2, <3>3, Zenon DEF Reception
  <2>8. RxAt'
    BY <2>5 DEF RxAt
  <2>9. Answer'
    BY <1>1, <2>2, <2>5 DEF Answer, Polled, Quiet
  <2>10. QED
    BY <1>1, <1>3, <2>7, <2>8, <2>9
<1>4. QED
  BY <1>2, <1>3 DEF OnTime

-----------------------------------------------------------------------------
(* S.Port: the theorems. *)

SportInv == SportTypeOK /\ Always /\ OnTime /\ Applied

LEMMA SportStart == SportInit => SportInv
<1> SUFFICES ASSUME SportInit PROVE SportInv
  OBVIOUS
<1>1. SportTypeOK /\ Always
  BY SportTypeStart
<1>2. /\ slotTime = 0 /\ rdr = NoByte /\ rxRing = <<>> /\ pc = "wait"
      /\ cr1 = Listening /\ tdr = NoByte /\ shifting = NoByte /\ txRing = <<>> /\ toSend = <<>>
      /\ late = FALSE /\ clean = TRUE /\ out = <<>> /\ reply = NoReply /\ applied = NoReply
  BY Zenon DEF SportInit
<1>3. Unread = 0 /\ Len(rxRing) = 0
  BY <1>2, EmptySeq DEF Unread
<1>4. Arrived = 0 /\ Taken = 0
  <2>1. Arrived <= 0 /\ Arrived \in Nat
    BY <1>1, <1>2, Counted
  <2>2. QED
    BY <1>1, <1>3, <2>1, Counted
<1>5. Reception
  <2>1. pc \notin AnswerSteps
    BY <1>2 DEF AnswerSteps
  <2>2. \A i \in 1 .. Len(rxRing) : rxRing[i] = Bytes[Taken + i]
    BY <1>3
  <2>3. Taken >= 0 /\ Unread <= lag + 1
    <3>1. ASSUME NEW n \in Nat PROVE 0 <= n + 1
      OBVIOUS
    <3>2. lag \in Nat
      BY <1>1, Counted
    <3>3. QED
      BY <1>3, <1>4, <3>1, <3>2
  <2>4. QED
    BY <1>2, <2>1, <2>2, <2>3, Zenon DEF Reception
<1>6. RxAt
  BY <1>4 DEF RxAt
<1>7. Answer
  BY <1>2, <1>4 DEF Answer, Polled, Quiet, Silent, Unplugged
<1>8. QED
  BY <1>1, <1>2, <1>5, <1>6, <1>7 DEF SportInv, OnTime, Applied

(* Until the next slot a late time shows nothing more of the bus. *)
LEMMA StillLate ==
  ASSUME SportTypeOK, Applied, late, UART7_IRQHandler \/ Task \/ ByteTime
  PROVE  OnTime' /\ Applied'
<1>1. CASE UART7_IRQHandler
  <2>1. /\ late' = late /\ clean' = clean /\ slot' = slot /\ slotTime' = slotTime
        /\ applied' = applied /\ reply' = reply /\ out' = out
        /\ rdr' = NoByte
    BY <1>1, IrqDoes
  <2>2. rdr = NoByte => rxRing' = rxRing
    BY <1>1, IrqDoes
  <2>3. QED
    BY <2>1, <2>2 DEF OnTime, Applied
<1>2. CASE Task
  <2>1. CASE ReadByte
    <3>1. /\ rxRing # <<>> /\ late'
          /\ clean' = clean
      BY <2>1 DEF ReadByte, busVars
    <3>2. ~ clean
      BY <3>1 DEF Applied
    <3>3. QED
      BY <3>1, <3>2 DEF OnTime, Applied
  <2>2. CASE ~ ReadByte
    <3>1. /\ late' = late /\ clean' = clean /\ slot' = slot /\ slotTime' = slotTime
          /\ applied' = applied /\ reply' = reply /\ out' = out
          /\ rdr' = rdr /\ rxRing' = rxRing
      BY <1>2, <2>2, Zenon DEF Task, Wake, Block, EraseEnds, AppendByte, ReadCr1, WriteBack, WriteCr1,
         busVars, uartVars, ringVars
    <3>2. QED
      BY <3>1 DEF OnTime, Applied
  <2>3. QED
    BY <2>1, <2>2
<1>3. CASE ByteTime
  <2>1. UNCHANGED <<slot, clean, cr1, ringVars, sportTaskVars>> /\ slotTime' = slotTime + 1
    BY <1>3 DEF ByteTime
  <2>2. /\ late' = late /\ clean' = clean /\ slot' = slot /\ slotTime' = slotTime + 1
        /\ applied' = applied /\ reply' = reply /\ rxRing' = rxRing
    BY <2>1 DEF ringVars, sportTaskVars
  <2>3. out' = out
    BY <1>3 DEF ByteTime
  <2>4. ASSUME slot = "trim", slotTime >= 5 PROVE rdr' = NoByte /\ slotTime' >= 5
    <3>1. Len(Bytes) = 5 /\ DOMAIN Bytes = 1 .. Len(Bytes)
      BY <2>4, BytesPut DEF SportTypeOK, Pushes
    <3>2. slotTime \in Nat
      BY Counted
    <3>3. slotTime' \notin DOMAIN Bytes /\ slotTime' >= 5
      BY <2>2, <2>4, <3>1, <3>2
    <3>4. QED
      BY <1>3, <3>3 DEF ByteTime, Bytes
  <2>5. QED
    BY <2>2, <2>3, <2>4 DEF OnTime, Applied
<1>4. QED
  BY <1>1, <1>2, <1>3

LEMMA SportStep == SportInv /\ [SportNext]_sportVars => SportInv'
<1> SUFFICES ASSUME SportInv, [SportNext]_sportVars PROVE SportInv'
  OBVIOUS
<1>1. SportTypeOK /\ Always /\ OnTime /\ Applied
  BY DEF SportInv
<1>2. SportTypeOK' /\ Always'
  BY <1>1, SportTypeStep
<1>3. ASSUME NEW kind \in Kinds, NextSlot(kind) PROVE OnTime' /\ Applied'
  BY <1>1, <1>2, <1>3, NextInTime
<1>4. ASSUME UNCHANGED sportVars PROVE OnTime' /\ Applied'
  <2>1. UNCHANGED <<busVars, uartVars, ringVars, sportTaskVars, lag, out>>
    BY <1>4 DEF sportVars
  <2>2. /\ slot' = slot /\ slotTime' = slotTime /\ clean' = clean
        /\ rdr' = rdr /\ cr1' = cr1 /\ tdr' = tdr /\ shifting' = shifting /\ tc' = tc
        /\ rxRing' = rxRing /\ txRing' = txRing /\ notified' = notified
        /\ pc' = pc /\ reg' = reg /\ toSend' = toSend /\ rx' = rx /\ reply' = reply
        /\ applied' = applied /\ late' = late /\ lag' = lag /\ out' = out
    BY <2>1 DEF busVars, uartVars, ringVars, sportTaskVars
  <2>3. Bytes' = Bytes /\ Arrived' = Arrived /\ Unread' = Unread /\ Taken' = Taken
    BY <2>2 DEF Bytes, Arrived, Unread, Taken
  <2>4. Reception => Reception'
    BY <2>2, <2>3, Zenon DEF Reception
  <2>5. RxAt => RxAt'
    BY <2>2, <2>3, Zenon DEF RxAt
  <2>6. Silent => Silent'
    BY <2>2 DEF Silent, Unplugged
  <2>7. (Loading => Loading') /\ (Turning => Turning')
    BY <2>2, Zenon DEF Loading, Turning, Unplugged
  <2>8. Sending => Sending'
    BY <2>2, Zenon DEF Sending, Fed, Shifted, Waiting
  <2>9. Answer => Answer'
    BY <2>2, <2>3, <2>6, <2>7, <2>8, Zenon DEF Answer, Answering, Polled, Quiet, Answered
  <2>10. QED
    BY <1>1, <2>2, <2>4, <2>5, <2>9, Zenon DEF OnTime, Applied
<1>5. ASSUME late, UART7_IRQHandler \/ Task \/ ByteTime PROVE OnTime' /\ Applied'
  BY <1>1, <1>5, StillLate
<1>6. ASSUME ~ late, UART7_IRQHandler PROVE OnTime' /\ Applied'
  <2>1. Reception /\ RxAt /\ Answer /\ clean /\ applied = NoReply
    BY <1>1, <1>6 DEF OnTime
  <2>2. /\ late' = late /\ clean' = clean /\ slot' = slot /\ applied' = applied /\ rx' = rx
    BY <1>1, <1>6, IrqDoes
  <2>3. Reception' /\ Taken' = Taken
    BY <1>1, <1>6, <2>1, IrqReception
  <2>4. Answer'
    BY <1>1, <1>6, <2>1, <2>3, IrqAnswer
  <2>5. RxAt'
    BY <2>1, <2>2, <2>3, Zenon DEF RxAt
  <2>6. QED
    BY <1>6, <2>1, <2>2, <2>3, <2>4, <2>5, Zenon DEF OnTime, Applied
<1>7. ASSUME ~ late, Task PROVE OnTime' /\ Applied'
  <2>1. Reception /\ RxAt /\ Answer /\ clean /\ applied = NoReply
    BY <1>1, <1>7 DEF OnTime
  <2>2. ~ Pending
    BY <1>7 DEF Task
  <2>3. CASE ReadByte
    BY <1>1, <1>7, <2>1, <2>2, <2>3, ReadInTime
  <2>4. CASE EraseEnds
    <3>1. pc = "erasing"
      BY <2>4 DEF EraseEnds
    <3>2. QED
      BY <2>1, <3>1, StageOf
  <2>5. CASE Wake \/ Block \/ AppendByte \/ ReadCr1 \/ WriteBack
    <3>1. Reception' /\ RxAt' /\ Answer'
      BY <1>1, <2>1, <2>2, <2>5, WakeInTime, BlockInTime, AppendInTime, ReadCr1InTime, WriteBackInTime
    <3>2. late' = late /\ clean' = clean /\ applied' = applied
      BY <2>5, Zenon DEF Wake, Block, AppendByte, ReadCr1, WriteBack, busVars
    <3>3. QED
      BY <1>7, <2>1, <3>1, <3>2, Zenon DEF OnTime, Applied
  <2>6. QED
    BY <1>7, <2>3, <2>4, <2>5 DEF Task
<1>8. ASSUME ~ late, ByteTime PROVE OnTime' /\ Applied'
  <2>1. Reception /\ RxAt /\ Answer /\ clean /\ applied = NoReply
    BY <1>1, <1>8 DEF OnTime
  <2>2. late' = late /\ clean' = clean /\ applied' = applied
    BY <1>1, <1>8, <2>1, TransmitterOn, ByteDoes
  <2>3. Reception' /\ RxAt' /\ Answer'
    BY <1>1, <1>8, <2>1, ByteInTime
  <2>4. QED
    BY <1>8, <2>1, <2>2, <2>3, Zenon DEF OnTime, Applied
<1>9. OnTime' /\ Applied'
  BY <1>3, <1>4, <1>5, <1>6, <1>7, <1>8, Zenon DEF SportNext
<1>10. QED
  BY <1>2, <1>9 DEF SportInv

LEMMA SportHolds == SportSpec => []SportInv
BY SportStart, SportStep, PTL DEF SportSpec

(* A slot that nothing of an erase reaches is kept, whatever the interrupt *)
(* handler and the task do in between: our poll is answered in its slot    *)
(* with one whole frame, and no byte is put into anybody else's slot.      *)
THEOREM SlotIsKept == SportSpec => []SlotKept
<1>1. SportInv => SlotKept
  <2> SUFFICES ASSUME SportInv, slotTime = SlotLen, clean
               PROVE  IF slot = "ours"
                        THEN IF reply = Skipped THEN out = <<>> ELSE reply \in Fields /\ out = Frame(reply)
                        ELSE reply = NoReply /\ out = <<>>
    BY DEF SlotKept
  <2>1. SportTypeOK /\ OnTime /\ Applied
    BY DEF SportInv
  <2>2. CASE late
    BY <2>1, <2>2 DEF Applied
  <2>3. CASE ~ late
    <3>1. Reception /\ Answer
      BY <2>1, <2>3 DEF OnTime
    <3>2. IF slot = "ours"
            THEN \/ reply = Skipped /\ out = <<>>
                 \/ reply \in Fields /\ out = Frame(reply)
            ELSE reply = NoReply /\ out = <<>>
      BY <2>1, <3>1, SlotOver
    <3>3. QED
      BY <3>2, MarkAssumption
  <2>4. QED
    BY <2>2, <2>3
<1>2. QED
  BY <1>1, SportHolds, PTL

(* A push of the trim block that arrives whole in such a slot has been     *)
(* applied, once, when its slot ends, and no other push ever is.           *)
THEOREM PushIsApplied == SportSpec => []PushApplied
<1>1. SportInv => PushApplied
  <2> SUFFICES ASSUME SportInv, slotTime = SlotLen, clean
               PROVE  applied = IF slot = "trim" THEN "trim" ELSE NoReply
    BY DEF PushApplied
  <2>1. SportTypeOK /\ OnTime /\ Applied
    BY DEF SportInv
  <2>2. CASE late
    BY <2>1, <2>2 DEF Applied
  <2>3. CASE ~ late
    <3>1. Reception /\ RxAt /\ Answer /\ applied = NoReply
      BY <2>1, <2>3 DEF OnTime
    <3>2. Taken = Len(Bytes)
      BY <2>1, <3>1, SlotOver
    <3>3. slot # "trim"
      <4>1. SUFFICES ASSUME slot = "trim" PROVE FALSE
        OBVIOUS
      <4>2. slot \in Pushes /\ Len(Bytes) = 5
        BY <2>1, <4>1, BytesPut DEF SportTypeOK, Pushes
      <4>3. QED
        BY <3>1, <3>2, <4>1, <4>2 DEF RxAt
    <3>4. QED
      BY <3>1, <3>3
  <2>4. QED
    BY <2>2, <2>3
<1>2. QED
  BY <1>1, SportHolds, PTL

(* The driver is never deaf outside the task's two writes, and unless a    *)
(* late answer races the handler the direction is exclusive and the        *)
(* transmit interrupt never fires while the line listens.                  *)
THEOREM DirectionIsOne == SportSpec => []OneDirection
<1>1. SportInv => OneDirection
  <2> SUFFICES ASSUME SportInv PROVE OneDirection
    OBVIOUS
  <2>1. cr1.te \/ cr1.re \/ pc \in {"set", "set write"}
    BY DEF SportInv, Always
  <2>2. ASSUME ~ late PROVE ~ (cr1.te /\ cr1.re) /\ (cr1.txeie => cr1.te)
    <3>1. Answer
      BY <2>2 DEF SportInv, OnTime
    <3>2. QED
      BY <3>1, OneOfFive, ListeningBits, ControlBits, Zenon
  <2>3. QED
    BY <2>1, <2>2, Zenon DEF OneDirection
<1>2. QED
  BY <1>1, SportHolds, PTL

=============================================================================

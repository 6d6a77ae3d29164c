--------------------------- MODULE GpsReaderProofs ---------------------------
(* The GPS receiver for any ring, line and periods. *)
EXTENDS GpsReader, SequenceTheorems, TLAPS

LEMMA GpsConstants ==
  /\ Modules = {"gps"} /\ Value = Readings /\ NoFix \in Readings
  /\ Fallback = [m \in Modules |-> NoFix] /\ Seed = [m \in Modules |-> NoFix]
  /\ RingUsable \in Nat /\ LineMax \in Nat /\ 2 <= LineMax
  /\ Horizon \in Nat
  /\ PollPeriod \in Nat \ {0} /\ AgeCap \in Nat
  BY GpsAssumption, MonitorAssumption DEF Readings, NoFix

(* A sentence is three tokens, and no token says its own kind twice.       *)
LEMMA SentenceTyped ==
  ASSUME NEW s \in Contents
  PROVE  /\ Sentence(s) \in Seq(Tokens) /\ Len(Sentence(s)) = 3
         /\ Head(Sentence(s)) \in Tokens
         /\ Tail(Sentence(s)) \in Seq(Tokens) /\ Len(Tail(Sentence(s))) = 2
         /\ \A k \in 2 .. 4 : /\ SubSeq(Sentence(s), k, 3) \in Seq(Tokens)
                              /\ Len(SubSeq(Sentence(s), k, 3)) <= 3
<1>1. <<"$">> \in Tokens /\ <<"text", s>> \in Tokens /\ <<"end", s>> \in Tokens
  BY DEF Tokens, Ends
<1>2. Sentence(s) \in Seq(Tokens) /\ Len(Sentence(s)) = 3
  BY <1>1 DEF Sentence
<1>3. Head(Sentence(s)) \in Tokens
  BY <1>1 DEF Sentence
<1>4. Tail(Sentence(s)) \in Seq(Tokens) /\ Len(Tail(Sentence(s))) = 2
  BY <1>2
<1>5. ASSUME NEW k \in 2 .. 4
      PROVE  /\ SubSeq(Sentence(s), k, 3) \in Seq(Tokens)
             /\ Len(SubSeq(Sentence(s), k, 3)) <= 3
  BY <1>2
<1>6. QED
  BY <1>2, <1>3, <1>4, <1>5

WireTypeOK ==
  /\ plugged \in BOOLEAN
  /\ sending \in Seq(Tokens) /\ Len(sending) <= 3
  /\ ring \in Seq(Tokens) /\ Len(ring) <= RingUsable
  /\ heard \in Begun \cup {<<>>}
  /\ newest \in Fixes \cup {"none"}

ReadTypeOK ==
  /\ line \in Seq(Tokens) /\ Len(line) <= LineMax
  /\ latest \in Readings

TaskTypeOK ==
  /\ pc \in {"start", "delay", "drain", "kick"}
  /\ stuck \in BOOLEAN
  /\ calm \in 0 .. Horizon

TypeInv == MonitorTypeOK /\ WireTypeOK /\ ReadTypeOK /\ TaskTypeOK

LEMMA TypeStart == Init => TypeInv
<1> SUFFICES ASSUME Init PROVE TypeInv
  OBVIOUS
<1>1. MonitorTypeOK
  BY MonitorAssumption DEF Init, MonitorInit, MonitorTypeOK
<1>2. \A n \in Nat : 0 \in 0 .. n /\ 0 <= n
  OBVIOUS
<1>3. <<>> \in Seq(Tokens) /\ Len(<<>>) = 0
  OBVIOUS
<1>4. WireTypeOK
  BY <1>2, <1>3, GpsConstants DEF Init, WireTypeOK
<1>5. ReadTypeOK
  BY <1>2, <1>3, GpsConstants DEF Init, ReadTypeOK
<1>6. TaskTypeOK
  BY <1>2, GpsConstants DEF Init, TaskTypeOK
<1>7. QED
  BY <1>1, <1>4, <1>5, <1>6 DEF Init, MonitorInit, TypeInv

(* What a byte does to the wire's state, whoever sends it. *)
LEMMA ReceiveTyped ==
  ASSUME TypeInv, NEW b \in Tokens, Receive(b)
  PROVE  /\ ring' \in Seq(Tokens) /\ Len(ring') <= RingUsable
         /\ heard' \in Begun \cup {<<>>}
         /\ newest' \in Fixes \cup {"none"}
         /\ UNCHANGED <<mvars, plugged, line, latest, pc, stuck>>
         /\ calm' \in {0, calm}
<1>1. WireTypeOK
  BY DEF TypeInv
<1>2. ring' \in Seq(Tokens) /\ Len(ring') <= RingUsable
  BY <1>1, GpsConstants DEF Receive, Room, WireTypeOK
<1>3. << <<"$">> >> \in Begun
  <2>1. "other" \in Contents
    BY DEF Contents
  <2>2. SubSeq(Sentence("other"), 1, 1) \in Begun
    BY <2>1 DEF Begun
  <2> DEFINE one == << <<"$">> >>
             first == SubSeq(Sentence("other"), 1, 1)
  <2>3. first \in Seq(Tokens) /\ Len(first) = 1 /\ first[1] = Sentence("other")[1]
    BY <2>1, SentenceTyped
  <2>4. Sentence("other")[1] = <<"$">> /\ <<"$">> \in Tokens
    BY DEF Sentence, Tokens
  <2>5. one \in Seq(Tokens) /\ Len(one) = 1 /\ one[1] = <<"$">>
    BY <2>4
  <2>6. first = one
    <3> HIDE DEF first, one
    <3>1. QED
      BY <2>3, <2>4, <2>5
  <2>7. QED
    BY <2>2, <2>6
<1>4. heard' \in Begun \cup {<<>>}
  BY <1>1, <1>3 DEF Receive, WireTypeOK
<1>5. newest' \in Fixes \cup {"none"} /\ calm' \in {0, calm}
  BY <1>1 DEF Receive, WireTypeOK
<1>6. QED
  BY <1>2, <1>4, <1>5 DEF Receive, readVars, taskVars

LEMMA TypeStep == TypeInv /\ [Next]_vars => TypeInv'
<1> SUFFICES ASSUME TypeInv, [Next]_vars PROVE TypeInv'
  OBVIOUS
<1> USE DEF wireVars, readVars, taskVars
<1>1. /\ MonitorTypeOK /\ WireTypeOK /\ ReadTypeOK /\ TaskTypeOK
      /\ 0 \in 0 .. Horizon /\ Capped(calm) \in 0 .. Horizon
      /\ <<>> \in Seq(Tokens) /\ Len(<<>>) = 0
  BY GpsConstants DEF TypeInv, TaskTypeOK, Capped
<1>2. UNCHANGED mvars => MonitorTypeOK'
  BY <1>1 DEF mvars, MonitorTypeOK
<1>3. ASSUME NEW b \in Tokens, Receive(b), sending' \in Seq(Tokens), Len(sending') <= 3
      PROVE  TypeInv'
  <2>1. WireTypeOK'
    BY <1>1, <1>3, ReceiveTyped DEF WireTypeOK
  <2>2. ReadTypeOK' /\ TaskTypeOK' /\ MonitorTypeOK'
    BY <1>1, <1>2, <1>3, ReceiveTyped DEF ReadTypeOK, TaskTypeOK
  <2>3. QED
    BY <2>1, <2>2 DEF TypeInv
<1>4. ASSUME NEW s \in Contents, StartsSentence(s) PROVE TypeInv'
  BY <1>3, <1>4, SentenceTyped DEF StartsSentence
<1>5. CASE GoesOn
  <2>1. Head(sending) \in Tokens /\ Tail(sending) \in Seq(Tokens) /\ Len(Tail(sending)) <= 3
    BY <1>1, <1>5 DEF GoesOn, WireTypeOK
  <2>2. QED
    BY <1>3, <1>5, <2>1 DEF GoesOn
<1>6. CASE Unplug
  <2>1. sending' \in Seq(Tokens) /\ Len(sending') = 0
    BY <1>1, <1>6 DEF Unplug
  <2>2. /\ plugged' = FALSE /\ calm' = 0
        /\ UNCHANGED <<mvars, ring, heard, newest, line, latest, pc, stuck>>
    BY <1>6 DEF Unplug
  <2>3. Len(sending') <= 3
    BY <2>1
  <2>4. WireTypeOK'
    BY <1>1, <2>1, <2>2, <2>3 DEF WireTypeOK
  <2>5. ReadTypeOK' /\ TaskTypeOK'
    BY <1>1, <2>2 DEF ReadTypeOK, TaskTypeOK
  <2>6. QED
    BY <1>2, <2>2, <2>4, <2>5 DEF TypeInv
<1>7. ASSUME NEW s \in Contents, NEW k \in 2 .. 4, Plug(s, k) PROVE TypeInv'
  <2>1. sending' \in Seq(Tokens) /\ Len(sending') <= 3
    BY <1>7, SentenceTyped DEF Plug
  <2>2. WireTypeOK' /\ ReadTypeOK' /\ TaskTypeOK'
    BY <1>1, <1>7, <2>1 DEF Plug, WireTypeOK, ReadTypeOK, TaskTypeOK
  <2>3. QED
    BY <1>2, <1>7, <2>2 DEF Plug, TypeInv
<1>8. CASE Start
  <2>1. MonitorTypeOK'
    BY <1>1, <1>8, GpsConstants, MonitorAssumption DEF Start, Watch, MonitorTypeOK
  <2>2. WireTypeOK' /\ ReadTypeOK' /\ TaskTypeOK'
    BY <1>1, <1>8 DEF Start, WireTypeOK, ReadTypeOK, TaskTypeOK
  <2>3. QED
    BY <2>1, <2>2 DEF TypeInv
<1>9. CASE Wake \/ GetsStuck \/ GetsFree
  <2>1. WireTypeOK' /\ ReadTypeOK' /\ TaskTypeOK'
    BY <1>1, <1>9 DEF Wake, GetsStuck, GetsFree, WireTypeOK, ReadTypeOK, TaskTypeOK
  <2>2. QED
    BY <1>2, <1>9, <2>1 DEF Wake, GetsStuck, GetsFree, TypeInv
<1>10. CASE ReadByte
  <2>1. ring # <<>> /\ ring' = Tail(ring) /\ Head(ring) \in Tokens
    BY <1>1, <1>10 DEF ReadByte, WireTypeOK
  <2>2. ring' \in Seq(Tokens) /\ Len(ring') <= RingUsable
    <3>1. ring \in Seq(Tokens) /\ Len(ring) <= RingUsable /\ RingUsable \in Nat
      BY <1>1, GpsConstants DEF WireTypeOK
    <3>2. Tail(ring) \in Seq(Tokens) /\ Len(Tail(ring)) = Len(ring) - 1
      BY <2>1, <3>1
    <3>3. QED
      BY <2>1, <3>1, <3>2
  <2>3. WireTypeOK' /\ TaskTypeOK'
    BY <1>1, <1>10, <2>2 DEF ReadByte, WireTypeOK, TaskTypeOK
  <2>4. line' \in {line, <<>>, <<Head(ring)>>}
        \/ (Len(line) < LineMax /\ line' = Append(line, Head(ring)))
    BY <1>10 DEF ReadByte
  <2>5. line' \in Seq(Tokens) /\ Len(line') <= LineMax
    <3>1. line \in Seq(Tokens) /\ Len(line) <= LineMax /\ LineMax \in Nat /\ 2 <= LineMax
      BY <1>1, GpsConstants DEF ReadTypeOK
    <3>2. CASE line' = line \/ line' = <<>>
      <4>1. line' = line \/ (line' \in Seq(Tokens) /\ Len(line') = 0)
        BY <1>1, <3>2
      <4>2. QED
        BY <3>1, <4>1
    <3>3. CASE line' = <<Head(ring)>>
      <4>1. line' \in Seq(Tokens) /\ Len(line') = 1
        BY <2>1, <3>3
      <4>2. QED
        BY <3>1, <4>1
    <3>4. CASE Len(line) < LineMax /\ line' = Append(line, Head(ring))
      <4>1. line' \in Seq(Tokens) /\ Len(line') = Len(line) + 1
        BY <2>1, <3>1, <3>4
      <4>2. QED
        BY <3>1, <3>4, <4>1
    <3>5. QED
      BY <2>4, <3>2, <3>3, <3>4
  <2>6. \A s \in Contents : Parsed(s) \in Readings
    BY <1>1 DEF Parsed, Contents, Fixes, Readings, ReadTypeOK
  <2>7. latest' \in Readings
    BY <1>1, <1>10, <2>6 DEF ReadByte, Valid, ReadTypeOK
  <2>8. QED
    BY <1>2, <1>10, <2>3, <2>5, <2>7 DEF ReadByte, TypeInv, ReadTypeOK
<1>11. CASE PublishFix \/ KickSupervisor
  <2>1. MonitorTypeOK'
    <3>1. "gps" \in Modules /\ latest \in Value /\ 0 \in 0 .. AgeCap
      BY <1>1, GpsConstants DEF ReadTypeOK
    <3>2. CASE PublishFix
      BY <1>1, <3>1, <3>2 DEF PublishFix, Publish, MonitorTypeOK
    <3>3. CASE KickSupervisor
      BY <1>1, <3>1, <3>3 DEF KickSupervisor, Kick, MonitorTypeOK
    <3>4. QED
      BY <1>11, <3>2, <3>3
  <2>2. WireTypeOK' /\ ReadTypeOK' /\ TaskTypeOK'
    BY <1>1, <1>11 DEF PublishFix, KickSupervisor, WireTypeOK, ReadTypeOK, TaskTypeOK
  <2>3. QED
    BY <2>1, <2>2 DEF TypeInv
<1>12. CASE GpsSweep
  <2>1. MonitorTypeOK'
    BY <1>1, <1>12, MonitorAssumption DEF GpsSweep, Sweep, MonitorTypeOK
  <2>2. WireTypeOK' /\ ReadTypeOK' /\ TaskTypeOK'
    BY <1>1, <1>12 DEF GpsSweep, WireTypeOK, ReadTypeOK, TaskTypeOK
  <2>3. QED
    BY <2>1, <2>2 DEF TypeInv
<1>13. CASE GpsTick
  <2>1. MonitorTypeOK'
    BY <1>1, <1>13, MonitorAssumption DEF GpsTick, Tick, Older, MonitorTypeOK
  <2>2. WireTypeOK' /\ ReadTypeOK' /\ TaskTypeOK'
    BY <1>1, <1>13 DEF GpsTick, WireTypeOK, ReadTypeOK, TaskTypeOK
  <2>3. QED
    BY <2>1, <2>2 DEF TypeInv
<1>14. CASE UNCHANGED vars
  <2>1. WireTypeOK' /\ ReadTypeOK' /\ TaskTypeOK'
    BY <1>1, <1>14 DEF vars, WireTypeOK, ReadTypeOK, TaskTypeOK
  <2>2. QED
    BY <1>2, <1>14, <2>1 DEF vars, TypeInv
<1>15. QED
  BY <1>4, <1>5, <1>6, <1>7, <1>8, <1>9, <1>10, <1>11, <1>12, <1>13, <1>14 DEF Next

(* Ring, line, fix and histories keep their types for every ring size and  *)
(* line length: no byte is ever written past either.                       *)
THEOREM GpsTypeCorrect == Spec => []TypeOK
<1>1. TypeInv => TypeOK
  <2> SUFFICES ASSUME TypeInv PROVE TypeOK
    OBVIOUS
  <2>1. queue["gps"] \in Readings /\ age["gps"] \in 0 .. AgeCap
    BY GpsConstants DEF TypeInv, MonitorTypeOK
  <2>2. QED
    BY <2>1, GpsConstants
       DEF TypeInv, MonitorTypeOK, WireTypeOK, ReadTypeOK, TaskTypeOK, TypeOK
<1>2. QED
  BY <1>1, TypeStart, TypeStep, PTL DEF Spec

(***************************************************************************)
(* Tokens and sentences, as the proofs below need them: by length and      *)
(* position.                                                               *)
(***************************************************************************)

LEMMA TokensDiffer ==
  ASSUME NEW s, NEW t
  PROVE  /\ <<"$">> # <<"text", s>> /\ <<"$">> # <<"end", s>>
         /\ <<"text", s>> # <<"end", t>>
         /\ <<"end", s>> = <<"end", t>> => s = t
<1>1. Len(<<"$">>) = 1 /\ Len(<<"text", s>>) = 2 /\ Len(<<"end", s>>) = 2
  OBVIOUS
<1>2. /\ <<"text", s>>[1] = "text" /\ <<"end", t>>[1] = "end"
      /\ <<"end", s>>[2] = s /\ <<"end", t>>[2] = t
  OBVIOUS
<1>3. QED
  BY <1>1, <1>2

LEMMA TokenKinds ==
  ASSUME NEW s \in Contents
  PROVE  <<"$">> \in Tokens /\ <<"text", s>> \in Tokens /\ <<"end", s>> \in Tokens
  BY DEF Tokens, Ends

LEMMA SentenceShape ==
  ASSUME NEW text \in Seq(Tokens), NEW s \in Contents
  PROVE  text = Sentence(s) <=> /\ Len(text) = 3
                                /\ text[1] = <<"$">>
                                /\ text[2] = <<"text", s>>
                                /\ text[3] = <<"end", s>>
<1> DEFINE whole == Sentence(s)
<1>1. /\ Len(whole) = 3 /\ whole[1] = <<"$">> /\ whole[2] = <<"text", s>>
      /\ whole[3] = <<"end", s>>
  BY DEF Sentence
<1>2. whole \in Seq(Tokens)
  BY SentenceTyped
<1>3. ASSUME Len(text) = 3, text[1] = whole[1], text[2] = whole[2], text[3] = whole[3]
      PROVE  text = whole
  <2> HIDE DEF whole
  <2>1. \A i \in 1 .. 3 : text[i] = whole[i]
    BY <1>3
  <2>2. QED
    BY <1>1, <1>2, <1>3, <2>1
<1>4. QED
  BY <1>1, <1>3

LEMMA BegunShape ==
  ASSUME NEW text \in Seq(Tokens)
  PROVE  text \in Begun <=> \/ Len(text) = 1 /\ text[1] = <<"$">>
                            \/ /\ Len(text) = 2 /\ text[1] = <<"$">>
                               /\ \E s \in Contents : text[2] = <<"text", s>>
<1>1. ASSUME NEW s \in Contents, NEW i \in 1 .. 2
      PROVE  /\ SubSeq(Sentence(s), 1, i) \in Seq(Tokens)
             /\ Len(SubSeq(Sentence(s), 1, i)) = i
             /\ SubSeq(Sentence(s), 1, i)[1] = <<"$">>
             /\ i = 2 => SubSeq(Sentence(s), 1, i)[2] = <<"text", s>>
  <2>1. /\ Sentence(s) \in Seq(Tokens) /\ Len(Sentence(s)) = 3
        /\ Sentence(s)[1] = <<"$">> /\ Sentence(s)[2] = <<"text", s>>
    BY SentenceTyped, SentenceShape
  <2>2. QED
    BY <2>1
<1>2. ASSUME text \in Begun
      PROVE  \/ Len(text) = 1 /\ text[1] = <<"$">>
             \/ /\ Len(text) = 2 /\ text[1] = <<"$">>
                /\ \E s \in Contents : text[2] = <<"text", s>>
  <2>1. PICK s \in Contents, i \in 1 .. 2 : text = SubSeq(Sentence(s), 1, i)
    BY <1>2 DEF Begun
  <2>2. QED
    BY <1>1, <2>1
<1>3. ASSUME Len(text) = 1, text[1] = <<"$">> PROVE text \in Begun
  <2> DEFINE first == SubSeq(Sentence("other"), 1, 1)
  <2>1. "other" \in Contents
    BY DEF Contents
  <2>2. first \in Begun /\ first \in Seq(Tokens) /\ Len(first) = 1 /\ first[1] = <<"$">>
    BY <1>1, <2>1 DEF Begun
  <2>3. text = first
    <3> HIDE DEF first
    <3>1. QED
      BY <1>3, <2>2
  <2>4. QED
    BY <2>2, <2>3
<1>4. ASSUME NEW s \in Contents, Len(text) = 2, text[1] = <<"$">>, text[2] = <<"text", s>>
      PROVE  text \in Begun
  <2> DEFINE both == SubSeq(Sentence(s), 1, 2)
  <2>1. /\ both \in Begun /\ both \in Seq(Tokens) /\ Len(both) = 2
        /\ both[1] = <<"$">> /\ both[2] = <<"text", s>>
    BY <1>1 DEF Begun
  <2>2. text = both
    <3> HIDE DEF both
    <3>1. QED
      BY <1>4, <2>1
  <2>3. QED
    BY <2>1, <2>2
<1>5. QED
  BY <1>2, <1>3, <1>4

LEMMA AppendShape ==
  ASSUME NEW text \in Seq(Tokens), NEW b \in Tokens
  PROVE  /\ Append(text, b) \in Seq(Tokens)
         /\ Append(text, b) \in Begun <=>
              \/ text = <<>> /\ b = <<"$">>
              \/ /\ Len(text) = 1 /\ text[1] = <<"$">>
                 /\ \E s \in Contents : b = <<"text", s>>
         /\ \A s \in Contents : Append(text, b) = Sentence(s) <=>
              /\ Len(text) = 2 /\ text[1] = <<"$">> /\ text[2] = <<"text", s>>
              /\ b = <<"end", s>>
<1> DEFINE longer == Append(text, b)
<1>1. /\ longer \in Seq(Tokens) /\ Len(longer) = Len(text) + 1
      /\ longer[Len(text) + 1] = b
      /\ \A i \in 1 .. Len(text) : longer[i] = text[i]
      /\ Len(text) \in Nat
      /\ Len(text) = 0 <=> text = <<>>
  BY EmptySeq
<1>2. /\ Len(text) >= 1 => longer[1] = text[1]
      /\ Len(text) = 2 => longer[2] = text[2] /\ longer[3] = b
      /\ Len(text) = 1 => longer[2] = b
      /\ Len(text) = 0 => longer[1] = b
      /\ Len(longer) = 1 <=> Len(text) = 0
      /\ Len(longer) = 2 <=> Len(text) = 1
      /\ Len(longer) = 3 <=> Len(text) = 2
  <2> HIDE DEF longer
  <2>1. Len(text) >= 1 => longer[1] = text[1]
    BY <1>1
  <2>2. Len(text) = 2 => longer[2] = text[2] /\ longer[3] = b
    BY <1>1
  <2>3. /\ Len(text) = 1 => longer[2] = b
        /\ Len(text) = 0 => longer[1] = b
    BY <1>1
  <2>4. /\ Len(longer) = 1 <=> Len(text) = 0
        /\ Len(longer) = 2 <=> Len(text) = 1
        /\ Len(longer) = 3 <=> Len(text) = 2
    <3>1. PICK n \in Nat : Len(text) = n /\ Len(longer) = n + 1
      BY <1>1
    <3>2. QED
      BY <3>1
  <2>5. QED
    BY <2>1, <2>2, <2>3, <2>4
<1> HIDE DEF longer
<1>3. longer \in Begun <=>
        \/ text = <<>> /\ b = <<"$">>
        \/ Len(text) = 1 /\ text[1] = <<"$">> /\ \E s \in Contents : b = <<"text", s>>
  <2>1. longer \in Begun <=>
          \/ Len(longer) = 1 /\ longer[1] = <<"$">>
          \/ /\ Len(longer) = 2 /\ longer[1] = <<"$">>
             /\ \E s \in Contents : longer[2] = <<"text", s>>
    BY <1>1, BegunShape
  <2>2. CASE Len(text) = 0
    BY <1>1, <1>2, <2>1, <2>2
  <2>3. CASE Len(text) = 1
    BY <1>1, <1>2, <2>1, <2>3
  <2>4. CASE Len(text) # 0 /\ Len(text) # 1
    BY <1>1, <1>2, <2>1, <2>4
  <2>5. QED
    BY <2>2, <2>3, <2>4
<1>4. ASSUME NEW s \in Contents
      PROVE  longer = Sentence(s) <=>
               /\ Len(text) = 2 /\ text[1] = <<"$">> /\ text[2] = <<"text", s>>
               /\ b = <<"end", s>>
  <2>1. longer = Sentence(s) <=> /\ Len(longer) = 3
                                 /\ longer[1] = <<"$">>
                                 /\ longer[2] = <<"text", s>>
                                 /\ longer[3] = <<"end", s>>
    BY <1>1, SentenceShape
  <2>2. QED
    BY <1>1, <1>2, <2>1
<1>5. QED
  BY <1>1, <1>3, <1>4 DEF longer

\* Only "$" begins anything.
LEMMA AppendToNone ==
  ASSUME NEW text \in Seq(Tokens), NEW b \in Tokens, text = <<>>
  PROVE  /\ Append(text, b) \in Begun => b = <<"$">>
         /\ \A s \in Contents : Append(text, b) # Sentence(s)
<1>1. Len(text) = 0 /\ Len(text) # 1 /\ Len(text) # 2
  BY EmptySeq
<1>2. QED
  BY <1>1, AppendShape

(***************************************************************************)
(* WholeSentencesCount.  The reader works through the ring long after the  *)
(* interrupt filled it, in a line of its own.  Proper(line) is what an     *)
(* ideal reader would remember of it.  The ring is explained by the        *)
(* states an ideal reader passes through from (line, latest) on its way to *)
(* (heard, newest): a byte the ring takes adds one at the end, a byte read *)
(* removes one at the front.                                               *)
(***************************************************************************)

Proper(text) == IF text \in Begun THEN text ELSE <<>>

ReadStates == [line : Begun \cup {<<>>}, fix : Readings]

\* The ideal reader: one byte, from one state to the next.
Reads(before, b, after) ==
  LET text == Append(before.line, b) IN
  /\ after.line = IF b = <<"$">> THEN <<b>> ELSE Proper(text)
  /\ \/ \E s \in Fixes : text = Sentence(s) /\ after.fix = StatusOf(s)
     \/ (\A s \in Fixes : text # Sentence(s)) /\ after.fix = before.fix

AtReader == [line |-> Proper(line), fix |-> latest]
AtWire == [line |-> heard, fix |-> StatusOf(newest)]

Explains(trail) ==
  /\ trail[0] = AtReader
  /\ trail[Len(ring)] = AtWire
  /\ \A i \in 1 .. Len(ring) : Reads(trail[i - 1], ring[i], trail[i])

RingExplained == \E trail \in [0 .. Len(ring) -> ReadStates] : Explains(trail)

LEMMA BegunTyped == Begun \subseteq Seq(Tokens)
<1> SUFFICES ASSUME NEW text \in Begun PROVE text \in Seq(Tokens)
  OBVIOUS
<1>1. PICK s \in Contents, i \in 1 .. 2 : text = SubSeq(Sentence(s), 1, i)
  BY DEF Begun
<1>2. Sentence(s) \in Seq(Tokens) /\ Len(Sentence(s)) = 3
  BY SentenceTyped
<1>3. QED
  BY <1>1, <1>2

LEMMA StatesTyped ==
  ASSUME TypeInv
  PROVE  AtReader \in ReadStates /\ AtWire \in ReadStates
  BY DEF AtReader, AtWire, ReadStates, Proper, StatusOf, Readings, TypeInv, WireTypeOK, ReadTypeOK

\* What the ring takes, the ideal reader reads.
LEMMA TakenIsRead ==
  ASSUME TypeInv, NEW b \in Tokens, Receive(b), pc # "start", Room
  PROVE  Reads(AtWire, b, AtWire')
<1> DEFINE text == Append(heard, b)
<1>1. AtWire.line = heard /\ AtWire.fix = StatusOf(newest)
      /\ AtWire'.line = heard' /\ AtWire'.fix = StatusOf(newest')
  BY DEF AtWire, StatusOf
<1>2. heard' = IF b = <<"$">> THEN <<b>> ELSE Proper(text)
  BY DEF Receive, Proper
<1>3. CASE \A s \in Fixes : text # Sentence(s)
  BY <1>1, <1>2, <1>3 DEF Receive, Reads, AtWire
<1>4. CASE \E s \in Fixes : text = Sentence(s)
  <2>1. newest' \in Fixes /\ text = Sentence(newest')
    BY <1>4 DEF Receive
  <2>2. QED
    BY <1>1, <1>2, <2>1 DEF Reads
<1>5. QED
  BY <1>3, <1>4

\* The code's reader does what the ideal one does.  A line too long, or begun
\* without its "$", is as good as none.
LEMMA ReadAsIdeal ==
  ASSUME TypeInv, ReadByte, NEW after \in ReadStates, Reads(AtReader, Head(ring), after)
  PROVE  after = AtReader'
<1> DEFINE b == Head(ring)
           text == Append(Proper(line), b)
<1>1. /\ line \in Seq(Tokens) /\ b \in Tokens /\ Proper(line) \in Seq(Tokens)
      /\ Len(line) \in Nat /\ LineMax \in Nat /\ 2 <= LineMax
      /\ line = <<>> <=> Len(line) = 0
      /\ <<>> \in Seq(Tokens) /\ Len(<<>>) = 0
  BY GpsConstants, EmptySeq, BegunTyped
     DEF TypeInv, ReadTypeOK, WireTypeOK, ReadByte, Proper
<1>2. /\ after.line = IF b = <<"$">> THEN <<b>> ELSE Proper(text)
      /\ \/ \E s \in Fixes : text = Sentence(s) /\ after.fix = StatusOf(s)
         \/ (\A s \in Fixes : text # Sentence(s)) /\ after.fix = latest
  BY DEF Reads, AtReader
<1>3. <<>> \notin Begun
  <2>1. \A t \in Begun : Len(t) = 1 \/ Len(t) = 2
    BY BegunTyped, BegunShape
  <2>2. <<>> \in Begun => Len(<<>>) = 1 \/ Len(<<>>) = 2
    BY <2>1, Zenon
  <2>3. QED
    BY <2>2
<1>4. line \in Begun <=> \/ Len(line) = 1 /\ line[1] = <<"$">>
                         \/ /\ Len(line) = 2 /\ line[1] = <<"$">>
                            /\ \E s \in Contents : line[2] = <<"text", s>>
  BY <1>1, BegunShape
<1> HIDE DEF b
<1>5. after.line = Proper(line') /\ after.fix = latest'
  <2>1. CASE b = <<"$">>
    <3>1. line' = <<b>> /\ latest' = latest
      BY <2>1 DEF ReadByte, RestartsLine, b
    <3>2. <<b>> \in Begun
      <4>1. <<b>> \in Seq(Tokens) /\ Len(<<b>>) = 1 /\ <<b>>[1] = b
        BY <1>1
      <4>2. QED
        BY <2>1, <4>1, BegunShape
    <3>3. \A s \in Fixes : text # Sentence(s)
      BY <1>1, <2>1, AppendShape, TokensDiffer DEF Contents
    <3>4. QED
      BY <1>2, <2>1, <3>1, <3>2, <3>3 DEF Proper
  <2>2. CASE b # <<"$">> /\ line = <<>>
    <3>1. line' = line /\ latest' = latest
      BY <2>2 DEF ReadByte, RestartsLine, b
    <3>2. text \notin Begun /\ \A s \in Fixes : text # Sentence(s)
      <4>1. Proper(line) = <<>>
        BY <1>1, <1>3, <2>2 DEF Proper
      <4>2. QED
        BY <1>1, <2>2, <4>1, AppendToNone DEF Contents
    <3>3. QED
      BY <1>2, <1>3, <2>2, <3>1, <3>2 DEF Proper
  <2>3. CASE b # <<"$">> /\ line # <<>> /\ b \in Ends
    <3>1. PICK e \in Contents : b = <<"end", e>>
      BY <2>3 DEF Ends
    <3>2. line' = <<>>
      BY <2>3 DEF ReadByte, RestartsLine, b
    <3>3. text \notin Begun
      BY <1>1, <2>3, <3>1, AppendShape, TokensDiffer
    <3>4. after.line = Proper(line')
      BY <1>2, <1>3, <2>3, <3>2, <3>3 DEF Proper
    <3>5. \A s, t \in Contents : Sentence(s) = Sentence(t) => s = t
      BY SentenceTyped, SentenceShape, TokensDiffer
    <3>6. after.fix = latest'
      <4>1. CASE line \in Begun
        <5>1. text = Append(line, b)
          BY <4>1 DEF Proper
        <5>2. CASE Valid(text) = {}
          <6>1. latest' = latest
            BY <2>3, <5>1, <5>2 DEF ReadByte, RestartsLine, b
          <6>2. QED
            BY <1>2, <5>2, <6>1 DEF Valid, Contents
        <5>3. CASE Valid(text) # {}
          <6>1. PICK s \in Valid(text) : latest' = Parsed(s)
            BY <2>3, <5>1, <5>3 DEF ReadByte, RestartsLine, b
          <6>2. s \in Contents /\ text = Sentence(s)
            BY <6>1 DEF Valid
          <6>3. CASE s \in Fixes
            <7>1. after.fix = StatusOf(s)
              BY <1>2, <3>5, <6>2, <6>3 DEF Contents
            <7>2. QED
              BY <6>1, <6>3, <7>1 DEF Parsed, StatusOf, Fixes
          <6>4. CASE s \notin Fixes
            <7>1. s = "other"
              BY <6>2, <6>4 DEF Contents
            <7>2. \A t \in Fixes : text # Sentence(t)
              BY <3>5, <6>2, <6>4 DEF Contents
            <7>3. QED
              BY <1>2, <6>1, <7>1, <7>2 DEF Parsed
          <6>5. QED
            BY <6>3, <6>4
        <5>4. QED
          BY <5>2, <5>3
      <4>2. CASE line \notin Begun
        <5>1. Valid(Append(line, b)) = {}
          BY <1>1, <1>4, <4>2, AppendShape DEF Valid
        <5>2. latest' = latest
          BY <2>3, <5>1 DEF ReadByte, RestartsLine, b
        <5>3. \A s \in Fixes : text # Sentence(s)
          <6>1. Proper(line) = <<>>
            BY <1>1, <4>2 DEF Proper
          <6>2. QED
            BY <1>1, <6>1, AppendToNone DEF Contents
        <5>4. QED
          BY <1>2, <5>2, <5>3
      <4>3. QED
        BY <4>1, <4>2
    <3>7. QED
      BY <3>4, <3>6
  <2>4. CASE b # <<"$">> /\ line # <<>> /\ b \notin Ends
    <3>1. /\ line' = IF Len(line) < LineMax THEN Append(line, b) ELSE <<>>
          /\ latest' = latest
      BY <2>4 DEF ReadByte, RestartsLine, b
    <3>2. \A s \in Fixes : text # Sentence(s)
      BY <1>1, <2>4, AppendShape DEF Ends, Contents
    <3>3. Proper(text) = Proper(line')
      <4>1. CASE line \in Begun /\ Len(line) < LineMax
        BY <3>1, <4>1 DEF Proper
      <4>2. CASE line \in Begun /\ ~ (Len(line) < LineMax)
        <5>1. Len(line) = 2 /\ Proper(line) = line
          <6>1. Proper(line) = line
            BY <4>2 DEF Proper
          <6>2. Len(line) = 1 \/ Len(line) = 2
            BY <1>4, <4>2
          <6>3. PICK n \in Nat : Len(line) = n
            BY <1>1
          <6>4. QED
            BY <1>1, <4>2, <6>1, <6>2, <6>3
        <5>2. text \notin Begun
          BY <1>1, <5>1, AppendShape
        <5>3. QED
          BY <1>3, <3>1, <4>2, <5>2 DEF Proper
      <4>3. CASE line \notin Begun
        <5>1. text \notin Begun
          <6>1. Proper(line) = <<>>
            BY <1>1, <4>3 DEF Proper
          <6>2. QED
            BY <1>1, <2>4, <6>1, AppendToNone
        <5>2. Append(line, b) \notin Begun
          BY <1>1, <1>4, <2>4, <4>3, AppendShape
        <5>3. QED
          BY <1>3, <3>1, <5>1, <5>2 DEF Proper
      <4>4. QED
        BY <4>1, <4>2, <4>3
    <3>4. QED
      BY <1>2, <2>4, <3>1, <3>2, <3>3
  <2>5. QED
    BY <2>1, <2>2, <2>3, <2>4
<1>6. QED
  BY <1>5 DEF ReadStates, AtReader

LEMMA RingStart == Init => RingExplained
<1> SUFFICES ASSUME Init PROVE RingExplained
  OBVIOUS
<1>1. Len(ring) = 0 /\ AtReader = AtWire /\ AtReader \in ReadStates
  BY TypeStart, StatesTyped, EmptySeq
     DEF Init, AtReader, AtWire, Proper, StatusOf, NoFix
<1> DEFINE trail == [i \in 0 .. 0 |-> AtReader]
<1>2. trail \in [0 .. 0 -> ReadStates] /\ trail[0] = AtReader
  BY <1>1
<1> HIDE DEF trail
<1>3. Explains(trail)
  <2>1. \A i \in 1 .. 0 : FALSE
    OBVIOUS
  <2>2. QED
    BY <1>1, <1>2, <2>1 DEF Explains
<1>4. QED
  BY <1>1, <1>2, <1>3 DEF RingExplained

LEMMA ByteExplained ==
  ASSUME TypeInv, RingExplained, NEW b \in Tokens, Receive(b)
  PROVE  RingExplained'
<1>1. /\ ring \in Seq(Tokens) /\ AtWire' \in ReadStates
      /\ UNCHANGED <<line, latest>> /\ AtReader' = AtReader
  <2>1. latest \in Readings
    BY DEF TypeInv, ReadTypeOK
  <2>2. StatusOf(newest') \in Readings
    BY DEF StatusOf, Readings
  <2>3. QED
    BY <2>2, ReceiveTyped DEF AtWire, AtReader, ReadStates, TypeInv, WireTypeOK, StatusOf
<1>2. PICK trail \in [0 .. Len(ring) -> ReadStates] : Explains(trail)
  BY DEF RingExplained
<1>3. CASE ~ (pc # "start" /\ Room)
  <2>1. UNCHANGED <<ring, heard, newest>>
    BY <1>3 DEF Receive
  <2>2. AtWire' = AtWire
    BY <2>1 DEF AtWire
  <2>3. QED
    BY <1>1, <1>2, <2>1, <2>2 DEF RingExplained, Explains
<1>4. CASE pc # "start" /\ Room
  <2>1. ring' = Append(ring, b) /\ Reads(AtWire, b, AtWire')
    BY <1>4, TakenIsRead DEF Receive
  <2>2. PICK n \in Nat : Len(ring) = n
    BY <1>1
  <2>3. Len(ring') = n + 1 /\ ring'[n + 1] = b /\ \A i \in 1 .. n : ring'[i] = ring[i]
    BY <1>1, <2>1, <2>2
  <2> DEFINE longer == [i \in 0 .. n + 1 |-> IF i = n + 1 THEN AtWire' ELSE trail[i]]
  <2>4. longer \in [0 .. n + 1 -> ReadStates]
    BY <1>1, <1>2, <2>2
  <2>5. /\ longer[0] = AtReader'
        /\ longer[n + 1] = AtWire'
        /\ longer[n] = AtWire
    BY <1>1, <1>2, <2>2 DEF Explains
  <2>6. ASSUME NEW i \in 1 .. n + 1 PROVE Reads(longer[i - 1], ring'[i], longer[i])
    <3>1. CASE i = n + 1
      BY <2>1, <2>3, <2>5, <3>1
    <3>2. CASE i # n + 1
      <4>1. i \in 1 .. n /\ longer[i - 1] = trail[i - 1] /\ longer[i] = trail[i]
        BY <2>2, <3>2
      <4>2. QED
        BY <1>2, <2>2, <2>3, <4>1 DEF Explains
    <3>3. QED
      BY <3>1, <3>2
  <2> HIDE DEF longer
  <2>7. QED
    BY <2>3, <2>4, <2>5, <2>6 DEF RingExplained, Explains
<1>5. QED
  BY <1>3, <1>4

LEMMA ReadExplained ==
  ASSUME TypeInv, RingExplained, ReadByte
  PROVE  RingExplained'
<1>1. /\ ring \in Seq(Tokens) /\ ring # <<>> /\ ring' = Tail(ring)
      /\ UNCHANGED <<heard, newest>> /\ AtWire' = AtWire
  BY DEF TypeInv, WireTypeOK, ReadByte, AtWire
<1>2. PICK trail \in [0 .. Len(ring) -> ReadStates] : Explains(trail)
  BY DEF RingExplained
<1>3. PICK n \in Nat : Len(ring) = n + 1
  <2>1. Len(ring) \in Nat \ {0}
    BY <1>1, EmptySeq
  <2>2. PICK k \in Nat \ {0} : Len(ring) = k
    BY <2>1
  <2>3. k - 1 \in Nat /\ k = (k - 1) + 1
    OBVIOUS
  <2>4. QED
    BY <2>2, <2>3
<1>4. Len(ring') = n /\ Head(ring) = ring[1] /\ \A i \in 1 .. n : ring'[i] = ring[i + 1]
  BY <1>1, <1>3
<1>5. trail[1] = AtReader'
  <2>1. trail[1] \in ReadStates /\ Reads(trail[0], ring[1], trail[1]) /\ trail[0] = AtReader
    <3>1. 1 \in 1 .. Len(ring) /\ 1 \in 0 .. Len(ring) /\ 1 - 1 = 0
      BY <1>3
    <3>2. QED
      BY <1>2, <3>1 DEF Explains
  <2>2. QED
    BY <1>4, <2>1, ReadAsIdeal
<1> DEFINE shorter == [i \in 0 .. n |-> trail[i + 1]]
<1>6. shorter \in [0 .. n -> ReadStates] /\ shorter[0] = AtReader' /\ shorter[n] = AtWire'
  BY <1>1, <1>2, <1>3, <1>5 DEF Explains
<1>7. ASSUME NEW i \in 1 .. n PROVE Reads(shorter[i - 1], ring'[i], shorter[i])
  <2>1. /\ i + 1 \in 1 .. Len(ring) /\ (i + 1) - 1 = i /\ (i - 1) + 1 = i
        /\ i - 1 \in 0 .. n /\ i \in 0 .. n
    BY <1>3
  <2>2. shorter[i - 1] = trail[i] /\ shorter[i] = trail[i + 1]
    BY <2>1
  <2>3. Reads(trail[i], ring[i + 1], trail[i + 1])
    BY <1>2, <2>1 DEF Explains
  <2>4. QED
    BY <1>4, <2>2, <2>3
<1> HIDE DEF shorter
<1>8. QED
  BY <1>4, <1>6, <1>7 DEF RingExplained, Explains

RingInv == TypeInv /\ RingExplained

LEMMA RingStep == RingInv /\ [Next]_vars => RingInv'
<1> SUFFICES ASSUME RingInv, [Next]_vars PROVE RingExplained'
  BY TypeStep DEF RingInv
<1> USE DEF wireVars, readVars, taskVars
<1>1. TypeInv /\ RingExplained
  BY DEF RingInv
<1>2. ASSUME UNCHANGED <<ring, heard, newest, line, latest>> PROVE RingExplained'
  <2>1. AtReader' = AtReader /\ AtWire' = AtWire /\ ring' = ring
    BY <1>2 DEF AtReader, AtWire
  <2>2. QED
    BY <1>1, <2>1 DEF RingExplained, Explains
<1>3. ASSUME NEW s \in Contents, StartsSentence(s) PROVE RingExplained'
  BY <1>1, <1>3, SentenceTyped, ByteExplained DEF StartsSentence
<1>4. CASE GoesOn
  <2>1. Head(sending) \in Tokens
    BY <1>1, <1>4 DEF GoesOn, TypeInv, WireTypeOK
  <2>2. QED
    BY <1>1, <1>4, <2>1, ByteExplained DEF GoesOn
<1>5. CASE ReadByte
  BY <1>1, <1>5, ReadExplained
<1>6. CASE Unplug \/ \E s \in Contents, k \in 2 .. 4 : Plug(s, k)
  BY <1>2, <1>6 DEF Unplug, Plug
<1>7. CASE Start \/ Wake \/ PublishFix \/ KickSupervisor \/ GetsStuck \/ GetsFree
  BY <1>2, <1>7 DEF Start, Wake, PublishFix, KickSupervisor, GetsStuck, GetsFree
<1>8. CASE GpsSweep \/ GpsTick \/ UNCHANGED vars
  BY <1>2, <1>8 DEF GpsSweep, GpsTick, vars
<1>9. QED
  BY <1>3, <1>4, <1>5, <1>6, <1>7, <1>8 DEF Next

LEMMA RingRead == RingInv => WholeSentencesCount
<1> SUFFICES ASSUME RingInv, ring = <<>> PROVE latest = StatusOf(newest)
  BY DEF WholeSentencesCount
<1>1. PICK trail \in [0 .. Len(ring) -> ReadStates] : Explains(trail)
  BY DEF RingInv, RingExplained
<1>2. Len(ring) = 0
  BY EmptySeq
<1>3. AtReader = AtWire
  BY <1>1, <1>2 DEF Explains
<1>4. QED
  BY <1>3 DEF AtReader, AtWire

(* Whatever a full ring of any size has dropped, and wherever the module   *)
(* was plugged in, the last GGA taken whole decides the status.            *)
THEOREM WholeSentencesDecide == Spec => []WholeSentencesCount
<1>1. Init => RingInv
  BY TypeStart, RingStart DEF RingInv
<1>2. QED
  BY <1>1, RingStep, RingRead, PTL DEF Spec

(***************************************************************************)
(* The task keeps to the promise of the supervisor: registration, passes,  *)
(* substitutions and time are steps of DeadlineMonitor, every byte is a    *)
(* stutter.                                                                *)
(***************************************************************************)

LEMMA MonitorStep == TypeInv /\ [Next]_vars => [MonitorNext]_mvars
<1> SUFFICES ASSUME TypeInv, [Next]_vars PROVE [MonitorNext]_mvars
  OBVIOUS
<1> USE DEF wireVars, readVars, taskVars
<1>1. "gps" \in Modules /\ latest \in Value
  BY GpsConstants DEF TypeInv, ReadTypeOK
<1>2. ASSUME NEW b, Receive(b) PROVE UNCHANGED mvars
  BY <1>2 DEF Receive
<1>3. CASE StartsSentence("position") \/ StartsSentence("no position") \/ StartsSentence("other")
  BY <1>2, <1>3 DEF StartsSentence
<1>4. CASE GoesOn
  BY <1>2, <1>4 DEF GoesOn
<1>5. CASE \/ Unplug \/ Wake \/ ReadByte \/ GetsStuck \/ GetsFree
           \/ \E s \in Contents, k \in 2 .. 4 : Plug(s, k)
  BY <1>5 DEF Unplug, Wake, ReadByte, GetsStuck, GetsFree, Plug
<1>6. CASE Start
  BY <1>1, <1>6 DEF Start, MonitorNext
<1>7. CASE PublishFix
  BY <1>1, <1>7 DEF PublishFix, MonitorNext
<1>8. CASE KickSupervisor
  BY <1>1, <1>8 DEF KickSupervisor, MonitorNext
<1>9. CASE GpsSweep \/ GpsTick
  BY <1>9 DEF GpsSweep, GpsTick, MonitorNext
<1>10. CASE UNCHANGED vars
  BY <1>10 DEF vars
<1>11. QED
  BY <1>3, <1>4, <1>5, <1>6, <1>7, <1>8, <1>9, <1>10 DEF Next, Contents, Fixes

(* Whatever the module sends and wherever the task gets stuck, the queue   *)
(* and its age behave as DeadlineMonitor says of a supervised task.        *)
THEOREM GpsImplementsMonitor == Spec => MonitorSpec
<1>1. Init => MonitorInit
  BY DEF Init
<1>2. QED
  BY <1>1, TypeStart, TypeStep, MonitorStep, PTL DEF Spec, MonitorSpec

(***************************************************************************)
(* FixFollows: while the queue disagrees with the last GGA, a pass of      *)
(* gps_task is outstanding, for as long as it has been calm at least, less *)
(* what was left of the pass before.  Past the deadline there is no calm,  *)
(* and so none at a substitution.                                          *)
(***************************************************************************)

InPass == pc \in {"drain", "kick"}
Follows == queue["gps"] = StatusOf(newest)

PassOutstanding ==
  \/ Follows
  \/ /\ calm + Period <= age["gps"] + Deadline
     /\ pc = "kick" => calm + Period <= age["gps"]
LateIsNotCalm == age["gps"] > Deadline => calm = 0
PassIsDue == InPass => age["gps"] >= Period
StartedWatched == IF pc = "start" THEN calm = 0 ELSE "gps" \in watched

FollowInv == PassOutstanding /\ LateIsNotCalm /\ PassIsDue /\ StartedWatched
FixInv == RingInv /\ FollowInv

LEMMA FixStart == Init => FixInv
<1> SUFFICES ASSUME Init PROVE FollowInv
  BY TypeStart, RingStart DEF FixInv, RingInv
<1>1. queue["gps"] = StatusOf(newest) /\ calm = 0 /\ pc = "start"
  BY GpsConstants DEF Init, MonitorInit, StatusOf, NoFix
<1>2. QED
  BY <1>1 DEF FollowInv, PassOutstanding, LateIsNotCalm, PassIsDue, StartedWatched,
              Follows, InPass

LEMMA FixStep == FixInv /\ [Next]_vars => FixInv'
<1> SUFFICES ASSUME FixInv, [Next]_vars PROVE FollowInv'
  BY RingStep DEF FixInv
<1> USE DEF wireVars, readVars, taskVars
<1>1. /\ RingInv /\ TypeInv /\ PassOutstanding /\ LateIsNotCalm /\ PassIsDue /\ StartedWatched
      /\ "gps" \in Modules /\ age \in [Modules -> Nat] /\ age["gps"] \in Nat
      /\ queue \in [Modules -> Readings] /\ calm \in Nat
      /\ pc \in {"start", "delay", "drain", "kick"}
      /\ Period \in Nat /\ Deadline \in Nat /\ Period <= Deadline
      /\ Deadline <= MaxPeriod["gps"] /\ MaxPeriod["gps"] \in Nat
      /\ AgeCap \in Nat /\ MaxPeriod["gps"] < AgeCap
  BY GpsAssumption, MonitorAssumption
     DEF FixInv, FollowInv, RingInv, TypeInv, MonitorTypeOK, TaskTypeOK
\* What is set back to no calm is owed nothing.
<1>2. ASSUME calm' = 0, age'["gps"] \in Nat, PassIsDue'
      PROVE  PassOutstanding' /\ LateIsNotCalm'
  BY <1>1, <1>2 DEF PassOutstanding, LateIsNotCalm, PassIsDue, InPass
<1>3. ASSUME UNCHANGED <<age, pc, watched>>, calm' = 0 PROVE FollowInv'
  <2>1. PassIsDue' /\ StartedWatched' /\ age'["gps"] \in Nat
    BY <1>1, <1>3 DEF PassIsDue, StartedWatched, InPass
  <2>2. QED
    BY <1>2, <1>3, <2>1 DEF FollowInv
<1>4. ASSUME UNCHANGED <<queue, watched, age, pc, newest, calm>> PROVE FollowInv'
  BY <1>1, <1>4 DEF FollowInv, PassOutstanding, LateIsNotCalm, PassIsDue, StartedWatched,
                    Follows, InPass
<1>5. ASSUME NEW b \in Tokens, Receive(b) PROVE FollowInv'
  <2>1. UNCHANGED <<queue, watched, age, pc>>
    BY <1>1, <1>5, ReceiveTyped DEF mvars
  <2>2. calm' = 0 \/ (newest' = newest /\ calm' = calm)
    BY <1>5 DEF Receive
  <2>3. QED
    BY <1>3, <1>4, <2>1, <2>2
<1>6. ASSUME NEW s \in Contents, StartsSentence(s) PROVE FollowInv'
  BY <1>5, <1>6, SentenceTyped DEF StartsSentence
<1>7. CASE GoesOn
  <2>1. Head(sending) \in Tokens
    BY <1>1, <1>7 DEF GoesOn, TypeInv, WireTypeOK
  <2>2. QED
    BY <1>5, <1>7, <2>1 DEF GoesOn
<1>8. CASE Unplug
  BY <1>3, <1>8 DEF Unplug, mvars
<1>9. CASE Start
  <2>1. calm' = 0 /\ age'["gps"] = 0 /\ "gps" \in watched' /\ pc' = "delay"
    BY <1>1, <1>9 DEF Start, Watch, StartedWatched
  <2>2. PassIsDue' /\ StartedWatched'
    BY <2>1 DEF PassIsDue, StartedWatched, InPass
  <2>3. QED
    BY <1>2, <2>1, <2>2 DEF FollowInv
<1>10. CASE Wake
  <2>1. /\ UNCHANGED <<queue, watched, age, newest, calm>>
        /\ pc = "delay" /\ pc' = "drain" /\ age["gps"] >= Period
    BY <1>10 DEF Wake, mvars
  <2>2. QED
    BY <1>1, <2>1 DEF FollowInv, PassOutstanding, LateIsNotCalm, PassIsDue, StartedWatched,
                      Follows, InPass
<1>11. CASE PublishFix
  <2>1. latest = StatusOf(newest)
    BY <1>1, <1>11, RingRead DEF PublishFix, WholeSentencesCount
  <2>2. /\ queue'["gps"] = latest
        /\ UNCHANGED <<newest, calm, watched, age>> /\ pc = "drain" /\ pc' = "kick"
    BY <1>1, <1>11 DEF PublishFix, Publish
  <2>3. Follows'
    BY <2>1, <2>2 DEF Follows, StatusOf
  <2>4. QED
    BY <1>1, <2>2, <2>3 DEF FollowInv, PassOutstanding, LateIsNotCalm, PassIsDue,
                            StartedWatched, InPass
<1>12. CASE KickSupervisor
  <2>1. /\ UNCHANGED <<queue, newest, calm, watched>>
        /\ age'["gps"] = 0 /\ pc = "kick" /\ pc' = "delay"
    BY <1>1, <1>12 DEF KickSupervisor, Kick
  \* Late, it was not calm; in time, the age is at most the deadline.
  <2>2. Follows \/ calm + Period <= Deadline
    BY <1>1, <2>1 DEF PassOutstanding, LateIsNotCalm
  <2>3. PassOutstanding'
    BY <1>1, <2>1, <2>2 DEF PassOutstanding, Follows, StatusOf
  <2>4. QED
    BY <1>1, <2>1, <2>3 DEF FollowInv, LateIsNotCalm, PassIsDue, StartedWatched, InPass
<1>13. CASE GetsStuck \/ GetsFree \/ ReadByte
  BY <1>4, <1>13 DEF GetsStuck, GetsFree, ReadByte, mvars
<1>14. CASE GpsSweep
  <2>1. UNCHANGED <<watched, age, newest, calm, pc>>
    BY <1>14 DEF GpsSweep, Sweep
  <2>2. queue'["gps"] = queue["gps"] \/ Overdue("gps")
    BY <1>1, <1>14 DEF GpsSweep, Sweep
  <2>3. CASE Overdue("gps")
    <3>1. calm = 0
      BY <1>1, <2>3 DEF Overdue, LateIsNotCalm
    <3>2. QED
      BY <1>3, <2>1, <3>1
  <2>4. CASE queue'["gps"] = queue["gps"]
    BY <1>1, <2>1, <2>4 DEF FollowInv, PassOutstanding, LateIsNotCalm, PassIsDue,
                            StartedWatched, Follows, InPass, StatusOf
  <2>5. QED
    BY <2>2, <2>3, <2>4
<1>15. CASE GpsTick
  <2>1. /\ "gps" \in watched /\ age'["gps"] = Older(age["gps"])
        /\ UNCHANGED <<queue, watched, newest, pc>> /\ pc # "start"
    BY <1>1, <1>15 DEF GpsTick, Tick, StartedWatched
  <2>2. PassIsDue' /\ StartedWatched' /\ age'["gps"] \in Nat
    BY <1>1, <2>1 DEF Older, PassIsDue, StartedWatched, InPass
  <2>3. CASE stuck
    BY <1>2, <1>15, <2>2, <2>3 DEF GpsTick, FollowInv
  <2>4. CASE ~ stuck
    <3>1. age["gps"] < Deadline /\ age'["gps"] = age["gps"] + 1
      BY <1>1, <1>15, <2>1, <2>4 DEF GpsTick, Older
    <3>2. calm' <= calm + 1 /\ calm' \in Nat
      BY <1>1, <1>15, <2>4 DEF GpsTick, Capped
    <3>3. PassOutstanding' /\ LateIsNotCalm'
      BY <1>1, <2>1, <3>1, <3>2 DEF PassOutstanding, LateIsNotCalm, Follows, StatusOf
    <3>4. QED
      BY <2>2, <3>3 DEF FollowInv
  <2>5. QED
    BY <2>3, <2>4
<1>16. CASE UNCHANGED vars \/ \E s \in Contents, k \in 2 .. 4 : Plug(s, k)
  BY <1>4, <1>16 DEF vars, mvars, Plug
<1>17. QED
  BY <1>6, <1>7, <1>8, <1>9, <1>10, <1>11, <1>12, <1>13, <1>14, <1>15, <1>16 DEF Next

(* gps_get_latest() follows the last whole GGA within what was left of one *)
(* pass and the next, whatever the supervisor substituted before.          *)
THEOREM FixIsFollowed == Spec => []FixFollows
<1>1. FixInv => FixFollows
  <2>1. SUFFICES ASSUME FixInv, calm > FollowBound PROVE queue["gps"] = StatusOf(newest)
    BY DEF FixFollows
  <2>2. /\ calm \in Nat /\ age["gps"] \in Nat
        /\ Deadline \in Nat /\ Period \in Nat /\ Period <= Deadline
    BY <2>1, GpsAssumption, MonitorAssumption
       DEF FixInv, RingInv, TypeInv, MonitorTypeOK, TaskTypeOK
  <2>3. calm > Deadline - Period + Deadline
    BY <2>1 DEF FollowBound
  <2>4. QED
    BY <2>1, <2>2, <2>3 DEF FixInv, FollowInv, PassOutstanding, LateIsNotCalm, Follows
<1>2. QED
  BY <1>1, FixStart, FixStep, PTL DEF Spec

=============================================================================

---------------------------- MODULE SessionProofs ----------------------------
(***************************************************************************)
(* Theorems of Session.                                                    *)
(***************************************************************************)
EXTENDS Session, FiniteSetTheorems, WellFoundedInduction, TLAPS

(* Only a frame whose reconstructed counter is its true one moves the      *)
(* counters, and it moves both.                                            *)
LEMMA ReceptionAgrees == CountersAgree /\ ProcessRadioRxDone => CountersAgree'
<1> SUFFICES ASSUME CountersAgree, ProcessRadioRxDone PROVE CountersAgree'
    OBVIOUS
<1> DEFINE counter(f) == CurrentDown(FCntDown, f.mic % FCntMod)
           status(f) == FCntStatus(FCntDown, f.mic % FCntMod)
           ok(f) == /\ status(f) = "SUCCESS"
                    /\ CheckFCntDown(cryptoDown, counter(f))
                    /\ counter(f) = f.mic
<1>1. PICK f \in air : IF ok(f) THEN Accept(f, counter(f)) ELSE Reject(f, status(f))
      BY DEF ProcessRadioRxDone
<1>2. CASE ok(f)
  <2>1. FCntDown' = counter(f) /\ cryptoDown' = counter(f) /\ accepted' = f.mic
        BY <1>1, <1>2 DEF Accept
  <2>2. QED  BY <2>1, <1>2 DEF CountersAgree
<1>3. CASE ~ok(f)
  <2>1. UNCHANGED <<FCntDown, cryptoDown, accepted>>
        BY <1>1, <1>3 DEF Reject
  <2>2. QED  BY <2>1 DEF CountersAgree
<1>4. QED  BY <1>2, <1>3

(* No step but a reception touches a counter, so the counter handler and   *)
(* the crypto layer never disagree and hold the counter of the last        *)
(* downlink accepted, whatever the widths, the gap and the losses.         *)
THEOREM CountersTrue == Spec => []CountersAgree
<1>1. Init => CountersAgree
      BY DEF Init, CountersAgree
<1>2. CountersAgree /\ [Next]_vars => CountersAgree'
  <2> SUFFICES ASSUME CountersAgree, [Next]_vars PROVE CountersAgree'
      OBVIOUS
  <2> USE DEF CountersAgree
  <2>1. ASSUME NEW size \in AppSizes, NEW confirmed \in BOOLEAN, Send(size, confirmed)
        PROVE  CountersAgree'
        BY <2>1 DEF Send
  <2>2. CASE LinkCheckReq
        BY <2>2 DEF LinkCheckReq
  <2>3. CASE Retransmit
        BY <2>3 DEF Retransmit, macVars
  <2>4. CASE StopRetransmission
        BY <2>4 DEF StopRetransmission, macVars
  <2>5. CASE ProcessRadioRxDone
        BY <2>5, ReceptionAgrees
  <2>6. CASE LoseUplink
        BY <2>6 DEF LoseUplink, macVars
  <2>7. ASSUME NEW givesUp \in BOOLEAN, HearUplink(givesUp)
        PROVE  CountersAgree'
        BY <2>7 DEF HearUplink, macVars
  <2>8. ASSUME NEW reqs \in Requests, NEW confirmed \in BOOLEAN, Downlink(reqs, confirmed)
        PROVE  CountersAgree'
        BY <2>8 DEF Downlink, macVars
  <2>9. CASE RepeatDownlink
        BY <2>9 DEF RepeatDownlink, macVars
  <2>10. CASE LoseDownlink
        BY <2>10 DEF LoseDownlink, macVars
  <2>11. CASE UNCHANGED vars
        BY <2>11 DEF vars, macVars
  <2>12. QED
        BY <2>1, <2>2, <2>3, <2>4, <2>5, <2>6, <2>7, <2>8, <2>9, <2>10, <2>11 DEF Next
<1>3. QED  BY <1>1, <1>2, PTL DEF Spec

-----------------------------------------------------------------------------
(* The invariant of the acknowledgements. *)

LEMMA Bounds == MaxDown \in Nat /\ MaxDown > 0 /\ Initial \in Nat /\ MaxDown <= Initial
<1>1. Initial \in Nat
      BY FCntAssumption DEF Initial
<1>2. MaxDown \in 1 .. Initial
      BY SessionAssumption
<1>3. QED  BY <1>1, <1>2

LEMMA InitIInv == Init => IInv
<1> SUFFICES ASSUME Init PROVE IInv
    OBVIOUS
<1>1. /\ server = [next |-> 0, mayAnswer |-> FALSE, awaited |-> {}] /\ air = {}
      /\ up = NoUplink /\ SrvAckRequested = FALSE /\ LastRxMic = Initial /\ phase = "idle"
      BY DEF Init
<1>2. ServerOK
      BY <1>1, Bounds DEF ServerOK
<1>3. ServerAwaitsLast /\ OwedIsAccepted /\ up.confirmed \in BOOLEAN
      BY <1>1 DEF NoUplink, ServerAwaitsLast, OwedIsAccepted
<1>4. WindowsFollowUplink
      BY <1>1 DEF WindowsFollowUplink
<1>5. QED  BY <1>1, <1>2, <1>3, <1>4 DEF IInv

LEMMA SendKeepsIInv ==
  ASSUME IInv, NEW size \in AppSizes, NEW confirmed \in BOOLEAN, Send(size, confirmed)
  PROVE  IInv'
<1>1. /\ phase = "idle" /\ phase' = "tx" /\ SrvAckRequested' = FALSE
      /\ up'.fresh = TRUE /\ up'.ack = SrvAckRequested
      /\ DOMAIN up' = DOMAIN NoUplink /\ up'.confirmed \in BOOLEAN
      /\ UNCHANGED <<LastRxMic, server, air, accepted>>
      BY DEF Send, NoUplink, ConfirmedSent
<1>2. QED
      BY <1>1 DEF IInv, ServerOK, ServerAwaitsLast, WindowsFollowUplink, OwedIsAccepted

(* The frame in the air is lost, or the windows close. *)
LEMMA CloseKeepsIInv ==
  ASSUME IInv, Retransmit \/ StopRetransmission \/ LoseDownlink
  PROVE  IInv'
<1>1. /\ air' = {} /\ UNCHANGED <<SrvAckRequested, LastRxMic, accepted>>
      /\ server'.next = server.next /\ server'.awaited = server.awaited
      /\ ServerOK'
  <2>1. CASE LoseDownlink
        BY <2>1 DEF LoseDownlink, macVars, IInv, ServerOK
  <2>2. CASE Retransmit \/ StopRetransmission
        BY <2>2 DEF Retransmit, StopRetransmission, CloseWindows, macVars, IInv, ServerOK
  <2>3. QED  BY <2>1, <2>2
<1>2. \/ phase' = "tx" /\ phase = "rx" /\ up' = up /\ ~server'.mayAnswer
      \/ phase' = "idle" /\ phase = "rx" /\ up' = NoUplink /\ ~server'.mayAnswer
      \/ UNCHANGED <<phase, up, server>>
  <2>1. CASE LoseDownlink
        BY <2>1 DEF LoseDownlink, txVars
  <2>2. CASE Retransmit \/ StopRetransmission
        BY <2>2 DEF Retransmit, StopRetransmission, CloseWindows, EndUplink, IInv, ServerOK
  <2>3. QED  BY <2>1, <2>2
<1>3. DOMAIN up' = DOMAIN NoUplink /\ up'.confirmed \in BOOLEAN
  <2>1. NoUplink.confirmed \in BOOLEAN
        BY DEF NoUplink
  <2>2. up' = up \/ up' = NoUplink
        BY <1>2
  <2>3. QED  BY <2>1, <2>2 DEF IInv
<1>4. ServerAwaitsLast'
      BY <1>1 DEF IInv, ServerAwaitsLast
<1>5. WindowsFollowUplink'
      BY <1>1, <1>2 DEF IInv, WindowsFollowUplink
<1>6. NoUplink.fresh = FALSE
      BY DEF NoUplink
<1>7. OwedIsAccepted'
      BY <1>1, <1>2, <1>6 DEF IInv, OwedIsAccepted
<1>8. QED  BY <1>1, <1>2, <1>3, <1>4, <1>5, <1>6, <1>7 DEF IInv

LEMMA LossKeepsIInv == ASSUME IInv, LoseUplink \/ LinkCheckReq PROVE IInv'
<1>1. UNCHANGED <<SrvAckRequested, LastRxMic, accepted, up, server, air>>
      BY DEF LoseUplink, LinkCheckReq, macVars, txVars
<1>2. phase' = phase \/ (phase = "tx" /\ phase' = "rx")
      BY DEF LoseUplink, LinkCheckReq, txVars
<1>3. ServerOK' /\ ServerAwaitsLast' /\ WindowsFollowUplink' /\ OwedIsAccepted'
      BY <1>1, <1>2 DEF IInv, ServerOK, ServerAwaitsLast, WindowsFollowUplink, OwedIsAccepted
<1>4. QED  BY <1>1, <1>2, <1>3 DEF IInv

(* An acknowledgement, or the server giving up, leaves nothing awaited; a    *)
(* copy of a frame that was heard before changes nothing of it.              *)
LEMMA HearingKeepsIInv ==
  ASSUME IInv, NEW givesUp \in BOOLEAN, HearUplink(givesUp)
  PROVE  IInv'
<1>1. /\ UNCHANGED <<SrvAckRequested, LastRxMic, accepted, air>>
      /\ phase = "tx" /\ phase' = "rx" /\ air = {}
      /\ up'.fresh = FALSE /\ DOMAIN up' = DOMAIN NoUplink /\ up'.confirmed = up.confirmed
      BY DEF HearUplink, macVars, IInv, WindowsFollowUplink, NoUplink
<1>2. /\ server'.next = server.next
      /\ server'.awaited = server.awaited \/ (server'.awaited = {} /\ up.fresh)
      /\ ServerOK'
      BY <1>1 DEF HearUplink, IInv, ServerOK
<1>3. ServerAwaitsLast' /\ WindowsFollowUplink' /\ OwedIsAccepted'
      BY <1>1, <1>2 DEF IInv, ServerAwaitsLast, WindowsFollowUplink, OwedIsAccepted
<1>4. QED  BY <1>1, <1>2, <1>3 DEF IInv

(* Nothing is owed when the server sends a new downlink, which has a counter *)
(* of its own.                                                               *)
LEMMA DownlinkKeepsIInv ==
  ASSUME IInv, NEW reqs \in Requests, NEW confirmed \in BOOLEAN, Downlink(reqs, confirmed)
  PROVE  IInv'
<1> DEFINE f == [mic |-> server.next, confirmed |-> confirmed, ack |-> up.confirmed, reqs |-> reqs]
<1>1. /\ UNCHANGED <<SrvAckRequested, LastRxMic, accepted, up, phase>>
      /\ phase = "rx" /\ server.mayAnswer /\ server.awaited = {} /\ server.next < MaxDown
      /\ air' = {f}
      /\ server' = [next |-> server.next + 1, mayAnswer |-> FALSE,
                    awaited |-> IF confirmed THEN air' ELSE {}]
      BY DEF Downlink, macVars, txVars
<1>2. server.next \in Nat /\ server.next + 1 \in 0 .. MaxDown /\ f \in Frames
      BY <1>1, Bounds DEF IInv, ServerOK, Frames
<1>3. ServerOK'
      BY <1>1, <1>2 DEF ServerOK
<1>4. ~up.fresh /\ ~SrvAckRequested
      BY <1>1 DEF IInv, WindowsFollowUplink
<1>5. f.mic = server.next /\ f.confirmed = confirmed
      OBVIOUS
<1>6. ServerAwaitsLast' /\ WindowsFollowUplink'
      BY <1>1, <1>2, <1>4, <1>5 DEF ServerAwaitsLast, WindowsFollowUplink
<1>7. LastRxMic # server.next
      BY <1>1, <1>2, Bounds DEF IInv
<1>8. OwedIsAccepted'
      BY <1>1, <1>4, <1>5, <1>7 DEF OwedIsAccepted
<1>9. LastRxMic' = Initial' \/ LastRxMic' \in 0 .. server'.next - 1
      BY <1>1, <1>2 DEF IInv, Initial
<1>10. QED  BY <1>1, <1>2, <1>3, <1>4, <1>5, <1>6, <1>8, <1>9 DEF IInv

LEMMA RepeatKeepsIInv == ASSUME IInv, RepeatDownlink PROVE IInv'
<1>1. /\ UNCHANGED <<SrvAckRequested, LastRxMic, accepted, up, phase>>
      /\ phase = "rx" /\ server.mayAnswer
      /\ air' = server.awaited
      /\ server'.next = server.next /\ server'.awaited = server.awaited /\ ~server'.mayAnswer
      /\ ServerOK'
      BY DEF RepeatDownlink, macVars, txVars, IInv, ServerOK
<1>2. ServerAwaitsLast'
      BY <1>1 DEF IInv, ServerAwaitsLast
<1>3. WindowsFollowUplink' /\ OwedIsAccepted'
      BY <1>1 DEF IInv, WindowsFollowUplink, OwedIsAccepted
<1>4. \A f \in air' : f.mic < server'.next
      BY <1>1 DEF IInv, ServerAwaitsLast, ServerOK
<1>5. QED  BY <1>1, <1>2, <1>3, <1>4 DEF IInv

(* A confirmed downlink that is accepted is the one awaited; one that is     *)
(* rejected is acknowledged only if it was the last accepted.                *)
LEMMA ReceptionKeepsIInv == ASSUME IInv, ProcessRadioRxDone PROVE IInv'
<1> DEFINE counter(f) == CurrentDown(FCntDown, f.mic % FCntMod)
           status(f) == FCntStatus(FCntDown, f.mic % FCntMod)
           ok(f) == /\ status(f) = "SUCCESS"
                    /\ CheckFCntDown(cryptoDown, counter(f))
                    /\ counter(f) = f.mic
<1>1. PICK f \in air :
        /\ phase = "rx"
        /\ IF ok(f) THEN Accept(f, counter(f)) ELSE Reject(f, status(f))
        /\ \/ EndUplink
           \/ /\ up' = [up EXCEPT !.carried =
                                {s \in @ : ok(f) => StickyKept(f).slot[s].CID # NoCid}]
              /\ UNCHANGED <<phase, trials>>
        /\ air' = {} /\ server' = server
      BY DEF ProcessRadioRxDone
<1>2. /\ DOMAIN up' = DOMAIN NoUplink /\ up'.confirmed \in BOOLEAN
      /\ up'.fresh = FALSE
      /\ ~server.mayAnswer /\ ~up.fresh
  <2>1. ~server.mayAnswer /\ ~up.fresh
        BY <1>1 DEF IInv, WindowsFollowUplink
  <2>2. CASE EndUplink
        BY <2>1, <2>2 DEF EndUplink, NoUplink
  <2>3. CASE ~EndUplink
        BY <1>1, <2>1, <2>3 DEF IInv, NoUplink
  <2>4. QED  BY <2>1, <2>2, <2>3
<1>3. ServerOK' /\ ServerAwaitsLast' /\ WindowsFollowUplink'
      BY <1>1, <1>2 DEF IInv, ServerOK, ServerAwaitsLast, WindowsFollowUplink
<1>4. /\ f \in Frames /\ f.mic \in Nat /\ f.confirmed \in BOOLEAN /\ f.mic < server.next
      /\ server.next \in Nat
      /\ server.awaited = IF f.confirmed THEN {f} ELSE {}
      BY <1>1, Bounds DEF IInv, ServerOK, ServerAwaitsLast, Frames
<1>5. CASE ok(f)
  <2>1. /\ SrvAckRequested' = f.confirmed /\ accepted' = f.mic
        /\ LastRxMic' = IF f.confirmed THEN f.mic ELSE LastRxMic
        BY <1>1, <1>5 DEF Accept
  <2>2. OwedIsAccepted'
        BY <1>1, <1>4, <2>1 DEF OwedIsAccepted
  <2>3. QED  BY <1>1, <1>2, <1>3, <1>4, <2>1, <2>2 DEF IInv, Initial
<1>6. CASE ~ok(f)
  <2>1. /\ LastRxMic' = LastRxMic /\ accepted' = accepted
        /\ SrvAckRequested' =
             (SrvAckRequested \/ (status(f) = "CHECK_FAIL" /\ f.confirmed /\ LastRxMic = f.mic))
        BY <1>1, <1>6 DEF Reject
  <2>2. SrvAckRequested' => SrvAckRequested \/ (f.confirmed /\ LastRxMic = f.mic)
        BY <2>1
  <2>3. OwedIsAccepted'
        BY <1>1, <1>2, <1>4, <2>1, <2>2 DEF IInv, OwedIsAccepted
  <2>4. QED  BY <1>1, <1>2, <1>3, <1>4, <2>1, <2>2, <2>3 DEF IInv, Initial
<1>7. QED  BY <1>5, <1>6

(* IInv holds in every state of the node, the server and the radio.         *)
THEOREM Invariance == Spec => []IInv
<1>1. IInv /\ [Next]_vars => IInv'
  <2> SUFFICES ASSUME IInv, [Next]_vars PROVE IInv'
      OBVIOUS
  <2>1. ASSUME NEW size \in AppSizes, NEW confirmed \in BOOLEAN, Send(size, confirmed)
        PROVE  IInv'
        BY <2>1, SendKeepsIInv
  <2>2. CASE LinkCheckReq \/ LoseUplink
        BY <2>2, LossKeepsIInv
  <2>3. CASE Retransmit \/ StopRetransmission \/ LoseDownlink
        BY <2>3, CloseKeepsIInv
  <2>4. CASE ProcessRadioRxDone
        BY <2>4, ReceptionKeepsIInv
  <2>5. ASSUME NEW givesUp \in BOOLEAN, HearUplink(givesUp)
        PROVE  IInv'
        BY <2>5, HearingKeepsIInv
  <2>6. ASSUME NEW reqs \in Requests, NEW confirmed \in BOOLEAN, Downlink(reqs, confirmed)
        PROVE  IInv'
        BY <2>6, DownlinkKeepsIInv
  <2>7. CASE RepeatDownlink
        BY <2>7, RepeatKeepsIInv
  <2>8. CASE UNCHANGED vars
        BY <2>8 DEF vars, macVars, txVars, IInv, ServerOK, ServerAwaitsLast,
                    WindowsFollowUplink, OwedIsAccepted
  <2>9. QED
        BY <2>1, <2>2, <2>3, <2>4, <2>5, <2>6, <2>7, <2>8 DEF Next
<1>2. QED  BY InitIInv, <1>1, PTL DEF Spec

(* The server is never told of a confirmed downlink that did not arrive: an  *)
(* acknowledgement in a new uplink is for the downlink the server awaits.    *)
THEOREM AcksTrue == Spec => []AcksAreTrue
<1>1. IInv => AcksAreTrue
      BY DEF IInv, OwedIsAccepted, AcksAreTrue
<1>2. QED  BY <1>1, Invariance, PTL

-----------------------------------------------------------------------------
(* The reconstruction of the downlink counter. *)

(* The range is at least three roll-overs wide.                              *)
LEMMA Widths ==
  /\ FCntMod \in Nat \ {0} /\ MaxFCntGap \in 1 .. FCntMod
  /\ FCntRange \in Nat /\ FCntRange >= 3 * FCntMod /\ FCntRange \div 2 \in Int
<1>1. /\ FCntMod \in Nat \ {0} /\ MaxFCntGap \in 1 .. FCntMod
      /\ FCntRange \in Nat /\ FCntRange > 2 * FCntMod /\ FCntRange % FCntMod = 0
      BY FCntAssumption
<1> DEFINE k == FCntRange \div FCntMod
<1>2. k \in Int /\ FCntRange = k * FCntMod
      BY <1>1
<1> HIDE DEF k
<1>3. ~(k <= 2)
  <2>1. k <= 2 => k * FCntMod <= 2 * FCntMod
        BY <1>1, <1>2
  <2>2. QED  BY <1>1, <1>2, <2>1
<1>4. 3 * FCntMod <= k * FCntMod
      BY <1>1, <1>2, <1>3
<1>5. FCntRange \div 2 \in Int
      BY <1>1
<1>6. QED  BY <1>1, <1>2, <1>4, <1>5

(* The low bits of a counter before its second roll-over.                    *)
LEMMA LowBits ==
  ASSUME NEW x \in 0 .. 2 * FCntMod - 1
  PROVE  x % FCntMod = IF x < FCntMod THEN x ELSE x - FCntMod
<1> DEFINE q == x \div FCntMod
           r == x % FCntMod
<1>1. q \in Int /\ r \in 0 .. FCntMod - 1 /\ x = q * FCntMod + r
      BY Widths
<1> HIDE DEF q, r
<1>2. ~(q <= -1)
  <2>1. q <= -1 => q * FCntMod <= -FCntMod
        BY <1>1, Widths
  <2>2. QED  BY <1>1, <2>1, Widths
<1>3. ~(q >= 2)
  <2>1. q >= 2 => q * FCntMod >= 2 * FCntMod
        BY <1>1, Widths
  <2>2. QED  BY <1>1, <2>1, Widths
<1>4. q = 0 \/ q = 1
      BY <1>1, <1>2, <1>3
<1>5. r = IF x < FCntMod THEN x ELSE x - FCntMod
      BY <1>1, <1>4, Widths
<1>6. QED  BY <1>5 DEF r

(* A counter that is at most as far ahead as the range is wide is itself      *)
(* modulo the range.                                                         *)
LEMMA InRange == ASSUME NEW x \in 0 .. FCntRange - 1 PROVE x % FCntRange = x
<1> DEFINE q == x \div FCntRange
           r == x % FCntRange
<1>1. q \in Int /\ r \in 0 .. FCntRange - 1 /\ x = q * FCntRange + r
      BY Widths
<1> HIDE DEF q, r
<1>2. ~(q <= -1)
  <2>1. q <= -1 => q * FCntRange <= -FCntRange
        BY <1>1, Widths
  <2>2. QED  BY <1>1, <2>1, Widths
<1>3. ~(q >= 1)
  <2>1. q >= 1 => q * FCntRange >= FCntRange
        BY <1>1, Widths
  <2>2. QED  BY <1>1, <2>1, Widths
<1>4. r = x
      BY <1>1, <1>2, <1>3, Widths
<1>5. QED  BY <1>4 DEF r

(* One turn of the range more or less makes no difference.                   *)
LEMMA OneTurn ==
  ASSUME NEW x \in Int PROVE (x - FCntRange) % FCntRange = x % FCntRange
<1> DEFINE q == x \div FCntRange
           r == x % FCntRange
           p == (x - FCntRange) \div FCntRange
           s == (x - FCntRange) % FCntRange
<1>1. q \in Int /\ r \in 0 .. FCntRange - 1 /\ x = q * FCntRange + r
      BY Widths
<1>2. p \in Int /\ s \in 0 .. FCntRange - 1 /\ x - FCntRange = p * FCntRange + s
      BY Widths
<1> HIDE DEF q, r, p, s
<1> DEFINE d == q - 1 - p
<1>3. d \in Int /\ d * FCntRange = s - r
      BY <1>1, <1>2, Widths
<1> HIDE DEF d
<1>4. ~(d >= 1)
  <2>1. d >= 1 => d * FCntRange >= FCntRange
        BY <1>3, Widths
  <2>2. QED  BY <1>1, <1>2, <1>3, <2>1, Widths
<1>5. ~(d <= -1)
  <2>1. d <= -1 => d * FCntRange <= -FCntRange
        BY <1>3, Widths
  <2>2. QED  BY <1>1, <1>2, <1>3, <2>1, Widths
<1>6. r = s
      BY <1>1, <1>2, <1>3, <1>4, <1>5, Widths
<1>7. QED  BY <1>6 DEF r, s

(* The first downlink after a join is reconstructed from its low bits alone. *)
LEMMA FirstIsReconstructed ==
  ASSUME NEW m \in 0 .. MaxFCntGap - 2
  PROVE  /\ CurrentDown(Initial, m % FCntMod) = m
         /\ FCntStatus(Initial, m % FCntMod) = "SUCCESS"
<1>1. m \in 0 .. FCntMod - 2 /\ m % FCntMod = m
      BY Widths, LowBits
<1>2. CurrentDown(Initial, m) = m
      BY DEF CurrentDown
<1>3. Initial \in Int /\ m - Initial \in Int /\ m + 1 \in 0 .. FCntRange - 1
      BY <1>1, Widths DEF Initial
<1>4. (m - Initial) % FCntRange = m + 1
  <2>1. (m + 1) % FCntRange = m + 1
        BY <1>3, InRange
  <2>2. m - Initial = (m + 1) - FCntRange
        BY <1>1, Widths DEF Initial
  <2>3. ((m + 1) - FCntRange) % FCntRange = (m + 1) % FCntRange
    <3>1. m + 1 \in Int
          BY <1>3
    <3>2. QED  BY <3>1, OneTurn
  <2>4. QED  BY <2>1, <2>2, <2>3
<1>5. SignedDiff(m, Initial) \in Int /\ SignedDiff(m, Initial) < MaxFCntGap
      BY <1>1, <1>4, Widths DEF SignedDiff
<1>6. ~(SignedDiff(CurrentDown(Initial, m), Initial) >= MaxFCntGap)
      BY <1>2, <1>5, Widths
<1>7. FCntStatus(Initial, m) = "SUCCESS"
      BY <1>6 DEF FCntStatus
<1>8. QED  BY <1>1, <1>2, <1>7

(* Before the second roll-over a counter less than the gap ahead of the last  *)
(* one is reconstructed, whether the low bits roll over in between or not.   *)
LEMMA NextIsReconstructed ==
  ASSUME NEW a \in 0 .. 2 * FCntMod - 1, NEW m \in 0 .. 2 * FCntMod - 1,
         m - a \in 1 .. MaxFCntGap - 1
  PROVE  /\ CurrentDown(a, m % FCntMod) = m
         /\ FCntStatus(a, m % FCntMod) = "SUCCESS"
<1> DEFINE fCnt == m % FCntMod
           low == a % FCntMod
<1>1. /\ low = IF a < FCntMod THEN a ELSE a - FCntMod
      /\ fCnt = IF m < FCntMod THEN m ELSE m - FCntMod
      BY LowBits
<1>2. a # Initial /\ m - a < FCntMod /\ m - a \in 0 .. FCntRange - 1 /\ m \in 0 .. FCntRange - 1
      BY Widths DEF Initial
<1> HIDE DEF fCnt, low
<1>3. fCnt # low
      BY <1>1, <1>2, Widths
<1>4. fCnt \in Int /\ low \in Int
      BY <1>1, Widths
<1>5. CurrentDown(a, fCnt) = m
  <2>1. CASE fCnt - low >= 0
    <3>1. a + (fCnt - low) = m
          BY <1>1, <1>2, <2>1, Widths
    <3>2. CurrentDown(a, fCnt) = (a + (fCnt - low)) % FCntRange
          BY <1>2, <2>1 DEF CurrentDown, low
    <3>3. QED  BY <3>1, <3>2, <1>2, InRange
  <2>2. CASE ~(fCnt - low >= 0)
    <3>1. a + (fCnt - low) + FCntMod + (a - low) = m
          BY <1>1, <1>2, <2>2, Widths
    <3>2. CurrentDown(a, fCnt) = (a + (fCnt - low) + FCntMod + (a - low)) % FCntRange
          BY <1>2, <2>2 DEF CurrentDown, low
    <3>3. QED  BY <3>1, <3>2, <1>2, InRange
  <2>3. QED  BY <2>1, <2>2
<1>6. SignedDiff(m, a) \in Int /\ SignedDiff(m, a) < MaxFCntGap
  <2>1. (m - a) % FCntRange = m - a
        BY <1>2, InRange
  <2>2. QED  BY <2>1, Widths DEF SignedDiff
<1>7. ~(SignedDiff(CurrentDown(a, fCnt), a) >= MaxFCntGap)
      BY <1>5, <1>6, Widths
<1>8. FCntStatus(a, fCnt) = "SUCCESS"
      BY <1>3, <1>7 DEF FCntStatus, low
<1>9. QED  BY <1>5, <1>8 DEF fCnt

(* The last counter accepted is one that the server has sent.                *)
AcceptedWasSent == accepted = Initial \/ accepted \in 0 .. MaxDown - 1

(* The windows of an uplink are used for one downlink.                       *)
OneOnAir == \A f, g \in air : f = g

(* A downlink is sent in windows that hold none, or is the one awaited.      *)
LEMMA StepKeepsOneOnAir ==
  ASSUME IInv, OneOnAir, [Next]_vars PROVE OneOnAir'
<1>1. ASSUME NEW size \in AppSizes, NEW confirmed \in BOOLEAN, Send(size, confirmed)
      PROVE  OneOnAir'
      BY <1>1 DEF Send, OneOnAir
<1>2. CASE LinkCheckReq \/ LoseUplink \/ UNCHANGED vars
      BY <1>2 DEF LinkCheckReq, LoseUplink, vars, OneOnAir
<1>3. CASE Retransmit \/ StopRetransmission \/ ProcessRadioRxDone \/ LoseDownlink
      BY <1>3 DEF Retransmit, StopRetransmission, CloseWindows, ProcessRadioRxDone,
                  LoseDownlink, OneOnAir
<1>4. ASSUME NEW givesUp \in BOOLEAN, HearUplink(givesUp)
      PROVE  OneOnAir'
      BY <1>4 DEF HearUplink, OneOnAir
<1>5. ASSUME NEW reqs \in Requests, NEW confirmed \in BOOLEAN, Downlink(reqs, confirmed)
      PROVE  OneOnAir'
      BY <1>5 DEF Downlink, OneOnAir
<1>6. CASE RepeatDownlink
  <2>1. air' = server.awaited
        BY <1>6 DEF RepeatDownlink
  <2>2. \A f \in server.awaited : server.awaited = {f}
        BY DEF IInv, ServerAwaitsLast
  <2>3. QED  BY <2>1, <2>2 DEF OneOnAir
<1>7. QED
      BY <1>1, <1>2, <1>3, <1>4, <1>5, <1>6 DEF Next

(* What is accepted has come from the air.                                   *)
LEMMA StepKeepsSent ==
  ASSUME IInv, AcceptedWasSent, [Next]_vars PROVE AcceptedWasSent'
<1>1. ASSUME NEW size \in AppSizes, NEW confirmed \in BOOLEAN, Send(size, confirmed)
      PROVE  accepted' = accepted
      BY <1>1 DEF Send
<1>2. CASE LinkCheckReq \/ Retransmit \/ StopRetransmission \/ LoseUplink \/ RepeatDownlink
             \/ LoseDownlink \/ UNCHANGED vars
      BY <1>2 DEF LinkCheckReq, Retransmit, StopRetransmission, LoseUplink, RepeatDownlink,
                  LoseDownlink, vars, AcceptedWasSent
<1>3. CASE ProcessRadioRxDone
  <2>1. PICK f \in air : accepted' \in {accepted, f.mic}
        BY <1>3 DEF ProcessRadioRxDone, Accept, Reject
  <2>2. f.mic \in 0 .. MaxDown - 1
        BY DEF IInv, ServerOK, Frames
  <2>3. QED  BY <2>1, <2>2 DEF AcceptedWasSent
<1>4. ASSUME NEW givesUp \in BOOLEAN, HearUplink(givesUp)
      PROVE  accepted' = accepted
      BY <1>4 DEF HearUplink
<1>5. ASSUME NEW reqs \in Requests, NEW confirmed \in BOOLEAN, Downlink(reqs, confirmed)
      PROVE  accepted' = accepted
      BY <1>5 DEF Downlink
<1>6. QED
      BY <1>1, <1>2, <1>3, <1>4, <1>5 DEF Next, AcceptedWasSent

(* A downlink received within the gap passes each of the three checks.       *)
LEMMA FreshPasses ==
  ASSUME MaxDown <= 2 * FCntMod, IInv, CountersAgree, AcceptedWasSent, OneOnAir,
         ProcessRadioRxDone,
         NEW f \in air, (f.mic - accepted) % FCntRange \in 1 .. MaxFCntGap - 1
  PROVE  accepted' = f.mic
<1> DEFINE counter(g) == CurrentDown(FCntDown, g.mic % FCntMod)
           status(g) == FCntStatus(FCntDown, g.mic % FCntMod)
           ok(g) == /\ status(g) = "SUCCESS"
                    /\ CheckFCntDown(cryptoDown, counter(g))
                    /\ counter(g) = g.mic
<1>1. PICK g \in air : IF ok(g) THEN Accept(g, counter(g)) ELSE Reject(g, status(g))
      BY DEF ProcessRadioRxDone
<1>2. f = g
  BY DEF OneOnAir
<1>3. f.mic \in 0 .. MaxDown - 1 /\ MaxDown \in Nat /\ MaxDown <= Initial
      BY Bounds DEF IInv, ServerOK, Frames
<1>4. f.mic \in 0 .. 2 * FCntMod - 1
      BY <1>3, Widths
<1>5. FCntDown = accepted /\ cryptoDown = accepted
      BY DEF CountersAgree
<1>6. counter(f) = f.mic /\ status(f) = "SUCCESS" /\ CheckFCntDown(cryptoDown, counter(f))
  <2>1. CASE accepted = Initial
    <3>1. f.mic - accepted = (f.mic + 1) - FCntRange
          BY <1>4, <2>1, Widths DEF Initial
    <3>2. f.mic + 1 \in 0 .. FCntRange - 1
          BY <1>4, Widths
    <3>3. (f.mic - accepted) % FCntRange = f.mic + 1
      <4>1. f.mic + 1 \in Int
            BY <3>2
      <4>2. ((f.mic + 1) - FCntRange) % FCntRange = (f.mic + 1) % FCntRange
            BY <4>1, OneTurn
      <4>3. QED  BY <3>1, <3>2, <4>2, InRange
    <3>4. f.mic \in 0 .. MaxFCntGap - 2
          BY <3>3, <1>4, Widths
    <3>5. QED  BY <3>4, <1>5, <2>1, FirstIsReconstructed DEF CheckFCntDown
  <2>2. CASE accepted # Initial
    <3>1. accepted \in 0 .. MaxDown - 1 /\ accepted \in 0 .. 2 * FCntMod - 1
          BY <2>2, <1>3, Widths DEF AcceptedWasSent
    <3>2. CASE f.mic >= accepted
      <4>1. f.mic - accepted \in 0 .. FCntRange - 1
            BY <1>4, <3>1, <3>2, Widths
      <4>2. f.mic - accepted \in 1 .. MaxFCntGap - 1
            BY <4>1, InRange
      <4>3. counter(f) = f.mic /\ status(f) = "SUCCESS"
            BY <1>4, <1>5, <3>1, <4>2, NextIsReconstructed
      <4>4. f.mic > cryptoDown
            BY <1>4, <1>5, <3>1, <4>2, Widths
      <4>5. QED  BY <4>3, <4>4 DEF CheckFCntDown
    <3>3. CASE f.mic < accepted
      <4>1. (f.mic - accepted) + FCntRange \in FCntMod .. FCntRange - 1
            BY <1>4, <3>1, <3>3, Widths
      <4>2. (((f.mic - accepted) + FCntRange) - FCntRange) % FCntRange
              = (f.mic - accepted) + FCntRange
        <5>1. (f.mic - accepted) + FCntRange \in Int
              BY <4>1
        <5>2. (f.mic - accepted) + FCntRange \in 0 .. FCntRange - 1
              BY <4>1, Widths
        <5>3. QED  BY <5>1, <5>2, OneTurn, InRange
      <4>3. ((f.mic - accepted) + FCntRange) - FCntRange = f.mic - accepted
            BY <1>4, <3>1, Widths
      <4>4. QED  BY <4>1, <4>2, <4>3, <1>4, <3>1, Widths
    <3>4. QED  BY <3>2, <3>3, <1>4, <3>1
  <2>3. QED  BY <2>1, <2>2
<1>7. ok(g)
      BY <1>2, <1>6
<1>8. QED  BY <1>1, <1>2, <1>7 DEF Accept

(* A new downlink that is received is accepted unless the gap of            *)
(* PHY_MAX_FCNT_GAP was lost before it, as long as the low bits have rolled  *)
(* over once at most: LoRaMacGetFCntDown adds the upper half twice, which is *)
(* wrong from the second roll-over on (run session_rollover).                *)
THEOREM FreshAccepted ==
  ASSUME MaxDown <= 2 * FCntMod
  PROVE  Spec => FreshIsAccepted
<1>1. Init => AcceptedWasSent /\ OneOnAir
      BY DEF Init, AcceptedWasSent, OneOnAir
<1>2. IInv /\ AcceptedWasSent /\ OneOnAir /\ [Next]_vars => (AcceptedWasSent /\ OneOnAir)'
      BY StepKeepsSent, StepKeepsOneOnAir
<1>3. IInv /\ CountersAgree /\ AcceptedWasSent /\ OneOnAir /\ [Next]_vars =>
        [\A f \in air :
           LET gap == (f.mic - accepted) % FCntRange
           IN  ProcessRadioRxDone /\ gap \in 1 .. MaxFCntGap - 1 => accepted' = f.mic]_vars
      BY FreshPasses
<1>4. QED  BY <1>1, <1>2, <1>3, Invariance, CountersTrue, PTL DEF Spec, FreshIsAccepted

-----------------------------------------------------------------------------
(* A set of naturals has a least element. *)
LEMMA LeastNat ==
  ASSUME NEW T \in SUBSET Nat, T # {}
  PROVE  \E m \in T : \A k \in T : m <= k
<1> DEFINE R == {ss \in Nat \X Nat : ss[1] < ss[2]}
<1>1. IsWellFoundedOn(R, Nat)
      BY NatLessThanWellFounded DEF OpToRel
<1>2. \E x \in T : \A y \in T : ~ (<<y, x>> \in R)
  <2> HIDE DEF R
  <2>1. T \subseteq Nat
        OBVIOUS
  <2>2. QED  BY <1>1, <2>1, WFMin
<1>3. PICK m \in T : \A y \in T : ~ (<<y, m>> \in R)
      BY <1>2
<1>4. ASSUME NEW k \in T PROVE m <= k
  <2>1. ~ (<<k, m>> \in R) /\ k \in Nat /\ m \in Nat
        BY <1>3
  <2>2. QED  BY <2>1
<1>5. QED  BY <1>4

(* Induction up to a bound, for the steps of a loop. *)
LEMMA Upward ==
  ASSUME NEW n \in Nat, NEW S, 0 \in S, \A i \in 1 .. n : i - 1 \in S => i \in S
  PROVE  0 .. n \subseteq S
<1> SUFFICES ASSUME ~(0 .. n \subseteq S) PROVE FALSE
    OBVIOUS
<1> DEFINE T == {i \in 0 .. n : i \notin S}
<1>1. T \in SUBSET Nat /\ T # {}
      OBVIOUS
<1>2. PICK m \in T : \A i \in T : m <= i
      BY <1>1, LeastNat
<1>3. m \in 1 .. n
      BY <1>2
<1>4. m - 1 \notin T /\ m - 1 \in 0 .. n
      BY <1>2, <1>3
<1>5. QED  BY <1>2, <1>3, <1>4

(* Induction from the end of the list back to its head. *)
LEMMA Downward ==
  ASSUME NEW k \in Nat, NEW S, k + 1 \in S, \A i \in 1 .. k : i + 1 \in S => i \in S
  PROVE  1 .. k + 1 \subseteq S
<1> DEFINE B == {j \in 0 .. k : k + 1 - j \in S}
<1>1. 0 \in B
      OBVIOUS
<1>2. ASSUME NEW j \in 1 .. k, j - 1 \in B PROVE j \in B
  <2>1. k + 1 - j \in 1 .. k /\ k + 1 - (j - 1) = (k + 1 - j) + 1
        OBVIOUS
  <2>2. (k + 1 - j) + 1 \in S
        BY <1>2, <2>1
  <2>3. QED  BY <2>1, <2>2
<1>3. 0 .. k \subseteq B
  <2> HIDE DEF B
  <2>1. QED  BY <1>1, <1>2, Upward
<1>4. ASSUME NEW i \in 1 .. k + 1 PROVE i \in S
  <2>1. k + 1 - i \in 0 .. k /\ k + 1 - (k + 1 - i) = i
        OBVIOUS
  <2>2. k + 1 - i \in B
        BY <1>3, <2>1
  <2>3. k + 1 - (k + 1 - i) \in S
        BY <2>2
  <2>4. QED  BY <2>1, <2>3
<1>5. QED  BY <1>4

-----------------------------------------------------------------------------
(* The list as the sequence p of its slots, with null before and after it. *)
Contexts == [slot : [Slots -> [CID : Cids \cup {NoCid}, Next : Slots \cup {0}]],
             First : Slots \cup {0}, Last : Slots \cup {0}, SerializedCmdsSize : Int]
Linked(ctx, k, p) ==
  /\ ctx \in Contexts
  /\ k \in Nat /\ p \in [0 .. k + 1 -> Slots \cup {0}]
  /\ p[0] = 0 /\ p[k + 1] = 0
  /\ \A i \in 1 .. k : p[i] \in Slots
  /\ \A i, j \in 1 .. k : p[i] = p[j] => i = j
  /\ ctx.First = p[1] /\ ctx.Last = p[k]
  /\ \A i \in 1 .. k : ctx.slot[p[i]].Next = p[i + 1] /\ ctx.slot[p[i]].CID \in Cids
  /\ \A s \in Slots : (\A i \in 1 .. k : p[i] # s) => ctx.slot[s] = FreeSlot

(* No slot has the number of the null pointer. *)
LEMMA SlotsAreNat == Slots \subseteq Nat \ {0}
  BY CommandsAssumption DEF Slots

(* A loop of n steps has a result, whatever a step does. *)
Runs(f, n, base, step) == f[0] = base /\ \A j \in 1 .. n : f[j] = step[j][f[j - 1]]
LEMMA LoopExists == ASSUME NEW n \in Nat, NEW base, NEW step PROVE \E f : Runs(f, n, base, step)
<1> DEFINE S == {m \in 0 .. n : \E f : Runs(f, m, base, step)}
<1>1. 0 \in S
  <2>1. Runs([j \in 0 .. 0 |-> base], 0, base, step)
        BY DEF Runs
  <2>2. QED  BY <2>1
<1>2. ASSUME NEW m \in 1 .. n, m - 1 \in S PROVE m \in S
  <2>1. PICK f : Runs(f, m - 1, base, step)
        BY <1>2
  <2> DEFINE g == [j \in 0 .. m |-> IF j = m THEN step[m][f[m - 1]] ELSE f[j]]
  <2>2. ASSUME NEW j \in 1 .. m PROVE g[j] = step[j][g[j - 1]]
    <3>1. CASE j = m
          BY <3>1
    <3>2. CASE j # m
          BY <3>2, <2>1 DEF Runs
    <3>3. QED  BY <3>1, <3>2
  <2>3. Runs(g, m, base, step)
        BY <2>1, <2>2 DEF Runs
  <2> HIDE DEF g
  <2>4. QED  BY <2>3
<1>3. 0 .. n \subseteq S
  <2> HIDE DEF S
  <2>1. QED  BY <1>1, <1>2, Upward
<1>4. n \in S
      BY <1>3
<1>5. QED  BY <1>4

(* A loop along the list has a result too, and what it passes on from slot *)
(* to slot stays in X if each of its steps on the list keeps it there.     *)
Walks(f, ctx, base, e) ==
  f = [s \in Slots \cup {0} |-> IF s = 0 THEN base ELSE e[s][f[ctx.slot[s].Next]]]
LEMMA WalkExists ==
  ASSUME NEW ctx, NEW k, NEW p, Linked(ctx, k, p), NEW X, NEW base \in X, NEW e,
         \A i \in 1 .. k : \A v \in X : e[p[i]][v] \in X
  PROVE  \E f : Walks(f, ctx, base, e) /\ \A s \in Slots : f[ctx.slot[s].Next] \in X
<1> DEFINE back == [i \in 1 .. k |-> e[p[k + 1 - i]]]
<1>1. PICK h : Runs(h, k, base, back)
  <2> HIDE DEF back
  <2>1. k \in Nat
        BY DEF Linked
  <2>2. QED  BY <2>1, LoopExists
<1> DEFINE N == Slots \cup {0}
           at(s) == CHOOSE i \in 1 .. k : p[i] = s
           f == [s \in N |-> IF s = 0 THEN base
                             ELSE IF \E i \in 1 .. k : p[i] = s THEN h[k + 1 - at(s)]
                             ELSE e[s][base]]
<1>2. h[0] = base /\ \A j \in 1 .. k : h[j] = e[p[k + 1 - j]][h[j - 1]]
  <2>1. k \in Nat
        BY DEF Linked
  <2>2. QED  BY <1>1, <2>1 DEF Runs
<1>3. ASSUME NEW i \in 1 .. k + 1 PROVE f[p[i]] = h[k + 1 - i]
  <2>1. CASE i = k + 1
        BY <2>1, <1>2 DEF Linked
  <2>2. CASE i # k + 1
    <3>1. k \in Nat /\ i \in 1 .. k /\ p[i] \in Slots /\ p[i] # 0
          BY <2>2, SlotsAreNat DEF Linked
    <3>2. at(p[i]) = i
          BY <3>1 DEF Linked
    <3>3. QED  BY <3>1, <3>2
  <2>3. QED  BY <2>1, <2>2
<1>4. ASSUME NEW s \in N
      PROVE  f[s] = IF s = 0 THEN base ELSE e[s][f[ctx.slot[s].Next]]
  <2>1. CASE s = 0
        BY <2>1
  <2>2. CASE s # 0 /\ \E i \in 1 .. k : p[i] = s
    <3>1. PICK i \in 1 .. k : p[i] = s
          BY <2>2
    <3>2. k \in Nat /\ i + 1 \in 1 .. k + 1 /\ k + 1 - i \in 1 .. k /\ i \in 1 .. k + 1
          /\ k + 1 - (k + 1 - i) = i /\ (k + 1 - i) - 1 = k + 1 - (i + 1)
          BY DEF Linked
    <3>3. ctx.slot[s].Next = p[i + 1]
          BY <3>1 DEF Linked
    <3>4. f[s] = h[k + 1 - i] /\ f[p[i + 1]] = h[k + 1 - (i + 1)]
          BY <1>3, <3>1, <3>2
    <3>5. h[k + 1 - i] = e[p[i]][h[(k + 1 - i) - 1]]
          BY <1>2, <3>2
    <3>6. QED
          BY <2>2, <3>1, <3>2, <3>3, <3>4, <3>5
  <2>3. CASE s # 0 /\ ~(\E i \in 1 .. k : p[i] = s)
    <3>1. ctx.slot[s].Next = 0
          BY <2>3 DEF Linked, FreeSlot
    <3>2. f[0] = base
          OBVIOUS
    <3>3. QED  BY <2>3, <3>1, <3>2
  <2>4. QED  BY <2>1, <2>2, <2>3
<1>5. Walks(f, ctx, base, e)
  <2> HIDE DEF f
  <2>1. f = [s \in N |-> f[s]]
        BY DEF f
  <2>2. QED  BY <1>4, <2>1, Zenon DEF Walks
<1> HIDE DEF f
<1>6. 1 .. k + 1 \subseteq {i \in 1 .. k + 1 : f[p[i]] \in X}
  <2> DEFINE S == {i \in 1 .. k + 1 : f[p[i]] \in X}
  <2>1. k \in Nat /\ k + 1 \in S
        BY <1>4 DEF Linked
  <2>2. ASSUME NEW i \in 1 .. k, i + 1 \in S PROVE i \in S
    <3>1. p[i] \in Slots /\ p[i] # 0 /\ ctx.slot[p[i]].Next = p[i + 1]
          BY SlotsAreNat DEF Linked
    <3>2. f[p[i]] = e[p[i]][f[p[i + 1]]]
          BY <1>4, <3>1
    <3>3. QED  BY <2>1, <2>2, <3>2
  <2> HIDE DEF S
  <2>3. 1 .. k + 1 \subseteq S
        BY <2>1, <2>2, Downward
  <2>4. QED  BY <2>3 DEF S
<1>7. ASSUME NEW s \in Slots PROVE f[ctx.slot[s].Next] \in X
  <2>1. CASE \E i \in 1 .. k : p[i] = s
    <3>1. PICK i \in 1 .. k : p[i] = s
          BY <2>1
    <3>2. ctx.slot[s].Next = p[i + 1] /\ i + 1 \in 1 .. k + 1
          BY <3>1 DEF Linked
    <3>3. QED  BY <1>6, <3>2
  <2>2. CASE ~(\E i \in 1 .. k : p[i] = s)
        BY <2>2, <1>4 DEF Linked, FreeSlot
  <2>3. QED  BY <2>1, <2>2
<1>8. QED  BY <1>5, <1>7, Zenon

(* The loop of linkedListGetPrevious and of LoRaMacCommandsGetCmd. *)
LEMMA Seeking ==
  ASSUME NEW ctx, NEW k, NEW p, Linked(ctx, k, p), NEW sought
  PROVE  \/ FirstOf(ctx, sought) = 0 /\ \A i \in 1 .. k : p[i] \notin sought
         \/ \E i \in 1 .. k : /\ FirstOf(ctx, sought) = p[i] /\ p[i] \in sought
                              /\ \A j \in 1 .. i - 1 : p[j] \notin sought
<1> DEFINE N == Slots \cup {0}
           Seek(f) == f = [s \in N |-> IF s = 0 \/ s \in sought THEN s ELSE f[ctx.slot[s].Next]]
           seek == CHOOSE f : Seek(f)
           e == [s \in Slots |-> [v \in N |-> IF s \in sought THEN s ELSE v]]
<1>1. FirstOf(ctx, sought) = seek[ctx.First]
      BY DEF FirstOf
<1>2. \E f : Walks(f, ctx, 0, e) /\ \A s \in Slots : f[ctx.slot[s].Next] \in N
  <2>1. \A i \in 1 .. k : \A v \in N : e[p[i]][v] \in N
        BY DEF Linked
  <2>2. 0 \in N
        OBVIOUS
  <2> HIDE DEF N, e
  <2>3. QED  BY <2>1, <2>2, WalkExists
<1>3. PICK f : Walks(f, ctx, 0, e) /\ \A s \in Slots : f[ctx.slot[s].Next] \in N
      BY <1>2
<1>4. Seek(f)
  <2>1. \A s \in N : (IF s = 0 THEN 0 ELSE e[s][f[ctx.slot[s].Next]])
                      = IF s = 0 \/ s \in sought THEN s ELSE f[ctx.slot[s].Next]
        BY <1>3
  <2>2. QED  BY <1>3, <2>1 DEF Walks
<1>5. Seek(seek)
  <2> HIDE DEF Seek
  <2>1. QED  BY <1>4
<1>6. \A s \in N : seek[s] = IF s = 0 \/ s \in sought THEN s ELSE seek[ctx.slot[s].Next]
  <2> HIDE DEF seek
  <2>1. QED  BY <1>5
<1> HIDE DEF seek
<1> DEFINE Found(i) == \/ seek[p[i]] = 0 /\ \A j \in i .. k : p[j] \notin sought
                       \/ \E j \in i .. k : /\ seek[p[i]] = p[j] /\ p[j] \in sought
                                            /\ \A m \in i .. j - 1 : p[m] \notin sought
           S == {i \in 1 .. k + 1 : Found(i)}
<1>7. k \in Nat /\ k + 1 \in S
      BY <1>6 DEF Linked
<1>8. ASSUME NEW i \in 1 .. k, i + 1 \in S PROVE i \in S
  <2>1. p[i] \in Slots /\ p[i] # 0 /\ ctx.slot[p[i]].Next = p[i + 1]
        BY SlotsAreNat DEF Linked
  <2>2. CASE p[i] \in sought
    <3>1. seek[p[i]] = p[i]
          BY <1>6, <2>1, <2>2
    <3>2. QED  BY <1>7, <2>2, <3>1
  <2>3. CASE p[i] \notin sought
    <3>1. seek[p[i]] = seek[p[i + 1]]
          BY <1>6, <2>1, <2>3
    <3>2. CASE seek[p[i + 1]] = 0 /\ \A j \in i + 1 .. k : p[j] \notin sought
          BY <1>7, <2>3, <3>1, <3>2
    <3>3. ASSUME NEW j \in i + 1 .. k, seek[p[i + 1]] = p[j], p[j] \in sought,
                 \A m \in i + 1 .. j - 1 : p[m] \notin sought
          PROVE  i \in S
          BY <1>7, <2>3, <3>1, <3>3
    <3>4. QED  BY <1>8, <3>2, <3>3
  <2>4. QED  BY <2>2, <2>3
<1>9. 1 \in S
  <2> HIDE DEF S
  <2>1. 1 .. k + 1 \subseteq S
        BY <1>7, <1>8, Downward
  <2>2. QED  BY <1>7, <2>1
<1>10. p[1] = ctx.First
      BY DEF Linked
<1>11. QED  BY <1>1, <1>9, <1>10

(* The search for the previous element finds it. *)
LEMMA PreviousIs ==
  ASSUME NEW ctx, NEW k, NEW p, Linked(ctx, k, p), NEW i \in 1 .. k
  PROVE  Previous(ctx, p[i]) = p[i - 1]
<1>1. k \in Nat /\ p[0] = 0 /\ ctx.First = p[1] /\ p[k + 1] = 0 /\ p[i] \in Slots /\ p[i] # 0
      /\ \A j \in 1 .. k : p[j] \in Slots /\ ctx.slot[p[j]].Next = p[j + 1]
      BY SlotsAreNat DEF Linked
<1>2. CASE i = 1
      BY <1>1, <1>2 DEF Previous
<1>3. CASE i # 1
  <2> DEFINE sought == {r \in Slots : ctx.slot[r].Next = p[i]}
  <2>1. ASSUME NEW j \in 1 .. k PROVE p[j] \in sought <=> j = i - 1
    <3>1. p[j] \in sought <=> p[j + 1] = p[i]
          BY <1>1
    <3>2. CASE j = k
          BY <3>1, <3>2, <1>1
    <3>3. CASE j # k
      <4>1. j + 1 \in 1 .. k
            BY <3>3, <1>1
      <4>2. p[j + 1] = p[i] <=> j + 1 = i
            BY <4>1 DEF Linked
      <4>3. QED  BY <3>1, <4>2
    <3>4. QED  BY <3>2, <3>3
  <2>2. i - 1 \in 1 .. k /\ p[1] # p[i]
        BY <1>1, <1>3 DEF Linked
  <2>3. Previous(ctx, p[i]) = FirstOf(ctx, sought)
        BY <1>1, <2>2 DEF Previous
  <2> HIDE DEF sought
  <2>4. FirstOf(ctx, sought) = p[i - 1]
        BY <2>1, <2>2, Seeking
  <2>5. QED  BY <2>3, <2>4
<1>4. QED  BY <1>2, <1>3

(* What LoRaMacCommandsRemoveCmd leaves of an element of the list. *)
Unlinks(c, ctx, s, prev, next) ==
  \A r \in Slots \ {s} :
    /\ c.slot[r].CID = ctx.slot[r].CID
    /\ c.slot[r].Next = (IF r = prev THEN next ELSE ctx.slot[r].Next)
    /\ r # prev => c.slot[r] = ctx.slot[r]
(* The context that is left. *)
LEMMA Removal ==
  ASSUME NEW ctx, NEW k, NEW p, Linked(ctx, k, p), NEW i \in 1 .. k, NEW c,
         c = RemoveCmd(ctx, p[i])
  PROVE  /\ c \in Contexts
         /\ c.First = IF i = 1 THEN p[2] ELSE p[1]
         /\ c.Last = IF i = k THEN p[k - 1] ELSE p[k]
         /\ c.SerializedCmdsSize = ctx.SerializedCmdsSize - CmdSize[ctx.slot[p[i]].CID]
         /\ c.slot[p[i]] = FreeSlot
         /\ Unlinks(c, ctx, p[i], p[i - 1], p[i + 1])
<1> DEFINE s == p[i]
           prev == p[i - 1]
           next == ctx.slot[s].Next
           unlinked == IF prev = 0 THEN ctx ELSE [ctx EXCEPT !.slot[prev].Next = next]
           removed == [unlinked EXCEPT !.First = IF @ = s THEN next ELSE @,
                                       !.Last = IF @ = s THEN prev ELSE @,
                                       !.slot[s].Next = 0]
<1>1. /\ ctx \in Contexts /\ k \in Nat /\ s \in Slots /\ s # 0 /\ next = p[i + 1]
      /\ prev \in Slots \cup {0} /\ p[i + 1] \in Slots \cup {0} /\ prev # s
      /\ ctx.slot[s].CID \in Cids
  <2>1. p[i] \in Slots /\ p[i] # 0
        BY SlotsAreNat DEF Linked
  <2>2. p[i - 1] # p[i]
        BY <2>1 DEF Linked
  <2>3. QED  BY <2>1, <2>2 DEF Linked
<1>2. c = [removed EXCEPT !.slot[s] = FreeSlot,
                          !.SerializedCmdsSize = @ - CmdSize[ctx.slot[s].CID]]
  <2>1. Previous(ctx, s) = prev
        BY PreviousIs
  <2>2. ListRemove(ctx, s) = removed
        BY <2>1 DEF ListRemove
  <2> HIDE DEF removed
  <2>3. QED  BY <2>2 DEF RemoveCmd
<1>3. /\ unlinked \in Contexts /\ unlinked.First = ctx.First /\ unlinked.Last = ctx.Last
      /\ unlinked.SerializedCmdsSize = ctx.SerializedCmdsSize
      /\ Unlinks(unlinked, ctx, s, prev, next)
  <2>1. CASE prev = 0
        BY <1>1, <2>1, SlotsAreNat DEF Contexts, Unlinks
  <2>2. CASE prev # 0
    <3>1. prev \in Slots
          BY <1>1, <2>2
    <3>2. unlinked = [ctx EXCEPT !.slot = [ctx.slot EXCEPT ![prev] = [ctx.slot[prev] EXCEPT !.Next = next]]]
          BY <2>2
    <3>3. QED  BY <1>1, <3>1, <3>2 DEF Contexts, Unlinks
  <2>3. QED  BY <2>1, <2>2
<1> HIDE DEF unlinked
<1>4. /\ removed \in Contexts
      /\ removed.First = IF ctx.First = s THEN next ELSE ctx.First
      /\ removed.Last = IF ctx.Last = s THEN prev ELSE ctx.Last
      /\ removed.SerializedCmdsSize = ctx.SerializedCmdsSize
      /\ \A r \in Slots \ {s} : removed.slot[r] = unlinked.slot[r]
  <2>1. removed = [unlinked EXCEPT !.First = IF @ = s THEN next ELSE @,
                                   !.Last = IF @ = s THEN prev ELSE @,
                                   !.slot = [unlinked.slot EXCEPT ![s] = [unlinked.slot[s] EXCEPT !.Next = 0]]]
        OBVIOUS
  <2> DEFINE sl == [unlinked.slot EXCEPT ![s] = [unlinked.slot[s] EXCEPT !.Next = 0]]
  <2>2. /\ sl \in [Slots -> [CID : Cids \cup {NoCid}, Next : Slots \cup {0}]]
        /\ \A r \in Slots \ {s} : sl[r] = unlinked.slot[r]
        BY <1>1, <1>3 DEF Contexts
  <2> HIDE DEF sl
  <2>3. removed = [unlinked EXCEPT !.First = IF @ = s THEN next ELSE @,
                                   !.Last = IF @ = s THEN prev ELSE @, !.slot = sl]
        BY <2>1 DEF sl
  <2>4. QED  BY <1>1, <1>3, <2>2, <2>3 DEF Contexts
<1> HIDE DEF removed
<1>5. CmdSize[ctx.slot[s].CID] \in Nat /\ FreeSlot \in [CID : Cids \cup {NoCid}, Next : Slots \cup {0}]
      BY <1>1, CommandsAssumption DEF FreeSlot
<1>6. /\ c \in Contexts /\ c.First = removed.First /\ c.Last = removed.Last
      /\ c.SerializedCmdsSize = ctx.SerializedCmdsSize - CmdSize[ctx.slot[s].CID]
      /\ c.slot[s] = FreeSlot
      /\ \A r \in Slots \ {s} : c.slot[r] = removed.slot[r]
  <2>1. c = [removed EXCEPT !.slot = [removed.slot EXCEPT ![s] = FreeSlot],
                            !.SerializedCmdsSize = @ - CmdSize[ctx.slot[s].CID]]
        BY <1>2
  <2> DEFINE sl == [removed.slot EXCEPT ![s] = FreeSlot]
             z == CmdSize[ctx.slot[s].CID]
  <2>2. /\ sl \in [Slots -> [CID : Cids \cup {NoCid}, Next : Slots \cup {0}]]
        /\ sl[s] = FreeSlot /\ \A r \in Slots \ {s} : sl[r] = removed.slot[r]
        BY <1>1, <1>4, <1>5 DEF Contexts
  <2>3. z \in Int
        BY <1>5
  <2> HIDE DEF sl, z
  <2>4. c = [removed EXCEPT !.slot = sl, !.SerializedCmdsSize = @ - z]
        BY <2>1 DEF sl, z
  <2>5. /\ c.First = removed.First /\ c.Last = removed.Last /\ c.slot = sl
        /\ c.SerializedCmdsSize = removed.SerializedCmdsSize - z
        /\ c = [slot |-> sl, First |-> removed.First, Last |-> removed.Last,
                SerializedCmdsSize |-> removed.SerializedCmdsSize - z]
    <3> DEFINE y == removed.SerializedCmdsSize - z
    <3>1. c = [removed EXCEPT !.slot = sl, !.SerializedCmdsSize = y]
          BY <2>4
    <3> HIDE DEF y
    <3>2. /\ c.First = removed.First /\ c.Last = removed.Last /\ c.slot = sl
          /\ c.SerializedCmdsSize = y
          /\ c = [slot |-> sl, First |-> removed.First, Last |-> removed.Last,
                  SerializedCmdsSize |-> y]
          BY <1>4, <3>1 DEF Contexts
    <3>3. QED  BY <3>2 DEF y
  <2>6. c \in Contexts
    <3>1. removed.SerializedCmdsSize - z \in Int
          BY <1>4, <2>3 DEF Contexts
    <3>2. QED  BY <1>4, <2>2, <2>5, <3>1 DEF Contexts
  <2>7. QED  BY <1>4, <2>2, <2>5, <2>6 DEF z
<1>7. (ctx.First = s <=> i = 1) /\ (ctx.Last = s <=> i = k) /\ ctx.First = p[1] /\ ctx.Last = p[k]
      BY <1>1 DEF Linked
<1>8. c.First = IF i = 1 THEN p[2] ELSE p[1]
      BY <1>1, <1>4, <1>6, <1>7
<1>9. c.Last = IF i = k THEN p[k - 1] ELSE p[k]
      BY <1>1, <1>4, <1>6, <1>7
<1>10. Unlinks(c, ctx, s, p[i - 1], p[i + 1])
       BY <1>1, <1>3, <1>4, <1>6 DEF Unlinks
<1>11. QED  BY <1>6, <1>8, <1>9, <1>10

(* The sizes from each element of the list to its end. *)
Sized(ctx, k, p, g) ==
  /\ g \in [1 .. k + 1 -> Int] /\ g[k + 1] = 0 /\ ctx.SerializedCmdsSize = g[1]
  /\ \A i \in 1 .. k : g[i] = CmdSize[ctx.slot[p[i]].CID] + g[i + 1]

WellFormed(ctx) == \E k, p, g : Linked(ctx, k, p) /\ Sized(ctx, k, p, g)
InUse(ctx) == {s \in Slots : ctx.slot[s].CID # NoCid}

(* The elements of the list are the slots in use. *)
LEMMA OnList ==
  ASSUME NEW ctx, NEW k, NEW p, Linked(ctx, k, p)
  PROVE  InUse(ctx) = {p[i] : i \in 1 .. k}
<1>1. ASSUME NEW i \in 1 .. k PROVE p[i] \in InUse(ctx)
      BY CommandsAssumption DEF Linked, InUse
<1>2. ASSUME NEW s \in InUse(ctx) PROVE \E i \in 1 .. k : p[i] = s
      BY DEF Linked, InUse, FreeSlot
<1>3. QED  BY <1>1, <1>2

(* A command is taken out of the middle of the list: the others stay in    *)
(* their order, and so does the account of their sizes.                    *)
LEMMA RemoveKeeps ==
  ASSUME NEW ctx, WellFormed(ctx), NEW s \in InUse(ctx)
  PROVE  /\ WellFormed(RemoveCmd(ctx, s))
         /\ \A r \in Slots :
              RemoveCmd(ctx, s).slot[r].CID = IF r = s THEN NoCid ELSE ctx.slot[r].CID
<1>1. PICK k, p, g : Linked(ctx, k, p) /\ Sized(ctx, k, p, g)
      BY DEF WellFormed
<1>2. PICK i \in 1 .. k : p[i] = s
      BY <1>1, OnList
<1> DEFINE c == RemoveCmd(ctx, s)
           q == [j \in 0 .. k |-> IF j < i THEN p[j] ELSE p[j + 1]]
           z == CmdSize[ctx.slot[s].CID]
           h == [j \in 1 .. k |-> IF j < i THEN g[j] - z ELSE g[j + 1]]
<1>3. /\ c \in Contexts
      /\ c.First = IF i = 1 THEN p[2] ELSE p[1]
      /\ c.Last = IF i = k THEN p[k - 1] ELSE p[k]
      /\ c.SerializedCmdsSize = ctx.SerializedCmdsSize - z
      /\ c.slot[s] = FreeSlot
      /\ Unlinks(c, ctx, s, p[i - 1], p[i + 1])
      BY <1>1, <1>2, Removal
<1> HIDE DEF c
<1>4. k \in Nat /\ k - 1 \in Nat /\ (k - 1) + 1 = k /\ s \in Slots /\ s # 0
      BY <1>1, <1>2, SlotsAreNat DEF Linked
<1>5. ASSUME NEW j \in 1 .. k - 1
      PROVE  /\ q[j] \in Slots /\ q[j] # s /\ q[j] \in {p[m] : m \in 1 .. k}
             /\ c.slot[q[j]].Next = q[j + 1]
             /\ c.slot[q[j]].CID = ctx.slot[q[j]].CID /\ c.slot[q[j]].CID \in Cids
  <2>1. CASE j < i - 1
    <3>1. q[j] = p[j] /\ q[j + 1] = p[j + 1] /\ j \in 1 .. k /\ i - 1 \in 1 .. k
          BY <2>1, <1>4
    <3>2. p[j] # p[i] /\ p[j] # p[i - 1] /\ p[j] \in Slots
          BY <3>1, <2>1, <1>1 DEF Linked
    <3>3. QED  BY <1>1, <1>2, <1>3, <3>1, <3>2 DEF Linked, Unlinks
  <2>2. CASE j = i - 1
    <3>1. q[j] = p[i - 1] /\ q[j + 1] = p[i + 1] /\ i - 1 \in 1 .. k
          BY <2>2, <1>4
    <3>2. p[i - 1] # p[i] /\ p[i - 1] \in Slots
          BY <3>1, <2>2, <1>1 DEF Linked
    <3>3. QED  BY <1>1, <1>2, <1>3, <3>1, <3>2 DEF Linked, Unlinks
  <2>3. CASE j >= i
    <3>1. /\ q[j] = p[j + 1] /\ q[j + 1] = p[j + 2] /\ j + 1 \in 1 .. k
          /\ (j + 1) + 1 = j + 2
          BY <2>3, <1>4
    <3>2. p[j + 1] # p[i] /\ p[j + 1] \in Slots /\ p[j + 1] # p[i - 1]
      <4>1. p[j + 1] # p[i] /\ p[j + 1] \in Slots
            BY <3>1, <2>3, <1>1 DEF Linked
      <4>2. CASE i = 1
            BY <4>1, <4>2, <1>1, SlotsAreNat DEF Linked
      <4>3. CASE i # 1
        <5>1. i - 1 \in 1 .. k /\ i - 1 # j + 1
              BY <4>3, <1>4, <2>3
        <5>2. QED  BY <4>1, <5>1, <3>1, <1>1 DEF Linked
      <4>4. QED  BY <4>2, <4>3
    <3>3. QED  BY <1>1, <1>2, <1>3, <3>1, <3>2 DEF Linked, Unlinks
  <2>4. QED  BY <2>1, <2>2, <2>3
<1>6. ASSUME NEW j \in 1 .. k - 1, NEW m \in 1 .. k - 1, q[j] = q[m] PROVE j = m
  <2> DEFINE o(x) == IF x < i THEN x ELSE x + 1
  <2>1. q[j] = p[o(j)] /\ q[m] = p[o(m)] /\ o(j) \in 1 .. k /\ o(m) \in 1 .. k
        BY <1>4
  <2>2. o(j) = o(m)
        BY <2>1, <1>6, <1>1 DEF Linked
  <2>3. QED  BY <2>2, <1>4
<1>7. ASSUME NEW r \in Slots, \A j \in 1 .. k - 1 : q[j] # r PROVE c.slot[r] = FreeSlot
  <2>1. CASE r = s
        BY <2>1, <1>3
  <2>2. CASE r # s
    <3>1. ASSUME NEW m \in 1 .. k, p[m] = r PROVE FALSE
      <4>1. m # i
            BY <3>1, <2>2, <1>2
      <4>2. CASE m < i
        <5>1. m \in 1 .. k - 1 /\ q[m] = p[m]
              BY <4>2, <1>4
        <5>2. QED  BY <5>1, <3>1, <1>7
      <4>3. CASE m > i
        <5>1. m - 1 \in 1 .. k - 1 /\ q[m - 1] = p[m]
              BY <4>3, <1>4
        <5>2. QED  BY <5>1, <3>1, <1>7
      <4>4. QED  BY <4>1, <4>2, <4>3
    <3>2. ctx.slot[r] = FreeSlot
          BY <3>1, <1>1 DEF Linked
    <3>3. r # p[i - 1]
      <4>1. CASE i = 1
            BY <4>1, <1>1, SlotsAreNat DEF Linked
      <4>2. CASE i # 1
        <5>1. i - 1 \in 1 .. k
              BY <4>2, <1>4
        <5>2. QED  BY <5>1, <3>1
      <4>3. QED  BY <4>1, <4>2
    <3>4. QED  BY <3>2, <3>3, <2>2, <1>3 DEF Unlinks
  <2>3. QED  BY <2>1, <2>2
<1>8. /\ q \in [0 .. k -> Slots \cup {0}] /\ q[0] = 0 /\ q[k] = 0
      /\ c.First = q[1] /\ c.Last = q[k - 1]
  <2>1. \A j \in 0 .. k : j + 1 \in 0 .. k + 1 /\ j \in 0 .. k + 1
        BY <1>4
  <2>2. p[0] = 0 /\ p[k + 1] = 0 /\ p \in [0 .. k + 1 -> Slots \cup {0}]
        BY <1>1 DEF Linked
  <2>3. q \in [0 .. k -> Slots \cup {0}]
        BY <2>1, <2>2
  <2>4. q[0] = 0 /\ q[k] = 0
        BY <2>2, <1>4
  <2>5. c.First = q[1]
        BY <1>3, <1>4
  <2>6. c.Last = q[k - 1]
        BY <1>3, <1>4, <2>2
  <2>7. QED  BY <2>3, <2>4, <2>5, <2>6
<1>9. Linked(c, k - 1, q)
  <2> HIDE DEF q
  <2>1. QED  BY <1>3, <1>4, <1>5, <1>6, <1>7, <1>8 DEF Linked
<1>10. Sized(c, k - 1, q, h)
  <2>1. z \in Int /\ g \in [1 .. k + 1 -> Int] /\ g[k + 1] = 0 /\ ctx.SerializedCmdsSize = g[1]
    <3>1. ctx.slot[s].CID \in Cids
          BY <1>1, <1>2 DEF Linked
    <3>2. QED  BY <3>1, <1>1, CommandsAssumption DEF Sized
  <2>2. g[i] = z + g[i + 1]
        BY <1>1, <1>2 DEF Sized
  <2>3. h \in [1 .. k -> Int] /\ h[k] = 0
        BY <2>1, <1>4
  <2>4. c.SerializedCmdsSize = h[1]
        BY <2>1, <2>2, <1>3, <1>4
  <2>5. ASSUME NEW j \in 1 .. k - 1
        PROVE  h[j] = CmdSize[c.slot[q[j]].CID] + h[j + 1]
    <3>1. c.slot[q[j]].CID = ctx.slot[q[j]].CID /\ CmdSize[ctx.slot[q[j]].CID] \in Int
      <4> HIDE DEF q
      <4>1. QED  BY <1>5, CommandsAssumption
    <3>2. CASE j < i - 1
      <4>1. h[j] = g[j] - z /\ h[j + 1] = g[j + 1] - z /\ q[j] = p[j] /\ j \in 1 .. k
            /\ j + 1 \in 1 .. k + 1
            BY <3>2, <1>4
      <4>2. g[j] = CmdSize[ctx.slot[p[j]].CID] + g[j + 1]
            BY <4>1, <1>1 DEF Sized
      <4>3. QED  BY <4>1, <4>2, <3>1, <2>1
    <3>3. CASE j = i - 1
      <4>1. h[j] = g[j] - z /\ h[j + 1] = g[i + 1] /\ q[j] = p[j] /\ j \in 1 .. k
            /\ j + 1 = i /\ i \in 1 .. k + 1 /\ i + 1 \in 1 .. k + 1
            BY <3>3, <1>4
      <4>2. g[j] = CmdSize[ctx.slot[p[j]].CID] + g[i]
            BY <4>1, <1>1 DEF Sized
      <4>3. QED  BY <4>1, <4>2, <3>1, <2>1, <2>2
    <3>4. CASE j >= i
      <4>1. h[j] = g[j + 1] /\ h[j + 1] = g[(j + 1) + 1] /\ q[j] = p[j + 1] /\ j + 1 \in 1 .. k
            BY <3>4, <1>4
      <4>2. g[j + 1] = CmdSize[ctx.slot[p[j + 1]].CID] + g[(j + 1) + 1]
            BY <4>1, <1>1 DEF Sized
      <4>3. QED  BY <4>1, <4>2, <3>1
    <3>5. QED  BY <3>2, <3>3, <3>4
  <2> HIDE DEF h, q
  <2>6. QED  BY <1>4, <2>3, <2>4, <2>5 DEF Sized
<1>11. WellFormed(c)
  <2> HIDE DEF q, h
  <2>1. QED  BY <1>9, <1>10 DEF WellFormed
<1>12. ASSUME NEW r \in Slots
       PROVE  c.slot[r].CID = IF r = s THEN NoCid ELSE ctx.slot[r].CID
       BY <1>3 DEF FreeSlot, Unlinks
<1>13. QED  BY <1>11, <1>12 DEF c

(* What LoRaMacCommandsAddCmd makes of a slot s that is free. *)
Added(ctx, s, cid) ==
  [ListAdd(ctx, s) EXCEPT !.slot[s].CID = cid, !.SerializedCmdsSize = @ + CmdSize[cid]]
(* The context with the new element. *)
LEMMA Addition ==
  ASSUME NEW ctx, NEW k, NEW p, Linked(ctx, k, p), NEW cid \in Cids, NEW s \in FreeSlots(ctx),
         NEW c, c = Added(ctx, s, cid)
  PROVE  /\ c \in Contexts
         /\ c.First = IF ctx.First = 0 THEN s ELSE ctx.First
         /\ c.Last = s
         /\ c.SerializedCmdsSize = ctx.SerializedCmdsSize + CmdSize[cid]
         /\ c.slot[s] = [CID |-> cid, Next |-> 0]
         /\ Unlinks(c, ctx, s, ctx.Last, s)
<1> DEFINE last == ctx.Last
           linked == IF last = 0 THEN ctx ELSE [ctx EXCEPT !.slot[last].Next = s]
           added == [linked EXCEPT !.First = IF ctx.First = 0 THEN s ELSE @, !.Last = s,
                                   !.slot[s].Next = 0]
           z == CmdSize[cid]
           Slot == [CID : Cids \cup {NoCid}, Next : Slots \cup {0}]
<1>1. /\ ctx \in Contexts /\ s \in Slots /\ ctx.slot[s] = FreeSlot /\ z \in Int
      /\ last \in Slots \cup {0} /\ last # s /\ ctx.First \in Slots \cup {0}
  <2>1. ctx \in Contexts /\ s \in Slots /\ ctx.slot[s] = FreeSlot /\ z \in Int
        BY CommandsAssumption DEF Linked, FreeSlots
  <2>2. s # 0 /\ s \notin {p[i] : i \in 1 .. k}
        BY <2>1, SlotsAreNat, OnList DEF InUse, FreeSlot
  <2>3. last = p[k] /\ (k = 0 => last = 0) /\ (k # 0 => k \in 1 .. k)
        BY DEF Linked
  <2>4. last # s
        BY <2>2, <2>3
  <2>5. QED  BY <2>1, <2>4 DEF Contexts
<1>2. ListAdd(ctx, s) = added
      BY DEF ListAdd
<1>3. /\ linked \in Contexts /\ linked.First = ctx.First
      /\ linked.SerializedCmdsSize = ctx.SerializedCmdsSize
      /\ Unlinks(linked, ctx, s, last, s) /\ linked.slot[s] = FreeSlot
  <2>1. CASE last = 0
        BY <1>1, <2>1, SlotsAreNat DEF Contexts, Unlinks
  <2>2. CASE last # 0
    <3>1. last \in Slots
          BY <1>1, <2>2
    <3>2. linked = [ctx EXCEPT !.slot = [ctx.slot EXCEPT ![last] = [ctx.slot[last] EXCEPT !.Next = s]]]
          BY <2>2
    <3>3. QED  BY <1>1, <3>1, <3>2 DEF Contexts, Unlinks
  <2>3. QED  BY <2>1, <2>2
<1> HIDE DEF linked
<1>4. /\ added \in Contexts /\ added.Last = s
      /\ added.First = IF ctx.First = 0 THEN s ELSE ctx.First
      /\ added.SerializedCmdsSize = ctx.SerializedCmdsSize
      /\ added.slot[s] = FreeSlot
      /\ \A r \in Slots \ {s} : added.slot[r] = linked.slot[r]
  <2> DEFINE sl == [linked.slot EXCEPT ![s] = [linked.slot[s] EXCEPT !.Next = 0]]
             first == IF ctx.First = 0 THEN s ELSE linked.First
  <2>1. /\ sl \in [Slots -> Slot] /\ sl[s] = FreeSlot
        /\ \A r \in Slots \ {s} : sl[r] = linked.slot[r]
        BY <1>1, <1>3 DEF Contexts, FreeSlot
  <2>2. first \in Slots \cup {0} /\ first = IF ctx.First = 0 THEN s ELSE ctx.First
        BY <1>1, <1>3
  <2> HIDE DEF sl, first, Slot
  <2>3. added = [linked EXCEPT !.First = first, !.Last = s, !.slot = sl]
        BY DEF sl, first
  <2> HIDE DEF added
  <2>4. /\ added.First = first /\ added.Last = s /\ added.slot = sl
        /\ added.SerializedCmdsSize = linked.SerializedCmdsSize
        /\ added = [slot |-> sl, First |-> first, Last |-> s,
                   SerializedCmdsSize |-> linked.SerializedCmdsSize]
        BY <1>3, <2>3 DEF Contexts
  <2>5. added \in Contexts
    <3>1. linked.SerializedCmdsSize \in Int
          BY <1>3 DEF Contexts
    <3>2. QED  BY <1>1, <2>1, <2>2, <2>4, <3>1 DEF Contexts, Slot
  <2>6. QED  BY <1>3, <2>1, <2>2, <2>4, <2>5
<1> HIDE DEF added
<1>5. /\ c \in Contexts /\ c.First = added.First /\ c.Last = added.Last
      /\ c.SerializedCmdsSize = ctx.SerializedCmdsSize + z
      /\ c.slot[s] = [CID |-> cid, Next |-> 0]
      /\ \A r \in Slots \ {s} : c.slot[r] = added.slot[r]
  <2> DEFINE sl == [added.slot EXCEPT ![s] = [added.slot[s] EXCEPT !.CID = cid]]
             y == added.SerializedCmdsSize + z
  <2>1. c = [added EXCEPT !.slot = sl, !.SerializedCmdsSize = y]
        BY <1>2 DEF Added
  <2>2. /\ sl \in [Slots -> Slot] /\ sl[s] = [CID |-> cid, Next |-> 0]
        /\ \A r \in Slots \ {s} : sl[r] = added.slot[r]
        BY <1>1, <1>4 DEF Contexts, FreeSlot
  <2>3. y \in Int /\ y = ctx.SerializedCmdsSize + z
        BY <1>1, <1>4 DEF Contexts
  <2> HIDE DEF sl, y, Slot
  <2>4. /\ c.First = added.First /\ c.Last = added.Last /\ c.slot = sl
        /\ c.SerializedCmdsSize = y
        /\ c = [slot |-> sl, First |-> added.First, Last |-> added.Last, SerializedCmdsSize |-> y]
        BY <1>4, <2>1 DEF Contexts
  <2>5. c \in Contexts
        BY <1>4, <2>2, <2>3, <2>4 DEF Contexts, Slot
  <2>6. QED  BY <2>2, <2>3, <2>4, <2>5
<1>6. Unlinks(c, ctx, s, last, s)
      BY <1>3, <1>4, <1>5 DEF Unlinks
<1>7. QED  BY <1>4, <1>5, <1>6

(* A command is put at the end of the list, if a slot is left for it, and  *)
(* none that waits is touched.                                             *)
LEMMA AddKeeps ==
  ASSUME NEW ctx, WellFormed(ctx), NEW cid \in Cids
  PROVE  /\ WellFormed(AddCmd(ctx, cid))
         /\ \A r \in InUse(ctx) : AddCmd(ctx, cid).slot[r].CID = ctx.slot[r].CID
<1>1. PICK k, p, g : Linked(ctx, k, p) /\ Sized(ctx, k, p, g)
      BY DEF WellFormed
<1>2. CASE FreeSlots(ctx) = {}
      BY <1>2 DEF AddCmd
<1>3. CASE FreeSlots(ctx) # {}
  <2> DEFINE s == NewSlot(ctx)
             c == AddCmd(ctx, cid)
             z == CmdSize[cid]
             q == [j \in 0 .. k + 2 |-> IF j <= k THEN p[j] ELSE IF j = k + 1 THEN s ELSE 0]
             h == [j \in 1 .. k + 2 |-> IF j <= k + 1 THEN g[j] + z ELSE 0]
  <2>1. s \in FreeSlots(ctx)
    <3>1. FreeSlots(ctx) \in SUBSET Nat
          BY SlotsAreNat DEF FreeSlots
    <3>2. \E m \in FreeSlots(ctx) : \A r \in FreeSlots(ctx) : m <= r
          BY <3>1, <1>3, LeastNat
    <3>3. QED  BY <3>2 DEF NewSlot
  <2>2. c = Added(ctx, s, cid)
        BY <1>3 DEF AddCmd, Added
  <2> HIDE DEF c, s
  <2>3. /\ c \in Contexts
        /\ c.First = IF ctx.First = 0 THEN s ELSE ctx.First
        /\ c.Last = s
        /\ c.SerializedCmdsSize = ctx.SerializedCmdsSize + z
        /\ c.slot[s] = [CID |-> cid, Next |-> 0]
        /\ Unlinks(c, ctx, s, ctx.Last, s)
        BY <1>1, <2>1, <2>2, Addition
  <2>4. s \in Slots /\ s # 0 /\ ctx.slot[s].CID = NoCid /\ \A i \in 1 .. k : p[i] # s
    <3>1. s \in Slots /\ s # 0 /\ ctx.slot[s].CID = NoCid
          BY <2>1, SlotsAreNat DEF FreeSlots, FreeSlot
    <3>2. s \notin InUse(ctx)
          BY <3>1 DEF InUse
    <3>3. QED  BY <3>1, <3>2, <1>1, OnList
  <2>5. /\ k \in Nat /\ p \in [0 .. k + 1 -> Slots \cup {0}] /\ p[0] = 0 /\ p[k + 1] = 0
        /\ ctx.First = p[1] /\ ctx.Last = p[k]
        BY <1>1 DEF Linked
  <2>6. ASSUME NEW j \in 1 .. k + 1
        PROVE  /\ q[j] \in Slots /\ c.slot[q[j]].Next = q[j + 1] /\ c.slot[q[j]].CID \in Cids
    <3>1. CASE j < k
      <4>1. q[j] = p[j] /\ q[j + 1] = p[j + 1] /\ j \in 1 .. k /\ k \in 1 .. k /\ j # k
            BY <3>1, <2>5
      <4>2. p[j] \in Slots \ {s} /\ p[j] # p[k]
            BY <4>1, <2>4, <1>1 DEF Linked
      <4>3. ctx.slot[p[j]].Next = p[j + 1] /\ ctx.slot[p[j]].CID \in Cids
            BY <4>1, <1>1 DEF Linked
      <4>4. QED  BY <4>1, <4>2, <4>3, <2>3, <2>5 DEF Unlinks
    <3>2. CASE j = k
      <4>1. q[j] = p[k] /\ q[j + 1] = s /\ k \in 1 .. k
            BY <3>2, <2>5
      <4>2. p[k] \in Slots \ {s} /\ ctx.slot[p[k]].CID \in Cids
            BY <4>1, <2>4, <1>1 DEF Linked
      <4>3. QED  BY <4>1, <4>2, <2>3, <2>5 DEF Unlinks
    <3>3. CASE j = k + 1
      <4>1. q[j] = s /\ q[j + 1] = 0
            BY <3>3, <2>5
      <4>2. QED  BY <4>1, <2>3, <2>4
    <3>4. QED  BY <3>1, <3>2, <3>3, <2>5
  <2>7. ASSUME NEW j \in 1 .. k + 1, NEW m \in 1 .. k + 1, q[j] = q[m] PROVE j = m
    <3>1. \A i \in 1 .. k + 1 : (i \in 1 .. k /\ q[i] = p[i]) \/ (i = k + 1 /\ q[i] = s)
          BY <2>5
    <3> HIDE DEF q
    <3>2. QED  BY <3>1, <2>4, <2>7, <1>1 DEF Linked
  <2>8. ASSUME NEW r \in Slots, \A j \in 1 .. k + 1 : q[j] # r PROVE c.slot[r] = FreeSlot
    <3>1. q[k + 1] = s /\ k + 1 \in 1 .. k + 1
          BY <2>5
    <3>2. r # s
          BY <3>1, <2>8
    <3>3. ASSUME NEW i \in 1 .. k PROVE p[i] # r
      <4>1. q[i] = p[i] /\ i \in 1 .. k + 1
            BY <2>5
      <4>2. QED  BY <4>1, <2>8
    <3>4. ctx.slot[r] = FreeSlot
          BY <3>3, <1>1 DEF Linked
    <3>5. r # p[k]
      <4>1. CASE k = 0
            BY <4>1, <2>5, SlotsAreNat
      <4>2. CASE k # 0
            BY <4>2, <2>5, <3>3
      <4>3. QED  BY <4>1, <4>2
    <3>6. QED  BY <3>2, <3>4, <3>5, <2>3, <2>5 DEF Unlinks
  <2>9. /\ q \in [0 .. k + 2 -> Slots \cup {0}] /\ q[0] = 0 /\ q[k + 2] = 0
        /\ c.First = q[1] /\ c.Last = q[k + 1]
    <3>1. q \in [0 .. k + 2 -> Slots \cup {0}] /\ q[0] = 0 /\ q[k + 2] = 0
          BY <2>4, <2>5
    <3>2. c.First = q[1]
      <4>1. CASE k = 0
            BY <4>1, <2>3, <2>5
      <4>2. CASE k # 0
        <5>1. 1 \in 1 .. k /\ q[1] = p[1]
              BY <4>2, <2>5
        <5>2. p[1] # 0
              BY <5>1, <1>1, SlotsAreNat DEF Linked
        <5>3. QED  BY <5>1, <5>2, <2>3, <2>5
      <4>3. QED  BY <4>1, <4>2
    <3>3. QED  BY <3>1, <3>2, <2>3, <2>5
  <2>10. Linked(c, k + 1, q)
    <3>1. k + 1 \in Nat /\ (k + 1) + 1 = k + 2
          BY <2>5
    <3> HIDE DEF q
    <3>2. QED  BY <2>3, <2>6, <2>7, <2>8, <2>9, <3>1 DEF Linked
  <2>11. Sized(c, k + 1, q, h)
    <3>1. /\ z \in Int /\ g \in [1 .. k + 1 -> Int] /\ g[k + 1] = 0
          /\ ctx.SerializedCmdsSize = g[1]
          BY <1>1, CommandsAssumption DEF Sized
    <3>2. h \in [1 .. k + 2 -> Int] /\ h[k + 2] = 0 /\ c.SerializedCmdsSize = h[1]
          BY <3>1, <2>3, <2>5
    <3>3. ASSUME NEW j \in 1 .. k + 1
          PROVE  h[j] = CmdSize[c.slot[q[j]].CID] + h[j + 1]
      <4>1. CASE j = k + 1
        <5>1. k + 1 \in 1 .. k + 2 /\ k + 2 \in 1 .. k + 2 /\ ~(k + 2 <= k + 1) /\ ~(k + 1 <= k)
              /\ k + 1 <= k + 1 /\ j + 1 = k + 2 /\ k + 1 \in 0 .. k + 2
              BY <4>1, <2>5
        <5>2. q[j] = s
              BY <4>1, <5>1
        <5>3. h[j] = 0 + z
              BY <4>1, <5>1, <3>1
        <5>4. h[j + 1] = 0
              BY <5>1
        <5>5. CmdSize[c.slot[q[j]].CID] = z
              BY <5>2, <2>3
        <5>6. 0 + z = z + 0
              BY <3>1
        <5>7. QED  BY <5>3, <5>4, <5>5, <5>6
      <4>2. CASE j # k + 1
        <5>1. q[j] = p[j] /\ h[j] = g[j] + z /\ h[j + 1] = g[j + 1] + z /\ j \in 1 .. k
              /\ j + 1 \in 1 .. k + 1
              BY <4>2, <2>5
        <5>2. c.slot[p[j]].CID = ctx.slot[p[j]].CID /\ ctx.slot[p[j]].CID \in Cids
              BY <5>1, <1>1, <2>3, <2>4 DEF Linked, Unlinks
        <5>3. g[j] = CmdSize[ctx.slot[p[j]].CID] + g[j + 1] /\ CmdSize[ctx.slot[p[j]].CID] \in Int
              BY <5>1, <5>2, <1>1, CommandsAssumption DEF Sized
        <5>4. g[j + 1] \in Int
              BY <5>1, <3>1
        <5>5. CmdSize[c.slot[q[j]].CID] = CmdSize[ctx.slot[p[j]].CID]
              BY <5>1, <5>2
        <5> HIDE DEF h, q, z
        <5>6. QED  BY <5>1, <5>3, <5>4, <5>5, <3>1
      <4>3. QED  BY <4>1, <4>2
    <3> HIDE DEF h, q
    <3>4. QED  BY <2>5, <3>2, <3>3 DEF Sized
  <2>12. WellFormed(c)
    <3> HIDE DEF q, h
    <3>1. QED  BY <2>10, <2>11 DEF WellFormed
  <2>13. ASSUME NEW r \in InUse(ctx) PROVE c.slot[r].CID = ctx.slot[r].CID
         BY <2>3, <2>4 DEF InUse, Unlinks
  <2>14. QED  BY <2>12, <2>13 DEF c
<1>4. QED  BY <1>2, <1>3

-----------------------------------------------------------------------------
(* The loops over the list. *)

(* They meet its slots in their order, and end. *)
LEMMA ElementsAre ==
  ASSUME NEW ctx, NEW k, NEW p, Linked(ctx, k, p)
  PROVE  Elements(ctx) = [j \in 1 .. k |-> p[j]]
<1> DEFINE N == Slots \cup {0}
           Follow(f) == f = [s \in N |-> IF s = 0 THEN <<>> ELSE <<s>> \o f[ctx.slot[s].Next]]
           follow == CHOOSE f : Follow(f)
           X == Seq(Slots)
           e == [s \in Slots |-> [v \in X |-> <<s>> \o v]]
           rest(i) == [j \in 1 .. k + 1 - i |-> p[i + j - 1]]
<1>1. Elements(ctx) = follow[ctx.First]
      BY DEF Elements
<1>2. PICK f : Walks(f, ctx, <<>>, e) /\ \A s \in Slots : f[ctx.slot[s].Next] \in X
  <2>1. \A i \in 1 .. k : \A v \in X : e[p[i]][v] \in X
    <3> SUFFICES ASSUME NEW i \in 1 .. k, NEW v \in X PROVE e[p[i]][v] \in X
        OBVIOUS
    <3>1. p[i] \in Slots
          BY DEF Linked
    <3>2. <<p[i]>> \in X /\ <<p[i]>> \o v \in X
          BY <3>1
    <3>3. QED  BY <3>1, <3>2
  <2>2. <<>> \in X
        OBVIOUS
  <2> HIDE DEF X, e
  <2>3. QED  BY <2>1, <2>2, WalkExists
<1>3. Follow(f)
  <2>1. \A s \in N : (IF s = 0 THEN <<>> ELSE e[s][f[ctx.slot[s].Next]])
                      = IF s = 0 THEN <<>> ELSE <<s>> \o f[ctx.slot[s].Next]
        BY <1>2
  <2>2. QED  BY <1>2, <2>1 DEF Walks
<1>4. Follow(follow)
  <2> HIDE DEF Follow
  <2>1. QED  BY <1>3
<1>5. \A s \in N : follow[s] = IF s = 0 THEN <<>> ELSE <<s>> \o follow[ctx.slot[s].Next]
  <2> HIDE DEF follow
  <2>1. QED  BY <1>4
<1> HIDE DEF follow
<1> DEFINE S == {i \in 1 .. k + 1 : follow[p[i]] = rest(i)}
<1>6. k \in Nat /\ k + 1 \in S
  <2>1. k \in Nat /\ p[k + 1] = 0
        BY DEF Linked
  <2>2. rest(k + 1) = <<>>
        BY <2>1
  <2>3. follow[p[k + 1]] = <<>>
        BY <1>5, <2>1
  <2>4. follow[p[k + 1]] = rest(k + 1)
        BY <2>2, <2>3, Zenon
  <2> HIDE DEF rest
  <2>5. QED  BY <2>1, <2>4
<1>7. ASSUME NEW i \in 1 .. k, i + 1 \in S PROVE i \in S
  <2>1. p[i] \in Slots /\ p[i] # 0 /\ ctx.slot[p[i]].Next = p[i + 1]
        /\ \A j \in 1 .. k : p[j] \in Slots
        BY SlotsAreNat DEF Linked
  <2>2. follow[p[i]] = <<p[i]>> \o rest(i + 1)
        BY <1>5, <1>7, <2>1
  <2>3. rest(i + 1) \in Seq(Slots) /\ Len(rest(i + 1)) = k - i /\ k - i \in Nat
    <3>1. k - i \in Nat /\ k + 1 - (i + 1) = k - i
          BY <1>6
    <3>2. \A j \in 1 .. k - i : i + 1 + j - 1 \in 1 .. k
          BY <1>6
    <3>3. rest(i + 1) \in [1 .. k - i -> Slots]
          BY <3>1, <3>2, <2>1
    <3>4. QED  BY <3>1, <3>3
  <2>4. rest(i) \in Seq(Slots) /\ Len(rest(i)) = k - i + 1
    <3>1. k - i + 1 \in Nat /\ k + 1 - i = k - i + 1
          BY <1>6
    <3>2. \A j \in 1 .. k - i + 1 : i + j - 1 \in 1 .. k
          BY <1>6
    <3>3. rest(i) \in [1 .. k - i + 1 -> Slots]
          BY <3>1, <3>2, <2>1
    <3>4. QED  BY <3>1, <3>3
  <2>5. ASSUME NEW j \in 1 .. k - i + 1 PROVE (<<p[i]>> \o rest(i + 1))[j] = rest(i)[j]
    <3>1. CASE j = 1
          BY <3>1, <1>6, <2>3
    <3>2. CASE j # 1
      <4>1. j - 1 \in 1 .. k - i /\ i + 1 + (j - 1) - 1 = i + j - 1 /\ k + 1 - (i + 1) = k - i
            /\ j \in 1 .. k + 1 - i
            BY <3>2, <1>6
      <4>2. rest(i + 1)[j - 1] = p[i + j - 1] /\ rest(i)[j] = p[i + j - 1]
            BY <4>1
      <4> DEFINE r == rest(i + 1)
      <4>3. r \in Seq(Slots) /\ Len(r) = k - i /\ k - i \in Nat
            BY <2>3
      <4> HIDE DEF r
      <4>4. (<<p[i]>> \o r)[j] = r[j - 1]
            BY <3>2, <4>3, <2>1
      <4>5. QED  BY <4>2, <4>4 DEF r
    <3>3. QED  BY <3>1, <3>2
  <2>6. <<p[i]>> \o rest(i + 1) = rest(i)
    <3> DEFINE r == rest(i + 1)
               t == rest(i)
    <3>1. r \in Seq(Slots) /\ t \in Seq(Slots) /\ Len(r) = k - i /\ Len(t) = k - i + 1 /\ k - i \in Nat
          /\ \A j \in 1 .. k - i + 1 : (<<p[i]>> \o r)[j] = t[j]
          BY <2>3, <2>4, <2>5
    <3> HIDE DEF r, t
    <3>2. <<p[i]>> \o r \in Seq(Slots) /\ Len(<<p[i]>> \o r) = k - i + 1
          BY <3>1, <2>1
    <3>3. <<p[i]>> \o r = t
          BY <3>1, <3>2
    <3>4. QED  BY <3>3 DEF r, t
  <2>7. follow[p[i]] = rest(i)
        BY <2>2, <2>6, Zenon
  <2> HIDE DEF rest
  <2>8. QED  BY <1>6, <2>7
<1>8. 1 \in S
  <2> HIDE DEF S
  <2>1. 1 .. k + 1 \subseteq S
        BY <1>6, <1>7, Downward
  <2>2. QED  BY <1>6, <2>1
<1>9. ctx.First = p[1] /\ k + 1 - 1 = k /\ \A j \in 1 .. k : 1 + j - 1 = j
      BY <1>6 DEF Linked
<1>10. rest(1) = [j \in 1 .. k |-> p[j]]
      BY <1>9
<1>11. QED  BY <1>1, <1>8, <1>9, <1>10

(* The account of their sizes is their sum. *)
LEMMA SizeIs ==
  ASSUME NEW ctx, NEW k, NEW p, NEW g, Linked(ctx, k, p), Sized(ctx, k, p, g)
  PROVE  SizeOnList(ctx) = ctx.SerializedCmdsSize
<1> DEFINE N == Slots \cup {0}
           From(f) == f = [s \in N |-> IF s = 0 THEN 0
                                       ELSE CmdSize[ctx.slot[s].CID] + f[ctx.slot[s].Next]]
           from == CHOOSE f : From(f)
           e == [s \in Slots |-> [v \in Int |-> CmdSize[ctx.slot[s].CID] + v]]
<1>1. SizeOnList(ctx) = from[ctx.First]
      BY DEF SizeOnList
<1>2. PICK f : Walks(f, ctx, 0, e) /\ \A s \in Slots : f[ctx.slot[s].Next] \in Int
  <2>1. \A i \in 1 .. k : \A v \in Int : e[p[i]][v] \in Int
        BY CommandsAssumption DEF Linked
  <2>2. 0 \in Int
        OBVIOUS
  <2> HIDE DEF e
  <2>3. QED  BY <2>1, <2>2, WalkExists
<1>3. From(f)
  <2>1. \A s \in N : (IF s = 0 THEN 0 ELSE e[s][f[ctx.slot[s].Next]])
                      = IF s = 0 THEN 0 ELSE CmdSize[ctx.slot[s].CID] + f[ctx.slot[s].Next]
        BY <1>2
  <2>2. QED  BY <1>2, <2>1 DEF Walks
<1>4. From(from)
  <2> HIDE DEF From
  <2>1. QED  BY <1>3
<1>5. \A s \in N : from[s] = IF s = 0 THEN 0 ELSE CmdSize[ctx.slot[s].CID] + from[ctx.slot[s].Next]
  <2> HIDE DEF from
  <2>1. QED  BY <1>4
<1> HIDE DEF from
<1> DEFINE S == {i \in 1 .. k + 1 : from[p[i]] = g[i]}
<1>6. k \in Nat /\ k + 1 \in S
      BY <1>5 DEF Linked, Sized
<1>7. ASSUME NEW i \in 1 .. k, i + 1 \in S PROVE i \in S
  <2>1. p[i] \in Slots /\ p[i] # 0 /\ ctx.slot[p[i]].Next = p[i + 1]
        BY SlotsAreNat DEF Linked
  <2>2. from[p[i]] = CmdSize[ctx.slot[p[i]].CID] + from[p[i + 1]]
        BY <1>5, <2>1
  <2>3. QED  BY <1>6, <1>7, <2>2 DEF Sized
<1>8. 1 \in S
  <2> HIDE DEF S
  <2>1. 1 .. k + 1 \subseteq S
        BY <1>6, <1>7, Downward
  <2>2. QED  BY <1>6, <2>1
<1>9. QED  BY <1>1, <1>8 DEF Linked, Sized

(* Every size from an element to the end is a natural number. *)
LEMMA SizesAreNat ==
  ASSUME NEW ctx, NEW k, NEW p, NEW g, Linked(ctx, k, p), Sized(ctx, k, p, g)
  PROVE  \A i \in 1 .. k + 1 : g[i] \in Nat
<1> DEFINE S == {i \in 1 .. k + 1 : g[i] \in Nat}
<1>1. k \in Nat /\ k + 1 \in S
      BY DEF Linked, Sized
<1>2. ASSUME NEW i \in 1 .. k, i + 1 \in S PROVE i \in S
  <2>1. CmdSize[ctx.slot[p[i]].CID] \in Nat
        BY CommandsAssumption DEF Linked
  <2>2. QED  BY <1>1, <1>2, <2>1 DEF Sized
<1> HIDE DEF S
<1>3. 1 .. k + 1 \subseteq S
      BY <1>1, <1>2, Downward
<1>4. QED  BY <1>3 DEF S

(* When the room in a frame is as long as the account says, every command  *)
(* is written into it.                                                     *)
LEMMA AllSerialized ==
  ASSUME NEW ctx, WellFormed(ctx), NEW room \in Nat, ctx.SerializedCmdsSize <= room
  PROVE  SerializeCmds(ctx, room) = InUse(ctx)
<1>1. PICK k, p, g : Linked(ctx, k, p) /\ Sized(ctx, k, p, g)
      BY DEF WellFormed
<1> DEFINE N == Slots \cup {0}
           R == 0 .. room
           size(s) == CmdSize[ctx.slot[s].CID]
           Write(f) == f = [s \in N |-> [r \in R |->
                              IF s = 0 \/ size(s) > r THEN {}
                              ELSE {s} \cup f[ctx.slot[s].Next][r - size(s)]]]
           from == CHOOSE f : Write(f)
           X == [R -> SUBSET Slots]
           base == [r \in R |-> {}]
           e == [s \in Slots |-> [v \in X |-> [r \in R |->
                    IF size(s) > r THEN {} ELSE {s} \cup v[r - size(s)]]]]
<1>2. SerializeCmds(ctx, room) = from[ctx.First][room]
      BY DEF SerializeCmds
<1>3. \A i \in 1 .. k : p[i] \in Slots /\ p[i] # 0 /\ size(p[i]) \in Nat
                       /\ ctx.slot[p[i]].Next = p[i + 1]
      BY <1>1, SlotsAreNat, CommandsAssumption DEF Linked
<1>4. PICK f : Walks(f, ctx, base, e) /\ \A s \in Slots : f[ctx.slot[s].Next] \in X
  <2>1. ASSUME NEW i \in 1 .. k, NEW v \in X PROVE e[p[i]][v] \in X
    <3>1. \A r \in R : ~(size(p[i]) > r) => r - size(p[i]) \in R
          BY <1>3
    <3>2. \A r \in R : (IF size(p[i]) > r THEN {} ELSE {p[i]} \cup v[r - size(p[i])]) \in SUBSET Slots
          BY <1>3, <3>1
    <3> HIDE DEF R
    <3>3. QED  BY <1>3, <3>2
  <2>2. base \in X
        OBVIOUS
  <2> HIDE DEF X, e, base
  <2>3. QED  BY <1>1, <2>1, <2>2, WalkExists
<1>5. Write(f)
  <2>1. ASSUME NEW s \in N
        PROVE  (IF s = 0 THEN base ELSE e[s][f[ctx.slot[s].Next]])
                 = [r \in R |-> IF s = 0 \/ size(s) > r THEN {}
                                ELSE {s} \cup f[ctx.slot[s].Next][r - size(s)]]
    <3>1. CASE s = 0
          BY <3>1
    <3>2. CASE s # 0
          BY <3>2, <1>4
    <3>3. QED  BY <3>1, <3>2
  <2> HIDE DEF N, R, base, e, size
  <2>2. QED  BY <1>4, <2>1 DEF Walks, N
<1>6. Write(from)
  <2> HIDE DEF Write
  <2>1. QED  BY <1>5
<1>7. \A s \in N : from[s] = [r \in R |-> IF s = 0 \/ size(s) > r THEN {}
                                         ELSE {s} \cup from[ctx.slot[s].Next][r - size(s)]]
  <2> HIDE DEF from
  <2>1. QED  BY <1>6
<1> HIDE DEF from
<1> DEFINE S == {i \in 1 .. k + 1 : \A r \in R : g[i] <= r => from[p[i]][r] = {p[j] : j \in i .. k}}
<1>8. k \in Nat /\ k + 1 \in S
  <2>1. k \in Nat /\ p[k + 1] = 0
        BY <1>1 DEF Linked
  <2>2. \A r \in R : from[0][r] = {}
        BY <1>7
  <2>3. {p[j] : j \in k + 1 .. k} = {}
        BY <2>1
  <2>4. QED  BY <2>1, <2>2, <2>3
<1>9. ASSUME NEW i \in 1 .. k, i + 1 \in S PROVE i \in S
  <2> SUFFICES ASSUME NEW r \in R, g[i] <= r PROVE from[p[i]][r] = {p[j] : j \in i .. k}
      BY <1>8
  <2>1. g[i] = size(p[i]) + g[i + 1] /\ g[i + 1] \in Nat
    <3>1. \A j \in 1 .. k + 1 : g[j] \in Nat
          BY <1>1, SizesAreNat
    <3>2. QED  BY <1>1, <1>8, <3>1 DEF Sized
  <2>2. ~(size(p[i]) > r) /\ r - size(p[i]) \in R /\ g[i + 1] <= r - size(p[i])
        BY <1>3, <2>1
  <2>3. from[p[i]][r] = {p[i]} \cup from[p[i + 1]][r - size(p[i])]
    <3>1. from[p[i]] = [y \in R |-> IF p[i] = 0 \/ size(p[i]) > y THEN {}
                                    ELSE {p[i]} \cup from[ctx.slot[p[i]].Next][y - size(p[i])]]
          BY <1>3, <1>7
    <3>2. from[p[i]][r] = IF p[i] = 0 \/ size(p[i]) > r THEN {}
                          ELSE {p[i]} \cup from[ctx.slot[p[i]].Next][r - size(p[i])]
      <4> HIDE DEF R, size
      <4>1. QED  BY <3>1
    <3>3. QED  BY <1>3, <2>2, <3>2
  <2>4. from[p[i + 1]][r - size(p[i])] = {p[j] : j \in i + 1 .. k}
        BY <1>9, <2>2
  <2>5. i .. k = {i} \cup (i + 1 .. k)
        BY <1>8
  <2>6. QED  BY <2>3, <2>4, <2>5
<1>10. 1 \in S
  <2> HIDE DEF S
  <2>1. 1 .. k + 1 \subseteq S
        BY <1>8, <1>9, Downward
  <2>2. QED  BY <1>8, <2>1
<1>11. from[ctx.First][room] = {p[j] : j \in 1 .. k}
      BY <1>1, <1>10 DEF Linked, Sized
<1>12. QED  BY <1>1, <1>2, <1>11, OnList

(* Every slot in use is on the list once, so there are as many elements as *)
(* slots in use; the last is where Last says.                              *)
LEMMA ListIsWhole ==
  ASSUME NEW ctx, WellFormed(ctx)
  PROVE  /\ ctx \in Context
         /\ ToSet(Elements(ctx)) = InUse(ctx)
         /\ Len(Elements(ctx)) = Cardinality(InUse(ctx))
         /\ ctx.Last = IF InUse(ctx) = {} THEN 0 ELSE Elements(ctx)[Cardinality(InUse(ctx))]
         /\ ctx.SerializedCmdsSize = SizeOnList(ctx)
<1>1. PICK k, p, g : Linked(ctx, k, p) /\ Sized(ctx, k, p, g)
      BY DEF WellFormed
<1> DEFINE l == [j \in 1 .. k |-> p[j]]
<1>2. Elements(ctx) = l /\ k \in Nat
  <2>1. k \in Nat
        BY <1>1 DEF Linked
  <2>2. Elements(ctx) = l
        BY <1>1, ElementsAre, Zenon
  <2>3. QED  BY <2>1, <2>2
<1>3. InUse(ctx) = {p[i] : i \in 1 .. k}
      BY <1>1, OnList
<1>4. ToSet(l) = InUse(ctx)
      BY <1>3 DEF ToSet
<1>5. Len(l) = k
      BY <1>2
<1>6. Cardinality(InUse(ctx)) = k
  <2>1. l \in Bijection(1 .. k, InUse(ctx))
    <3>1. l \in [1 .. k -> InUse(ctx)]
          BY <1>3
    <3>2. \A i, j \in 1 .. k : l[i] = l[j] => i = j
          BY <1>1 DEF Linked
    <3>3. \A s \in InUse(ctx) : \E i \in 1 .. k : l[i] = s
          BY <1>3
    <3> HIDE DEF l
    <3>4. QED  BY <3>1, <3>2, <3>3 DEF Bijection, Injection, Surjection, IsInjective
  <2> HIDE DEF l
  <2>2. QED  BY <1>2, <2>1, FS_CountingElements DEF ExistsBijection
<1>7. ctx.Last = IF InUse(ctx) = {} THEN 0 ELSE l[k]
  <2>1. ctx.Last = p[k] /\ p[0] = 0
        BY <1>1 DEF Linked
  <2>2. CASE k = 0
    <3>1. InUse(ctx) = {}
          BY <2>2, <1>3
    <3>2. QED  BY <2>1, <2>2, <3>1
  <2>3. CASE k # 0
    <3>1. k \in 1 .. k
          BY <1>2, <2>3
    <3>2. p[k] \in InUse(ctx) /\ l[k] = p[k]
          BY <1>3, <3>1
    <3>3. QED  BY <2>1, <3>2
  <2>4. QED  BY <2>2, <2>3
<1>8. ctx.SerializedCmdsSize = SizeOnList(ctx)
      BY <1>1, SizeIs
<1>9. ctx \in Context
  <2>1. g[1] \in Nat /\ ctx.SerializedCmdsSize = g[1]
    <3>1. \A i \in 1 .. k + 1 : g[i] \in Nat
          BY <1>1, SizesAreNat
    <3>2. 1 \in 1 .. k + 1
          BY <1>2
    <3>3. QED  BY <1>1, <3>1, <3>2 DEF Sized
  <2>2. QED  BY <1>1, <2>1 DEF Linked, Contexts, Context
<1>10. QED  BY <1>2, <1>4, <1>5, <1>6, <1>7, <1>8, <1>9

(* What a loop of n steps leaves, as long as each step takes a value of one *)
(* set to one of the next.                                                  *)
Loops(f, n, base, step) == f = [j \in 0 .. n |-> IF j = 0 THEN base ELSE step[j][f[j - 1]]]
LEMMA LoopStays ==
  ASSUME NEW n \in Nat, NEW base, NEW step, NEW J, base \in J[0],
         \A j \in 1 .. n : \A v \in J[j - 1] : step[j][v] \in J[j]
  PROVE  \E f : Loops(f, n, base, step) /\ \A j \in 1 .. n : f[j - 1] \in J[j - 1]
<1>1. PICK h : Runs(h, n, base, step)
      BY LoopExists
<1> DEFINE f == [j \in 0 .. n |-> h[j]]
<1>2. ASSUME NEW j \in 0 .. n PROVE f[j] = IF j = 0 THEN base ELSE step[j][f[j - 1]]
      BY <1>1 DEF Runs
<1>3. Loops(f, n, base, step)
  <2> HIDE DEF f
  <2>1. f = [j \in 0 .. n |-> f[j]]
        BY DEF f
  <2>2. QED  BY <1>2, <2>1, Zenon DEF Loops
<1> HIDE DEF f
<1> DEFINE S == {j \in 0 .. n : f[j] \in J[j]}
<1>4. 0 \in S
      BY <1>2
<1>5. ASSUME NEW j \in 1 .. n, j - 1 \in S PROVE j \in S
  <2>1. f[j] = step[j][f[j - 1]] /\ f[j - 1] \in J[j - 1]
        BY <1>2, <1>5
  <2>2. QED  BY <2>1
<1> HIDE DEF S
<1>6. 0 .. n \subseteq S
      BY <1>4, <1>5, Upward
<1>7. \A j \in 1 .. n : f[j - 1] \in J[j - 1]
      BY <1>6 DEF S
<1>8. QED  BY <1>3, <1>7, Zenon

(* A frame is made: of the commands, those that are sticky stay.           *)
LEMMA StickyStay ==
  ASSUME NEW ctx, WellFormed(ctx)
  PROVE  /\ WellFormed(RemoveNoneStickyCmds(ctx))
         /\ \A s \in Slots : RemoveNoneStickyCmds(ctx).slot[s].CID =
                               IF IsSticky(ctx.slot[s].CID) THEN ctx.slot[s].CID ELSE NoCid
<1>1. PICK k, p, g : Linked(ctx, k, p) /\ Sized(ctx, k, p, g)
      BY DEF WellFormed
<1> DEFINE list == Elements(ctx)
           n == Len(list)
           cid(s) == ctx.slot[s].CID
           Step(j, c) == IF IsSticky(ctx.slot[list[j]].CID) THEN c ELSE RemoveCmd(c, list[j])
           Loop(f) == f = [j \in 0 .. n |-> IF j = 0 THEN ctx ELSE Step(j, f[j - 1])]
           after == CHOOSE f : Loop(f)
           gone(j) == {list[i] : i \in {m \in 1 .. j : ~IsSticky(cid(list[m]))}}
           J == [j \in 0 .. n |-> {c \in Contexts : WellFormed(c) /\
                  \A s \in Slots : c.slot[s].CID = IF s \in gone(j) THEN NoCid ELSE cid(s)}]
           step == [j \in 1 .. n |-> [c \in J[j - 1] |-> Step(j, c)]]
<1>2. RemoveNoneStickyCmds(ctx) = after[n]
      BY DEF RemoveNoneStickyCmds
<1>3. /\ n \in Nat /\ \A j \in 1 .. n : list[j] \in InUse(ctx)
      /\ \A i, j \in 1 .. n : list[i] = list[j] => i = j
      /\ InUse(ctx) = {list[j] : j \in 1 .. n}
  <2>1. list = [j \in 1 .. k |-> p[j]] /\ k \in Nat
    <3>1. list = [j \in 1 .. k |-> p[j]]
          BY <1>1, ElementsAre, Zenon
    <3>2. QED  BY <3>1, <1>1 DEF Linked
  <2>2. n = k
        BY <2>1
  <2>3. InUse(ctx) = {p[i] : i \in 1 .. k}
        BY <1>1, OnList
  <2>4. QED  BY <2>1, <2>2, <2>3, <1>1 DEF Linked
<1> HIDE DEF list, n
<1>4. ASSUME NEW j \in 1 .. n, NEW c \in J[j - 1] PROVE Step(j, c) \in J[j]
  <2>1. /\ c \in Contexts /\ WellFormed(c)
        /\ \A s \in Slots : c.slot[s].CID = IF s \in gone(j - 1) THEN NoCid ELSE cid(s)
        BY <1>3
  <2>2. gone(j) = gone(j - 1) \cup (IF IsSticky(cid(list[j])) THEN {} ELSE {list[j]})
    <3>1. 1 .. j = (1 .. j - 1) \cup {j}
          BY <1>3
    <3>2. QED  BY <3>1
  <2>3. CASE IsSticky(cid(list[j]))
        BY <1>3, <2>1, <2>2, <2>3
  <2>4. CASE ~IsSticky(cid(list[j]))
    <3>1. list[j] \in Slots /\ list[j] \notin gone(j - 1) /\ cid(list[j]) # NoCid
          BY <1>3 DEF InUse
    <3>2. list[j] \in InUse(c)
          BY <2>1, <3>1 DEF InUse
    <3> DEFINE r == RemoveCmd(c, list[j])
    <3>3. /\ WellFormed(r)
          /\ \A s \in Slots : r.slot[s].CID = IF s = list[j] THEN NoCid ELSE c.slot[s].CID
          BY <2>1, <3>2, RemoveKeeps
    <3>4. r \in Contexts
          BY <3>3 DEF WellFormed, Linked
    <3>5. \A s \in Slots : r.slot[s].CID = IF s \in gone(j) THEN NoCid ELSE cid(s)
          BY <2>1, <2>2, <2>4, <3>3
    <3>6. Step(j, c) = r
          BY <2>4
    <3> HIDE DEF r, gone
    <3>7. QED  BY <1>3, <3>3, <3>4, <3>5, <3>6
  <2>5. QED  BY <2>3, <2>4
<1>5. ctx \in J[0]
  <2>1. gone(0) = {}
        OBVIOUS
  <2>2. ctx \in Contexts
        BY <1>1 DEF Linked
  <2> HIDE DEF gone
  <2>3. QED  BY <1>3, <2>1, <2>2
<1>6. Loop(after)
  <2>1. ASSUME NEW j \in 1 .. n, NEW v \in J[j - 1] PROVE step[j][v] = Step(j, v)
        OBVIOUS
  <2>2. \A j \in 1 .. n : \A v \in J[j - 1] : step[j][v] \in J[j]
    <3> HIDE DEF step, J, Step
    <3>1. QED  BY <1>4, <2>1
  <2>3. PICK f : Loops(f, n, ctx, step) /\ \A j \in 1 .. n : f[j - 1] \in J[j - 1]
    <3> HIDE DEF step, J
    <3>1. QED  BY <1>3, <1>5, <2>2, LoopStays
  <2>4. Loop(f)
    <3> HIDE DEF step, J, Step
    <3>1. ASSUME NEW j \in 0 .. n
          PROVE  (IF j = 0 THEN ctx ELSE step[j][f[j - 1]]) = IF j = 0 THEN ctx ELSE Step(j, f[j - 1])
          BY <1>3, <2>1, <2>3
    <3>2. QED  BY <2>3, <3>1 DEF Loops
  <2> HIDE DEF Loop
  <2>5. QED  BY <2>4
<1>7. \A j \in 0 .. n : after[j] = IF j = 0 THEN ctx ELSE Step(j, after[j - 1])
  <2> HIDE DEF after, Step
  <2>1. QED  BY <1>6
<1>8. after[n] \in J[n]
  <2> DEFINE S == {j \in 0 .. n : after[j] \in J[j]}
  <2> HIDE DEF after, Step, J
  <2>1. 0 \in S
        BY <1>3, <1>5, <1>7
  <2>2. \A j \in 1 .. n : j - 1 \in S => j \in S
        BY <1>3, <1>4, <1>7
  <2> HIDE DEF S
  <2>3. 0 .. n \subseteq S
        BY <1>3, <2>1, <2>2, Upward
  <2>4. n \in S
        BY <1>3, <2>3
  <2>5. QED  BY <2>4 DEF S
<1>9. ASSUME NEW s \in Slots
      PROVE  after[n].slot[s].CID = IF IsSticky(cid(s)) THEN cid(s) ELSE NoCid
  <2> HIDE DEF after
  <2>1. after[n].slot[s].CID = IF s \in gone(n) THEN NoCid ELSE cid(s)
        BY <1>3, <1>8
  <2>2. s \in gone(n) <=> s \in InUse(ctx) /\ ~IsSticky(cid(s))
        BY <1>3
  <2>3. QED  BY <2>1, <2>2 DEF InUse
<1>10. WellFormed(after[n])
  <2> HIDE DEF after
  <2>1. QED  BY <1>3, <1>8
<1> HIDE DEF after
<1>11. QED  BY <1>2, <1>9, <1>10

(* The sticky answers are given up: nothing else is.                       *)
LEMMA StickyGo ==
  ASSUME NEW ctx, WellFormed(ctx)
  PROVE  /\ WellFormed(RemoveStickyAnsCmds(ctx))
         /\ \A s \in Slots :
              \/ RemoveStickyAnsCmds(ctx).slot[s].CID = ctx.slot[s].CID
              \/ /\ RemoveStickyAnsCmds(ctx).slot[s].CID = NoCid
                 /\ IsSticky(ctx.slot[s].CID)
<1> DEFINE n == Len(StickyCids)
           Step(j, c) == RemoveIfFound(c, StickyCids[j])
           Loop(f) == f = [j \in 0 .. n |-> IF j = 0 THEN ctx ELSE Step(j, f[j - 1])]
           after == CHOOSE f : Loop(f)
           Left(c) == \A s \in Slots : \/ c.slot[s].CID = ctx.slot[s].CID
                                       \/ c.slot[s].CID = NoCid /\ IsSticky(ctx.slot[s].CID)
           J == [j \in 0 .. n |-> {c \in Contexts : WellFormed(c) /\ Left(c)}]
           step == [j \in 1 .. n |-> [c \in J[j - 1] |-> Step(j, c)]]
<1>1. RemoveStickyAnsCmds(ctx) = after[n]
      BY DEF RemoveStickyAnsCmds
<1>2. n \in Nat /\ \A j \in 1 .. n : StickyCids[j] \in Cids /\ IsSticky(StickyCids[j])
      BY CommandsAssumption DEF IsSticky, ToSet
<1>3. NoCid \notin Cids
      BY CommandsAssumption
<1> HIDE DEF n
<1>4. ASSUME NEW j \in 1 .. n, NEW c \in J[j - 1] PROVE Step(j, c) \in J[j]
  <2>1. c \in Contexts /\ WellFormed(c) /\ Left(c)
        BY <1>2
  <2> DEFINE sought == {s \in Slots : c.slot[s].CID = StickyCids[j]}
             found == GetCmd(c, StickyCids[j])
  <2>2. found = 0 \/ found \in sought
    <3>1. PICK k, p : Linked(c, k, p)
          BY <2>1 DEF WellFormed
    <3> HIDE DEF sought
    <3>2. FirstOf(c, sought) = 0 \/ FirstOf(c, sought) \in sought
          BY <3>1, Seeking
    <3>3. QED  BY <3>2 DEF GetCmd, sought
  <2>3. CASE found = 0
    <3>1. Step(j, c) = c
          BY <2>3 DEF RemoveIfFound
    <3> HIDE DEF Step, Left
    <3>2. QED  BY <1>2, <2>1, <3>1
  <2>4. CASE found # 0
    <3> DEFINE r == RemoveCmd(c, found)
    <3>1. Step(j, c) = r
          BY <2>4 DEF RemoveIfFound
    <3>2. found \in Slots /\ c.slot[found].CID = StickyCids[j]
          BY <2>2, <2>4
    <3>3. found \in InUse(c) /\ IsSticky(ctx.slot[found].CID)
          BY <1>2, <1>3, <2>1, <3>2 DEF InUse
    <3>4. /\ WellFormed(r)
          /\ \A s \in Slots : r.slot[s].CID = IF s = found THEN NoCid ELSE c.slot[s].CID
          BY <2>1, <3>3, RemoveKeeps
    <3>5. r \in Contexts
          BY <3>4 DEF WellFormed, Linked
    <3>6. Left(r)
          BY <2>1, <3>3, <3>4
    <3> HIDE DEF r, Left, Step
    <3>7. QED  BY <1>2, <3>1, <3>4, <3>5, <3>6
  <2>5. QED  BY <2>3, <2>4
<1>5. ctx \in J[0]
  <2>1. ctx \in Contexts
        BY DEF WellFormed, Linked
  <2>2. QED  BY <1>2, <2>1
<1>6. Loop(after)
  <2>1. ASSUME NEW j \in 1 .. n, NEW v \in J[j - 1] PROVE step[j][v] = Step(j, v)
        OBVIOUS
  <2>2. \A j \in 1 .. n : \A v \in J[j - 1] : step[j][v] \in J[j]
    <3> HIDE DEF step, J, Step
    <3>1. QED  BY <1>4, <2>1
  <2>3. PICK f : Loops(f, n, ctx, step) /\ \A j \in 1 .. n : f[j - 1] \in J[j - 1]
    <3> HIDE DEF step, J
    <3>1. QED  BY <1>2, <1>5, <2>2, LoopStays
  <2>4. Loop(f)
    <3> HIDE DEF step, J, Step
    <3>1. ASSUME NEW j \in 0 .. n
          PROVE  (IF j = 0 THEN ctx ELSE step[j][f[j - 1]]) = IF j = 0 THEN ctx ELSE Step(j, f[j - 1])
          BY <1>2, <2>1, <2>3
    <3>2. QED  BY <2>3, <3>1 DEF Loops
  <2> HIDE DEF Loop
  <2>5. QED  BY <2>4
<1>7. \A j \in 0 .. n : after[j] = IF j = 0 THEN ctx ELSE Step(j, after[j - 1])
  <2> HIDE DEF after, Step
  <2>1. QED  BY <1>6
<1>8. after[n] \in J[n]
  <2> DEFINE S == {j \in 0 .. n : after[j] \in J[j]}
  <2> HIDE DEF after, Step, J
  <2>1. 0 \in S
        BY <1>2, <1>5, <1>7
  <2>2. \A j \in 1 .. n : j - 1 \in S => j \in S
        BY <1>2, <1>4, <1>7
  <2> HIDE DEF S
  <2>3. 0 .. n \subseteq S
        BY <1>2, <2>1, <2>2, Upward
  <2>4. n \in S
        BY <1>2, <2>3
  <2>5. QED  BY <2>4 DEF S
<1> HIDE DEF after, Step
<1>9. WellFormed(after[n]) /\ Left(after[n])
      BY <1>2, <1>8
<1>10. QED  BY <1>1, <1>9

(* The requests of a downlink are answered: what waits already, stays.     *)
LEMMA AnsweringKeeps ==
  ASSUME NEW ctx, WellFormed(ctx), NEW reqs \in Seq(Cids)
  PROVE  /\ WellFormed(ProcessMacCommands(ctx, reqs))
         /\ \A s \in InUse(ctx) : ProcessMacCommands(ctx, reqs).slot[s].CID = ctx.slot[s].CID
<1> DEFINE n == Len(reqs)
           Step(j, c) == AddCmd(c, reqs[j])
           Loop(f) == f = [j \in 0 .. n |-> IF j = 0 THEN ctx ELSE Step(j, f[j - 1])]
           after == CHOOSE f : Loop(f)
           Kept(c) == \A s \in InUse(ctx) : c.slot[s].CID = ctx.slot[s].CID
           J == [j \in 0 .. n |-> {c \in Contexts : WellFormed(c) /\ Kept(c)}]
           step == [j \in 1 .. n |-> [c \in J[j - 1] |-> Step(j, c)]]
<1>1. ProcessMacCommands(ctx, reqs) = after[n]
      BY DEF ProcessMacCommands
<1>2. n \in Nat /\ \A j \in 1 .. n : reqs[j] \in Cids
      OBVIOUS
<1> HIDE DEF n
<1>3. ASSUME NEW j \in 1 .. n, NEW c \in J[j - 1] PROVE Step(j, c) \in J[j]
  <2>1. c \in Contexts /\ WellFormed(c) /\ Kept(c)
        BY <1>2
  <2> DEFINE r == AddCmd(c, reqs[j])
  <2>2. WellFormed(r) /\ \A s \in InUse(c) : r.slot[s].CID = c.slot[s].CID
        BY <1>2, <2>1, AddKeeps
  <2>3. r \in Contexts
        BY <2>2 DEF WellFormed, Linked
  <2>4. Kept(r)
    <3>1. InUse(ctx) \subseteq InUse(c)
          BY <2>1 DEF InUse
    <3>2. QED  BY <2>1, <2>2, <3>1
  <2> HIDE DEF r, Kept
  <2>5. QED  BY <1>2, <2>2, <2>3, <2>4 DEF r
<1>4. ctx \in J[0]
  <2>1. ctx \in Contexts
        BY DEF WellFormed, Linked
  <2>2. QED  BY <1>2, <2>1
<1>5. Loop(after)
  <2>1. ASSUME NEW j \in 1 .. n, NEW v \in J[j - 1] PROVE step[j][v] = Step(j, v)
        OBVIOUS
  <2>2. \A j \in 1 .. n : \A v \in J[j - 1] : step[j][v] \in J[j]
    <3> HIDE DEF step, J, Step
    <3>1. QED  BY <1>3, <2>1
  <2>3. PICK f : Loops(f, n, ctx, step) /\ \A j \in 1 .. n : f[j - 1] \in J[j - 1]
    <3> HIDE DEF step, J
    <3>1. QED  BY <1>2, <1>4, <2>2, LoopStays
  <2>4. Loop(f)
    <3> HIDE DEF step, J, Step
    <3>1. ASSUME NEW j \in 0 .. n
          PROVE  (IF j = 0 THEN ctx ELSE step[j][f[j - 1]]) = IF j = 0 THEN ctx ELSE Step(j, f[j - 1])
          BY <1>2, <2>1, <2>3
    <3>2. QED  BY <2>3, <3>1 DEF Loops
  <2> HIDE DEF Loop
  <2>5. QED  BY <2>4
<1>6. \A j \in 0 .. n : after[j] = IF j = 0 THEN ctx ELSE Step(j, after[j - 1])
  <2> HIDE DEF after, Step
  <2>1. QED  BY <1>5
<1>7. after[n] \in J[n]
  <2> DEFINE S == {j \in 0 .. n : after[j] \in J[j]}
  <2> HIDE DEF after, Step, J
  <2>1. 0 \in S
        BY <1>2, <1>4, <1>6
  <2>2. \A j \in 1 .. n : j - 1 \in S => j \in S
        BY <1>2, <1>3, <1>6
  <2> HIDE DEF S
  <2>3. 0 .. n \subseteq S
        BY <1>2, <2>1, <2>2, Upward
  <2>4. n \in S
        BY <1>2, <2>3
  <2>5. QED  BY <2>4 DEF S
<1> HIDE DEF after, Step
<1>8. WellFormed(after[n]) /\ Kept(after[n])
      BY <1>2, <1>7
<1>9. QED  BY <1>1, <1>8

-----------------------------------------------------------------------------
(* The commands in the session. *)

(* The rest of TypeOK: what IInv does not say of the variables.            *)
Typed ==
  /\ FCntDown \in 0 .. Initial /\ cryptoDown \in 0 .. Initial
  /\ accepted \in 0 .. Initial /\ LastRxMic \in 0 .. Initial
  /\ phase \in {"idle", "tx", "rx"} /\ trials \in 0 .. MaxTrials
  /\ up \in [size : AppSizes \cup {0}, confirmed : BOOLEAN, ack : BOOLEAN,
            carried : SUBSET Slots, fresh : BOOLEAN]
  /\ heard \subseteq Slots

(* The frame of a procedure carries every command that waits, the server   *)
(* has heard of them all once a copy of it has arrived, and a downlink in   *)
(* answer to a confirmed frame acknowledges it.                            *)
CarriedAll ==
  /\ phase # "idle" => Waiting \subseteq up.carried /\ (up.fresh \/ Waiting \subseteq heard)
  /\ up.confirmed => \A f \in air : f.ack

ListInv == IInv /\ OneOnAir /\ WellFormed(cmds) /\ Typed /\ CarriedAll

(* The commands that wait are the slots in use, before and after a step.    *)
LEMMA WaitingInUse == Waiting = InUse(cmds) /\ Waiting' = InUse(cmds')
  BY DEF Waiting, InUse

(* After LoRaMacCommandsInit there is no list.                             *)
LEMMA EmptyIsWellFormed == WellFormed(NoCommands)
<1> DEFINE p == [i \in 0 .. 0 + 1 |-> 0]
           g == [i \in 1 .. 0 + 1 |-> 0]
<1>1. NoCommands \in Contexts
      BY DEF NoCommands, FreeSlot, Contexts
<1>2. Linked(NoCommands, 0, p)
      BY <1>1 DEF Linked, NoCommands
<1>3. Sized(NoCommands, 0, p, g)
      BY DEF Sized, NoCommands
<1> HIDE DEF p, g
<1>4. QED  BY <1>2, <1>3 DEF WellFormed

(* It holds after a join. *)
LEMMA InitListInv == Init => ListInv
<1> SUFFICES ASSUME Init PROVE ListInv
    OBVIOUS
<1>1. MaxTrials \in Nat
      BY SessionAssumption
<1>2. Typed /\ CarriedAll /\ OneOnAir
      BY <1>1, Bounds DEF Init, Typed, CarriedAll, OneOnAir, NoUplink
<1>3. WellFormed(cmds)
      BY EmptyIsWellFormed DEF Init
<1>4. QED  BY <1>2, <1>3, InitIInv DEF ListInv

(* Every command that waits fits the frame: LORA_send and ScheduleTx have   *)
(* compared their size with the room that there is.                        *)
LEMMA AllAreCarried ==
  ASSUME WellFormed(cmds), NEW size \in AppSizes, LengthOk(SizeSent(size))
  PROVE  Carried(SizeSent(size)) = Waiting
<1>1. size \in Nat /\ FOptsLength \in Nat /\ AvailableSize \in Nat
      BY SessionAssumption
<1>2. Total \in Nat /\ Total = cmds.SerializedCmdsSize
      BY ListIsWhole DEF Context, Total
<1>3. CASE SizeSent(size) = 0
  <2>1. Total <= AvailableSize
        BY <1>1, <1>2, <1>3 DEF LengthOk
  <2>2. SerializeCmds(cmds, AvailableSize) = InUse(cmds)
        BY <1>1, <1>2, <2>1, AllSerialized
  <2>3. QED  BY <1>3, <2>2, WaitingInUse DEF Carried
<1>4. CASE SizeSent(size) # 0
  <2>1. SizeSent(size) = size /\ Total <= FOptsLength /\ size > 0
        BY <1>1, <1>4 DEF SizeSent, QueryTxPossible
  <2>2. SerializeCmds(cmds, FOptsLength) = InUse(cmds)
        BY <1>1, <1>2, <2>1, AllSerialized
  <2>3. QED  BY <2>1, <2>2, WaitingInUse DEF Carried
<1>5. QED  BY <1>3, <1>4

(* A frame is made: it carries every command, and the sticky ones stay.     *)
LEMMA SendKeepsList ==
  ASSUME ListInv, NEW size \in AppSizes, NEW confirmed \in BOOLEAN, Send(size, confirmed)
  PROVE  /\ WellFormed(cmds') /\ Typed' /\ CarriedAll'
         /\ up'.carried = Waiting
         /\ \A s \in Waiting : IsSticky(cmds.slot[s].CID) => s \in Waiting'
<1>1. /\ phase' = "tx" /\ trials' = 1 /\ cmds' = RemoveNoneStickyCmds(cmds)
      /\ up' = [size |-> SizeSent(size), confirmed |-> ConfirmedSent(size, confirmed),
                ack |-> SrvAckRequested, carried |-> Carried(SizeSent(size)), fresh |-> TRUE]
      /\ heard' = heard \cap Waiting' /\ LengthOk(SizeSent(size))
      /\ phase = "idle" /\ UNCHANGED <<FCntDown, cryptoDown, LastRxMic, air, accepted>>
      BY DEF Send
<1>2. WellFormed(cmds) /\ IInv /\ Typed
      BY DEF ListInv
<1>3. /\ WellFormed(cmds')
      /\ \A s \in Slots : cmds'.slot[s].CID =
                            IF IsSticky(cmds.slot[s].CID) THEN cmds.slot[s].CID ELSE NoCid
      BY <1>1, <1>2, StickyStay
<1>4. up'.carried = Waiting
      BY <1>1, <1>2, AllAreCarried
<1>5. Waiting' \subseteq Waiting /\ Waiting \subseteq Slots
      BY <1>3 DEF Waiting
<1>6. /\ SizeSent(size) \in AppSizes \cup {0} /\ ConfirmedSent(size, confirmed) \in BOOLEAN
      /\ SrvAckRequested \in BOOLEAN
      BY <1>2 DEF SizeSent, ConfirmedSent, IInv
<1>7. 1 \in 0 .. MaxTrials
      BY SessionAssumption
<1>8. Typed'
      BY <1>1, <1>2, <1>4, <1>5, <1>6, <1>7 DEF Typed
<1>9. air = {}
      BY <1>1, <1>2 DEF IInv, WindowsFollowUplink
<1>10. CarriedAll'
      BY <1>1, <1>4, <1>5, <1>9 DEF CarriedAll
<1>11. \A s \in Waiting : IsSticky(cmds.slot[s].CID) => s \in Waiting'
      BY <1>3 DEF Waiting
<1>12. QED  BY <1>3, <1>4, <1>8, <1>10, <1>11

(* The application asks for one more command, between two procedures.      *)
LEMMA LinkCheckKeepsList ==
  ASSUME ListInv, LinkCheckReq
  PROVE  /\ WellFormed(cmds') /\ Typed' /\ CarriedAll'
         /\ \A s \in Waiting : cmds'.slot[s].CID = cmds.slot[s].CID
<1>1. /\ phase = "idle" /\ cmds' = AddCmd(cmds, LINK_CHECK_REQ)
      /\ UNCHANGED <<FCntDown, cryptoDown, LastRxMic, txVars, air, accepted, heard>>
      BY DEF LinkCheckReq
<1>2. WellFormed(cmds) /\ LINK_CHECK_REQ \in Cids
      BY SessionAssumption DEF ListInv
<1>3. WellFormed(cmds') /\ \A s \in Waiting : cmds'.slot[s].CID = cmds.slot[s].CID
      BY <1>1, <1>2, AddKeeps, WaitingInUse
<1>4. Typed' /\ CarriedAll'
      BY <1>1 DEF ListInv, Typed, CarriedAll, txVars
<1>5. QED  BY <1>3, <1>4

(* The frame has left: what has arrived in a copy of it, the server has.   *)
LEMMA FlightKeepsList ==
  ASSUME ListInv, LoseUplink \/ \E givesUp \in BOOLEAN : HearUplink(givesUp)
  PROVE  Typed' /\ CarriedAll'
<1>1. /\ phase = "tx" /\ phase' = "rx"
      /\ UNCHANGED <<cmds, FCntDown, cryptoDown, LastRxMic, trials, air, accepted>>
      /\ \/ up' = up /\ heard' = heard
         \/ up' = [up EXCEPT !.fresh = FALSE] /\ heard' = heard \cup (up.carried \cap Waiting)
      BY DEF LoseUplink, HearUplink, macVars
<1>2. Typed /\ CarriedAll
      BY DEF ListInv
<1>3. Waiting' = Waiting /\ Waiting \subseteq Slots
      BY <1>1 DEF Waiting
<1>4. CASE up' = up /\ heard' = heard
      BY <1>1, <1>2, <1>3, <1>4 DEF Typed, CarriedAll
<1>5. CASE up' = [up EXCEPT !.fresh = FALSE] /\ heard' = heard \cup (up.carried \cap Waiting)
  <2>1. Waiting \subseteq up.carried
        BY <1>1, <1>2 DEF CarriedAll
  <2>2. /\ up'.carried = up.carried /\ up'.confirmed = up.confirmed
        /\ up' \in [size : AppSizes \cup {0}, confirmed : BOOLEAN, ack : BOOLEAN,
                    carried : SUBSET Slots, fresh : BOOLEAN]
        BY <1>2, <1>5 DEF Typed
  <2>3. Typed'
        BY <1>1, <1>2, <1>3, <1>5, <2>2 DEF Typed
  <2>4. CarriedAll'
        BY <1>1, <1>2, <1>3, <1>5, <2>1, <2>2 DEF CarriedAll
  <2>5. QED  BY <2>3, <2>4
<1>6. QED  BY <1>1, <1>4, <1>5

(* The windows have a downlink, or none any more, or they close.           *)
LEMMA WindowsKeepList ==
  ASSUME ListInv,
         \/ Retransmit \/ StopRetransmission \/ LoseDownlink \/ RepeatDownlink
         \/ \E reqs \in Requests, confirmed \in BOOLEAN : Downlink(reqs, confirmed)
  PROVE  UNCHANGED cmds /\ Typed' /\ CarriedAll'
<1>1. UNCHANGED <<cmds, FCntDown, cryptoDown, LastRxMic, accepted, heard>>
      BY DEF Retransmit, StopRetransmission, LoseDownlink, RepeatDownlink, Downlink, macVars
<1>2. Typed /\ CarriedAll
      BY DEF ListInv
<1>3. Waiting' = Waiting
      BY <1>1 DEF Waiting
<1>4. CASE LoseDownlink
      BY <1>1, <1>2, <1>3, <1>4 DEF LoseDownlink, txVars, Typed, CarriedAll
<1>5. CASE RepeatDownlink
      BY <1>1, <1>2, <1>3, <1>5 DEF RepeatDownlink, txVars, Typed, CarriedAll
<1>6. ASSUME NEW reqs \in Requests, NEW confirmed \in BOOLEAN, Downlink(reqs, confirmed)
      PROVE  Typed' /\ CarriedAll'
      BY <1>1, <1>2, <1>3, <1>6 DEF Downlink, txVars, Typed, CarriedAll
<1>7. CASE Retransmit
  <2>1. phase = "rx" /\ phase' = "tx" /\ trials < MaxTrials /\ trials' = trials + 1
        /\ air' = {} /\ UNCHANGED up
        BY <1>7 DEF Retransmit, CloseWindows
  <2>2. trials' \in 0 .. MaxTrials
        BY <1>2, <2>1, SessionAssumption DEF Typed
  <2>3. QED  BY <1>1, <1>2, <1>3, <2>1, <2>2 DEF Typed, CarriedAll
<1>8. CASE StopRetransmission
  <2>1. phase' = "idle" /\ trials' = 0 /\ up' = NoUplink /\ air' = {}
        BY <1>8 DEF StopRetransmission, CloseWindows, EndUplink
  <2>2. 0 \in 0 .. MaxTrials
        BY SessionAssumption
  <2>3. QED  BY <1>1, <1>2, <1>3, <2>1, <2>2 DEF Typed, CarriedAll, NoUplink
<1>9. QED  BY <1>1, <1>4, <1>5, <1>6, <1>7, <1>8

(* A downlink that is accepted ends the procedure, for a confirmed frame   *)
(* too.  It takes sticky answers from the list, all of them heard, and     *)
(* puts others on it.                                                      *)
LEMMA ReceptionKeepsList ==
  ASSUME ListInv, ProcessRadioRxDone
  PROVE  /\ WellFormed(cmds') /\ Typed' /\ CarriedAll'
         /\ Waiting \subseteq heard
         /\ \A s \in Waiting : IsSticky(cmds.slot[s].CID) \/ s \in Waiting'
<1> DEFINE counter(f) == CurrentDown(FCntDown, f.mic % FCntMod)
           status(f) == FCntStatus(FCntDown, f.mic % FCntMod)
           ok(f) == /\ status(f) = "SUCCESS"
                    /\ CheckFCntDown(cryptoDown, counter(f))
                    /\ counter(f) = f.mic
<1>1. PICK f \in air :
        /\ phase = "rx"
        /\ IF ok(f) THEN Accept(f, counter(f)) ELSE Reject(f, status(f))
        /\ IF up.confirmed => (ok(f) /\ f.ack)
           THEN EndUplink
           ELSE /\ up' = [up EXCEPT !.carried =
                                {s \in @ : ok(f) => StickyKept(f).slot[s].CID # NoCid}]
                /\ UNCHANGED <<phase, trials>>
        /\ air' = {}
      BY DEF ProcessRadioRxDone
<1>2. Typed /\ CarriedAll /\ WellFormed(cmds) /\ IInv
      BY DEF ListInv
<1>3. Waiting \subseteq heard
      BY <1>1, <1>2 DEF CarriedAll, IInv, WindowsFollowUplink
<1>4. /\ f.reqs \in Seq(Cids) /\ f.mic \in 0 .. Initial
      /\ up.confirmed => f.ack
  <2>1. f \in Frames
        BY <1>1, <1>2 DEF IInv, ServerOK
  <2>2. f.reqs \in Requests /\ f.mic \in 0 .. MaxDown - 1
        BY <2>1 DEF Frames
  <2>3. QED  BY <1>1, <1>2, <2>2, Bounds, SessionAssumption DEF CarriedAll
<1>5. 0 \in 0 .. MaxTrials
      BY SessionAssumption
<1>6. EndUplink => /\ phase' = "idle" /\ trials' = 0
                   /\ up' \in [size : AppSizes \cup {0}, confirmed : BOOLEAN, ack : BOOLEAN,
                               carried : SUBSET Slots, fresh : BOOLEAN]
      BY DEF EndUplink, NoUplink
<1>7. CASE ok(f)
  <2> DEFINE kept == StickyKept(f)
  <2>1. /\ FCntDown' = f.mic /\ cryptoDown' = f.mic /\ accepted' = f.mic
        /\ LastRxMic' \in {f.mic, LastRxMic}
        /\ cmds' = ProcessMacCommands(kept, f.reqs)
        /\ heard' \subseteq heard
        BY <1>1, <1>7 DEF Accept
  <2>2. EndUplink
        BY <1>1, <1>4, <1>7
  <2>3. /\ WellFormed(kept)
        /\ \A s \in Slots : \/ kept.slot[s].CID = cmds.slot[s].CID
                            \/ kept.slot[s].CID = NoCid /\ IsSticky(cmds.slot[s].CID)
        BY <1>2, StickyGo DEF StickyKept
  <2> HIDE DEF kept
  <2>4. /\ WellFormed(cmds')
        /\ \A s \in InUse(kept) : cmds'.slot[s].CID = kept.slot[s].CID
        BY <1>4, <2>1, <2>3, AnsweringKeeps
  <2>5. ASSUME NEW s \in Waiting PROVE IsSticky(cmds.slot[s].CID) \/ s \in Waiting'
    <3>1. s \in Slots /\ cmds.slot[s].CID # NoCid
          BY DEF Waiting
    <3>2. CASE kept.slot[s].CID = cmds.slot[s].CID
          BY <2>4, <3>1, <3>2 DEF InUse, Waiting
    <3>3. QED  BY <2>3, <3>1, <3>2
  <2>6. Typed'
        BY <1>2, <1>4, <1>5, <1>6, <2>1, <2>2 DEF Typed
  <2>7. CarriedAll'
        BY <1>1, <1>6, <2>2 DEF CarriedAll
  <2>8. QED  BY <1>3, <2>4, <2>5, <2>6, <2>7
<1>8. CASE ~ok(f)
  <2>1. UNCHANGED <<cmds, FCntDown, cryptoDown, LastRxMic, accepted, heard>>
        BY <1>1, <1>8 DEF Reject
  <2>2. Waiting' = Waiting
        BY <2>1 DEF Waiting
  <2>3. CASE EndUplink
        BY <1>1, <1>2, <1>3, <1>5, <1>6, <2>1, <2>2, <2>3 DEF Typed, CarriedAll
  <2>4. CASE ~EndUplink
    <3>1. up' = [up EXCEPT !.carried =
                              {s \in up.carried : ok(f) => StickyKept(f).slot[s].CID # NoCid}]
          /\ UNCHANGED <<phase, trials>>
          BY <1>1, <2>4
    <3>2. {s \in up.carried : ok(f) => StickyKept(f).slot[s].CID # NoCid} = up.carried
          BY <1>8
    <3>3. up' = up
          BY <1>2, <3>1, <3>2 DEF Typed
    <3>4. QED  BY <1>1, <1>2, <1>3, <2>1, <2>2, <3>1, <3>3 DEF Typed, CarriedAll
  <2>5. QED  BY <2>3, <2>4
<1>9. QED  BY <1>7, <1>8

(* The invariant of the list holds, and of what waits, a sticky answer goes *)
(* in a reception only and any other command in a frame only.              *)
StickyStays ==
  \A s \in Waiting : IsSticky(cmds.slot[s].CID) /\ s \notin Waiting' => s \in heard
OthersSent ==
  \A s \in Waiting : ~IsSticky(cmds.slot[s].CID) /\ s \notin Waiting' => s \in up'.carried
LEMMA StepKeepsList ==
  ASSUME ListInv, [Next]_vars
  PROVE  WellFormed(cmds') /\ Typed' /\ CarriedAll' /\ StickyStays /\ OthersSent
<1>1. WellFormed(cmds) /\ Typed /\ CarriedAll
      BY DEF ListInv
<1>2. UNCHANGED cmds => WellFormed(cmds') /\ StickyStays /\ OthersSent
      BY <1>1 DEF Waiting, StickyStays, OthersSent
<1>3. ASSUME NEW size \in AppSizes, NEW confirmed \in BOOLEAN, Send(size, confirmed)
      PROVE  WellFormed(cmds') /\ Typed' /\ CarriedAll' /\ StickyStays /\ OthersSent
      BY <1>3, SendKeepsList DEF StickyStays, OthersSent
<1>4. CASE LinkCheckReq
  <2>1. Waiting \subseteq Waiting'
        BY <1>4, LinkCheckKeepsList DEF Waiting
  <2>2. QED  BY <1>4, <2>1, LinkCheckKeepsList DEF StickyStays, OthersSent
<1>5. CASE LoseUplink \/ \E givesUp \in BOOLEAN : HearUplink(givesUp)
  <2>1. UNCHANGED cmds
        BY <1>5 DEF LoseUplink, HearUplink, macVars
  <2>2. QED  BY <1>2, <1>5, <2>1, FlightKeepsList
<1>6. CASE \/ Retransmit \/ StopRetransmission \/ LoseDownlink \/ RepeatDownlink
           \/ \E reqs \in Requests, confirmed \in BOOLEAN : Downlink(reqs, confirmed)
      BY <1>2, <1>6, WindowsKeepList
<1>7. CASE ProcessRadioRxDone
      BY <1>7, ReceptionKeepsList DEF StickyStays, OthersSent
<1>8. CASE UNCHANGED vars
  <2>1. UNCHANGED <<cmds, FCntDown, cryptoDown, LastRxMic, phase, up, trials, air, accepted, heard>>
        BY <1>8 DEF vars, macVars, txVars
  <2>2. Typed' /\ CarriedAll'
        BY <1>1, <2>1 DEF Typed, CarriedAll, Waiting
  <2>3. QED  BY <1>2, <2>1, <2>2
<1>9. QED
      BY <1>3, <1>4, <1>5, <1>6, <1>7, <1>8 DEF Next

(* The list holds together in every state of the session.                  *)
THEOREM ListInvariance == Spec => []ListInv
<1>1. IInv /\ [Next]_vars /\ IInv' /\ ListInv => ListInv'
      BY StepKeepsList, StepKeepsOneOnAir DEF ListInv
<1>2. QED  BY InitListInv, <1>1, Invariance, PTL DEF Spec

(* A set of which any two elements are the same has one at most.           *)
LEMMA OneAtMost == ASSUME NEW A, \A f, g \in A : f = g PROVE Cardinality(A) <= 1
<1>1. CASE A = {}
      BY <1>1, FS_EmptySet
<1>2. CASE A # {}
  <2>1. PICK f : A = {f}
        BY <1>2
  <2>2. Cardinality(A) = 1
        BY <2>1, FS_Singleton
  <2>3. QED  BY <2>2
<1>3. QED  BY <1>1, <1>2

(* The list goes through every used slot once and ends at Last, and its     *)
(* length in bytes is right, after any additions and removals, for every    *)
(* number of slots and every set of commands.                              *)
THEOREM ListSound == Spec => []ListIsSound
<1>1. ListInv => ListIsSound
  <2> SUFFICES ASSUME ListInv PROVE ListIsSound
      OBVIOUS
  <2>1. IInv /\ OneOnAir /\ WellFormed(cmds) /\ Typed
        BY DEF ListInv
  <2>2. /\ cmds \in Context
        /\ ToSet(Elements(cmds)) = Waiting
        /\ Len(Elements(cmds)) = Cardinality(Waiting)
        /\ cmds.Last = IF Waiting = {} THEN 0 ELSE Elements(cmds)[Cardinality(Waiting)]
        /\ cmds.SerializedCmdsSize = SizeOnList(cmds)
        BY <2>1, ListIsWhole, WaitingInUse
  <2>3. Cardinality(air) <= 1
        BY <2>1, OneAtMost DEF OneOnAir
  <2>4. Cardinality(server.awaited) <= 1
    <3>1. \A f, g \in server.awaited : f = g
          BY <2>1 DEF IInv, ServerAwaitsLast
    <3>2. QED  BY <3>1, OneAtMost
  <2>5. TypeOK
        BY <2>1, <2>2, <2>3, <2>4 DEF IInv, Typed, TypeOK
  <2>6. QED  BY <2>2, <2>5 DEF ListIsSound
<1>2. QED  BY <1>1, ListInvariance, PTL

(* An answer that must be repeated until the server has it is dropped only   *)
(* when it has: the downlink that lets it go can only be in windows that a   *)
(* copy of the frame with the answer has opened.                             *)
THEOREM StickyHeard == Spec => AnswersHeard
<1>1. ListInv /\ [Next]_vars =>
        [\A s \in Waiting :
           IsSticky(cmds.slot[s].CID) /\ s \notin Waiting' => s \in heard]_vars
      BY StepKeepsList DEF StickyStays
<1>2. QED  BY <1>1, ListInvariance, PTL DEF Spec, AnswersHeard

(* A command that is sent once leaves the list only in a frame: ScheduleTx   *)
(* and LORA_send have checked that there is room for all of them.            *)
THEOREM OthersCarried == Spec => CommandsAreCarried
<1>1. ListInv /\ [Next]_vars =>
        [\A s \in Waiting :
           ~IsSticky(cmds.slot[s].CID) /\ s \notin Waiting' => s \in up'.carried]_vars
      BY StepKeepsList DEF OthersSent
<1>2. QED  BY <1>1, ListInvariance, PTL DEF Spec, CommandsAreCarried

=============================================================================

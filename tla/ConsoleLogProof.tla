-------------------------- MODULE ConsoleLogProof --------------------------
(***************************************************************************)
(* TailIsFile of ConsoleLog, and that the tailer keeps to LogHub, for      *)
(* every length of a line, every first stretch and chunk that hold one,    *)
(* and files of any number and length.                                     *)
(*                                                                         *)
(* The hub comes first: StreamIsLog of LogHub, for every capacity, every   *)
(* channel, any number of viewers and whoever pushes.                      *)
(*                                                                         *)
(* Then come facts about the bytes of a file, its line ends and its        *)
(* lines, which need no state: a stretch of a file from the start of a     *)
(* line on splits where it is cut, and what is left of the first part      *)
(* carries over into the second.  Last comes the invariant of the tailer.  *)
(*                                                                         *)
(* Cut and Then are SubSeq and \o under names of their own, which the      *)
(* provers leave alone.                                                    *)
(***************************************************************************)
EXTENDS ConsoleLog, TLAPS, FiniteSetTheorems

----------------------------------------------------------------------------
(* The backlog is the end of what was pushed, the line on its way to the   *)
(* channel included.                                                       *)
Pushed == sent \o writing

BacklogIsTail ==
  /\ Len(backlog) <= Len(Pushed)
  /\ \A i \in 1 .. Len(backlog) :
       backlog[i] = Pushed[Len(Pushed) - Len(backlog) + i]

(* While a viewer holds the read lock nothing is on its way, so what it    *)
(* copies ends where its receiver begins.                                  *)
Handover ==
  \A v \in Viewer : viewing[v] = "copy" => writing = <<>> /\ next[v] = Len(sent)

HInv == HubTypeOK /\ BacklogIsTail /\ Handover /\ StreamIsLog

(* Whatever state it is evaluated in, a backlog with its oldest line gone  *)
(* is still the end of what it was the end of.                             *)
LEMMA EvictedIsTail ==
  ASSUME HubTypeOK
  PROVE  /\ Evicted \in Seq(Text)
         /\ Len(Evicted) <= Len(backlog)
         /\ \A i \in 1 .. Len(Evicted) :
              Evicted[i] = backlog[Len(backlog) - Len(Evicted) + i]
<1>1. backlog \in Seq(Text) /\ Capacity \in Nat \ {0} /\ Len(backlog) \in Nat
  BY HubAssumption DEF HubTypeOK
<1>2. CASE Len(backlog) < Capacity
  BY <1>1, <1>2 DEF Evicted
<1>3. CASE ~(Len(backlog) < Capacity)
  <2> DEFINE m == Len(backlog) - Capacity + 2
  <2>1. m \in Nat /\ m >= 2 /\ m <= Len(backlog) + 1
    BY <1>1, <1>3
  <2>2. Evicted = SubSeq(backlog, m, Len(backlog))
    BY <1>3 DEF Evicted
  <2>3. \A i \in m .. Len(backlog) : i \in 1 .. Len(backlog)
    BY <1>1, <2>1
  <2>4. Evicted \in Seq(Text)
    BY <1>1, <2>1, <2>2, <2>3
  <2>5. Len(Evicted) = Len(backlog) - m + 1
    BY <1>1, <2>1, <2>2
  <2>6. \A i \in 1 .. Len(Evicted) : Evicted[i] = backlog[m + i - 1]
    BY <1>1, <2>1, <2>2, <2>5
  <2> QED
    BY <1>1, <2>1, <2>4, <2>5, <2>6
<1> QED
  BY <1>2, <1>3

(* The gaps of a receiver that lagged are a sequence.                      *)
LEMMA GapsAreASequence ==
  ASSUME NEW n \in Nat
  PROVE  /\ [i \in 1 .. n |-> Gap] \in Seq(Text \cup {Gap})
         /\ Len([i \in 1 .. n |-> Gap]) = n
  OBVIOUS

(* A stream with gaps after it.                                            *)
LEMMA ThenGaps ==
  ASSUME NEW S, NEW s \in Seq(S), NEW n \in Nat,
         NEW gaps \in Seq(S), Len(gaps) = n,
         \A i \in 1 .. n : gaps[i] = Gap
  PROVE  /\ Len(s \o gaps) = Len(s) + n
         /\ \A i \in 1 .. Len(s) : (s \o gaps)[i] = s[i]
         /\ \A i \in 1 .. Len(s \o gaps) :
              i \in 1 .. Len(s) \/ (s \o gaps)[i] = Gap
<1>1. Len(s) \in Nat /\ Len(s \o gaps) = Len(s) + n
  OBVIOUS
<1>2. \A i \in 1 .. Len(s) : (s \o gaps)[i] = s[i]
  OBVIOUS
<1>3. ASSUME NEW i \in 1 .. Len(s \o gaps), i \notin 1 .. Len(s)
      PROVE (s \o gaps)[i] = Gap
  <2>1. i - Len(s) \in 1 .. n
    BY <1>1, <1>3
  <2>2. (s \o gaps)[i] = gaps[i - Len(s)]
    BY <1>1, <1>3
  <2> QED
    BY <2>1, <2>2
<1> QED
  BY <1>1, <1>2, <1>3

LEMMA HInvInit == HubInit => HInv
<1> SUFFICES ASSUME HubInit PROVE HInv
  OBVIOUS
<1> USE DEF HubInit
<1>1. HubTypeOK
  BY DEF HubTypeOK, ConnState
<1>2. BacklogIsTail
  BY DEF BacklogIsTail, Pushed
<1>3. Handover /\ StreamIsLog
  BY DEF Handover, StreamIsLog
<1> QED
  BY <1>1, <1>2, <1>3 DEF HInv

LEMMA PushAppendKeeps ==
  ASSUME HInv, NEW t \in Text, PushAppend(t)
  PROVE  HInv'
<1> USE DEF HInv, PushAppend
<1>1. HubTypeOK'
  BY EvictedIsTail DEF HubTypeOK
<1>2. BacklogIsTail'
  <2>1. Pushed = sent /\ Pushed' = Append(sent, t)
    BY DEF Pushed, HubTypeOK
  <2>2. sent \in Seq(Text) /\ backlog \in Seq(Text) /\ Evicted \in Seq(Text)
    BY EvictedIsTail DEF HubTypeOK
  <2>3. Len(backlog') = Len(Evicted) + 1 /\ Len(Pushed') = Len(sent) + 1
    BY <2>1, <2>2
  <2>4. Len(backlog') <= Len(Pushed')
    BY <2>1, <2>2, <2>3, EvictedIsTail DEF BacklogIsTail
  <2>5. ASSUME NEW i \in 1 .. Len(backlog')
        PROVE  backlog'[i] = Pushed'[Len(Pushed') - Len(backlog') + i]
    <3>1. CASE i = Len(Evicted) + 1
      BY <2>1, <2>2, <2>3, <3>1
    <3>2. CASE i \in 1 .. Len(Evicted)
      <4>1. backlog'[i] = Evicted[i]
        BY <2>2, <3>2
      <4>2. Evicted[i] = backlog[Len(backlog) - Len(Evicted) + i]
        BY <3>2, EvictedIsTail
      <4>3. Len(backlog) - Len(Evicted) + i \in 1 .. Len(backlog)
        BY <2>2, <3>2, EvictedIsTail
      <4>4. backlog[Len(backlog) - Len(Evicted) + i]
              = sent[Len(sent) - Len(Evicted) + i]
        <5> DEFINE k == Len(backlog) - Len(Evicted) + i
        <5>1. \A j \in 1 .. Len(backlog) :
                backlog[j] = sent[Len(sent) - Len(backlog) + j]
          BY <2>1 DEF BacklogIsTail
        <5>2. backlog[k] = sent[Len(sent) - Len(backlog) + k]
          BY <4>3, <5>1
        <5>3. /\ Len(sent) \in Int /\ Len(backlog) \in Int
              /\ Len(Evicted) \in Int /\ i \in Int
          BY <2>2, <3>2
        <5>4. Len(sent) - Len(backlog) + k = Len(sent) - Len(Evicted) + i
          BY ONLY <5>3
        <5> QED
          BY <5>2, <5>4
      <4>5. Len(sent) - Len(Evicted) + i \in 1 .. Len(sent)
        BY <2>1, <2>2, <3>2, EvictedIsTail DEF BacklogIsTail
      <4> QED
        BY <2>1, <2>2, <2>3, <4>1, <4>2, <4>4, <4>5
    <3> QED
      BY <2>2, <2>3, <3>1, <3>2
  <2> QED
    BY <2>4, <2>5 DEF BacklogIsTail
<1>3. Handover'
  BY DEF Handover
<1>4. StreamIsLog'
  BY DEF StreamIsLog
<1> QED
  BY <1>1, <1>2, <1>3, <1>4

LEMMA PushSendKeeps ==
  ASSUME HInv, PushSend
  PROVE  HInv'
<1> USE DEF HInv, PushSend
<1>1. sent \in Seq(Text) /\ writing \in Seq(Text) /\ sent' \in Seq(Text)
  BY DEF HubTypeOK
<1>2. HubTypeOK'
  BY <1>1 DEF HubTypeOK
<1>3. BacklogIsTail'
  <2>1. Pushed' = Pushed
    BY <1>1 DEF Pushed
  <2> QED
    BY <2>1 DEF BacklogIsTail
<1>4. Handover'
  BY DEF Handover
<1>5. StreamIsLog'
  <2> SUFFICES ASSUME NEW v \in Viewer, viewing[v] = "on"
      PROVE /\ Len(screen[v]) <= next[v] /\ next[v] <= Len(sent')
            /\ \A i \in 1 .. Len(screen[v]) :
                 screen[v][i] \in {Gap, sent'[next[v] - Len(screen[v]) + i]}
    BY DEF StreamIsLog
  <2>1. Len(screen[v]) \in Nat /\ next[v] \in Nat
    BY DEF HubTypeOK
  <2>2. Len(screen[v]) <= next[v] /\ next[v] <= Len(sent)
    BY DEF StreamIsLog
  <2>3. Len(sent') = Len(sent) + Len(writing) /\ Len(writing) \in Nat
    BY <1>1
  <2>4. \A k \in 1 .. Len(sent) : sent'[k] = sent[k]
    BY <1>1
  <2>5. \A i \in 1 .. Len(screen[v]) :
          next[v] - Len(screen[v]) + i \in 1 .. Len(sent)
    BY <1>1, <2>1, <2>2
  <2> QED
    BY <1>1, <2>1, <2>2, <2>3, <2>4, <2>5 DEF StreamIsLog
<1> QED
  BY <1>2, <1>3, <1>4, <1>5

LEMMA SubscribeReceiverKeeps ==
  ASSUME HInv, NEW v \in Viewer, SubscribeReceiver(v)
  PROVE  HInv'
<1> USE DEF HInv, SubscribeReceiver
<1>1. HubTypeOK'
  BY DEF HubTypeOK, ConnState
<1>2. BacklogIsTail'
  BY DEF BacklogIsTail, Pushed
<1>3. Handover'
  BY DEF Handover, HubTypeOK
<1>4. StreamIsLog'
  BY DEF StreamIsLog, HubTypeOK
<1> QED
  BY <1>1, <1>2, <1>3, <1>4

LEMMA SubscribeCopyKeeps ==
  ASSUME HInv, NEW v \in Viewer, SubscribeCopy(v)
  PROVE  HInv'
<1> USE DEF HInv, SubscribeCopy
<1>1. HubTypeOK'
  <2>1. backlog \in Seq(Text \cup {Gap})
    BY DEF HubTypeOK
  <2> QED
    BY <2>1 DEF HubTypeOK, ConnState
<1>2. BacklogIsTail'
  BY DEF BacklogIsTail, Pushed
<1>3. Handover'
  BY DEF Handover, HubTypeOK
<1>4. StreamIsLog'
  <2>1. Pushed = sent /\ next[v] = Len(sent)
    BY DEF Pushed, Handover, HubTypeOK
  <2>2. screen'[v] = backlog /\ next' = next /\ sent' = sent
    BY DEF HubTypeOK
  <2>3. \A u \in Viewer \ {v} : viewing'[u] = viewing[u] /\ screen'[u] = screen[u]
    BY DEF HubTypeOK
  <2>4. ASSUME NEW u \in Viewer, viewing'[u] = "on"
        PROVE /\ Len(screen'[u]) <= next[u] /\ next[u] <= Len(sent)
              /\ \A i \in 1 .. Len(screen'[u]) :
                   screen'[u][i] \in {Gap, sent[next[u] - Len(screen'[u]) + i]}
    <3>1. CASE u = v
      BY <2>1, <2>2, <3>1 DEF BacklogIsTail, HubTypeOK
    <3>2. CASE u # v
      BY <2>3, <2>4, <3>2 DEF StreamIsLog
    <3> QED
      BY <3>1, <3>2
  <2> QED
    BY <2>2, <2>4 DEF StreamIsLog
<1> QED
  BY <1>1, <1>2, <1>3, <1>4

LEMMA ReceiveLineKeeps ==
  ASSUME HInv, NEW v \in Viewer, ReceiveLine(v)
  PROVE  HInv'
<1> USE DEF HInv, ReceiveLine
<1>1. /\ sent \in Seq(Text) /\ Len(sent) \in Nat
      /\ screen[v] \in Seq(Text \cup {Gap}) /\ Len(screen[v]) \in Nat
      /\ next[v] \in Nat
  BY DEF HubTypeOK
<1>2. next[v] + 1 \in 1 .. Len(sent)
  BY <1>1, HubAssumption DEF Behind
<1>3. screen'[v] = Append(screen[v], sent[next[v] + 1])
  BY DEF HubTypeOK
<1>4. sent[next[v] + 1] \in Text \cup {Gap}
  BY <1>1, <1>2
<1>5. next'[v] = next[v] + 1
  BY DEF HubTypeOK
<1>6. HubTypeOK'
  BY <1>1, <1>3, <1>4, <1>5 DEF HubTypeOK
<1>7. BacklogIsTail'
  BY DEF BacklogIsTail, Pushed
<1>8. Handover'
  BY DEF Handover, HubTypeOK
<1>9. StreamIsLog'
  <2>1. ASSUME NEW u \in Viewer, viewing'[u] = "on"
        PROVE /\ Len(screen'[u]) <= next'[u] /\ next'[u] <= Len(sent')
              /\ \A i \in 1 .. Len(screen'[u]) :
                   screen'[u][i]
                     \in {Gap, sent'[next'[u] - Len(screen'[u]) + i]}
    <3>1. CASE u = v
      <4>1. /\ Len(screen'[v]) = Len(screen[v]) + 1
            /\ screen'[v][Len(screen[v]) + 1] = sent[next[v] + 1]
            /\ \A i \in 1 .. Len(screen[v]) : screen'[v][i] = screen[v][i]
        BY <1>1, <1>3, <1>4
      <4>2. \A i \in 1 .. Len(screen'[v]) :
              i \in 1 .. Len(screen[v]) \/ i = Len(screen[v]) + 1
        BY <1>1, <4>1
      <4>3. \A i \in 1 .. Len(screen[v]) :
              screen[v][i] \in {Gap, sent[next[v] - Len(screen[v]) + i]}
        BY DEF StreamIsLog
      <4>4. next'[v] - Len(screen'[v]) = next[v] - Len(screen[v])
        BY <1>1, <1>5, <4>1
      <4>5. Len(screen[v]) <= next[v]
        BY DEF StreamIsLog
      <4>6. next[v] - Len(screen[v]) + (Len(screen[v]) + 1) = next[v] + 1
        BY <1>1
      <4>7. Len(screen'[v]) <= next'[v] /\ next'[v] <= Len(sent')
        BY <1>1, <1>2, <1>5, <4>1, <4>5
      <4> QED
        BY <3>1, <4>1, <4>2, <4>3, <4>4, <4>6, <4>7
    <3>2. CASE u # v
      BY <2>1, <3>2 DEF StreamIsLog, HubTypeOK
    <3> QED
      BY <3>1, <3>2
  <2> QED
    BY <2>1 DEF StreamIsLog
<1> QED
  BY <1>6, <1>7, <1>8, <1>9

LEMMA ReceiveLaggedKeeps ==
  ASSUME HInv, NEW v \in Viewer, ReceiveLagged(v)
  PROVE  HInv'
<1> DEFINE n == Behind(v) - Channel
           gaps == [i \in 1 .. n |-> Gap]
<1> USE DEF HInv, ReceiveLagged
<1>1. /\ sent \in Seq(Text) /\ Len(sent) \in Nat
      /\ screen[v] \in Seq(Text \cup {Gap}) /\ Len(screen[v]) \in Nat
      /\ next[v] \in Nat /\ Channel \in Nat
  BY HubAssumption DEF HubTypeOK
<1>2. n \in Nat /\ Len(sent) - Channel = next[v] + n
  BY <1>1 DEF Behind
<1>3. gaps \in Seq(Text \cup {Gap}) /\ Len(gaps) = n
  BY <1>2, GapsAreASequence
<1>4. screen'[v] = screen[v] \o gaps
  BY DEF HubTypeOK
<1>5. next'[v] = next[v] + n
  BY <1>2 DEF HubTypeOK
<1> HIDE DEF n
<1>6. HubTypeOK'
  <2>1. screen[v] \o gaps \in Seq(Text \cup {Gap})
    BY <1>1, <1>3
  <2>2. screen' = [screen EXCEPT ![v] = screen[v] \o gaps]
    BY DEF n
  <2>3. screen' \in [Viewer -> Seq(Text \cup {Gap})]
    BY <2>1, <2>2 DEF HubTypeOK
  <2>4. next' \in [Viewer -> Nat]
    BY <1>1, <1>2 DEF HubTypeOK
  <2> QED
    BY <2>3, <2>4 DEF HubTypeOK
<1>7. BacklogIsTail'
  BY DEF BacklogIsTail, Pushed
<1>8. Handover'
  BY DEF Handover, HubTypeOK
<1>9. StreamIsLog'
  <2> USE DEF n
  <2>1. /\ sent' = sent
        /\ \A i \in 1 .. n : gaps[i] = Gap
        /\ \A u \in Viewer \ {v} : /\ viewing'[u] = viewing[u]
                                   /\ screen'[u] = screen[u]
                                   /\ next'[u] = next[u]
    BY DEF HubTypeOK
  <2>2. StreamIsLog /\ viewing[v] = "on"
    OBVIOUS
  <2> HIDE DEF n, gaps, ReceiveLagged, HInv
  <2>3. ASSUME NEW u \in Viewer, viewing'[u] = "on"
        PROVE /\ Len(screen'[u]) <= next'[u] /\ next'[u] <= Len(sent')
              /\ \A i \in 1 .. Len(screen'[u]) :
                   screen'[u][i]
                     \in {Gap, sent'[next'[u] - Len(screen'[u]) + i]}
    <3>1. CASE u = v
      <4>1. /\ Len(screen'[v]) = Len(screen[v]) + n
            /\ \A i \in 1 .. Len(screen[v]) : screen'[v][i] = screen[v][i]
            /\ \A i \in 1 .. Len(screen'[v]) :
                 i \in 1 .. Len(screen[v]) \/ screen'[v][i] = Gap
        BY <1>1, <1>2, <1>3, <1>4, <2>1, ThenGaps
      <4>2. \A i \in 1 .. Len(screen[v]) :
              screen[v][i] \in {Gap, sent[next[v] - Len(screen[v]) + i]}
        BY <2>2 DEF StreamIsLog
      <4>3. next'[v] - Len(screen'[v]) = next[v] - Len(screen[v])
        BY <1>1, <1>2, <1>5, <4>1
      <4>4. Len(screen[v]) <= next[v]
        BY <2>2 DEF StreamIsLog
      <4>5. Len(screen'[v]) <= next'[v] /\ next'[v] <= Len(sent')
        BY <1>1, <1>2, <1>5, <2>1, <4>1, <4>4
      <4> QED
        BY <2>1, <3>1, <4>1, <4>2, <4>3, <4>5
    <3>2. CASE u # v
      BY <2>3, <2>1, <2>2, <3>2 DEF StreamIsLog
    <3> QED
      BY <3>1, <3>2
  <2> QED
    BY <2>3 DEF StreamIsLog
<1> QED
  BY <1>6, <1>7, <1>8, <1>9

LEMMA LeaveKeeps ==
  ASSUME HInv, NEW v \in Viewer, Leave(v)
  PROVE  HInv'
<1> USE DEF HInv, Leave
<1>1. HubTypeOK'
  BY DEF HubTypeOK, ConnState
<1>2. BacklogIsTail'
  BY DEF BacklogIsTail, Pushed
<1>3. Handover'
  BY DEF Handover, HubTypeOK
<1>4. StreamIsLog'
  BY DEF StreamIsLog, HubTypeOK
<1> QED
  BY <1>1, <1>2, <1>3, <1>4

LEMMA HInvStep == HInv /\ [HubNext]_hubVars => HInv'
<1> SUFFICES ASSUME HInv, [HubNext]_hubVars PROVE HInv'
  OBVIOUS
<1>1. CASE UNCHANGED hubVars
  BY <1>1 DEF hubVars, HInv, HubTypeOK, BacklogIsTail, Pushed, Handover,
              StreamIsLog
<1>2. CASE HubNext
  BY <1>2, PushAppendKeeps, PushSendKeeps, SubscribeReceiverKeeps,
     SubscribeCopyKeeps, ReceiveLineKeeps, ReceiveLaggedKeeps, LeaveKeeps
     DEF HubNext, ViewerStep
<1> QED
  BY <1>1, <1>2

LEMMA HInvHolds == HubSpec => []HInv
  BY HInvInit, HInvStep, PTL DEF HubSpec

(* The backlog, the channel and the streams keep their types.              *)
THEOREM HubTypeCorrect == HubSpec => []HubTypeOK
<1>1. HInv => HubTypeOK
  BY DEF HInv
<1> QED
  BY <1>1, HInvHolds, PTL

(* What LogHub::subscribe's comment claims, "a new subscriber sees every   *)
(* line exactly once", gaps it is told of aside.                           *)
THEOREM StreamIsLogHolds == HubSpec => []StreamIsLog
<1>1. HInv => StreamIsLog
  BY DEF HInv
<1> QED
  BY <1>1, HInvHolds, PTL

----------------------------------------------------------------------------
(* Multiples of the length of a line.                                      *)
LEMMA LineType == LineSize \in Nat /\ LineSize > 0 /\ LineSize \in Nat \ {0}
BY TailAssumption

LEMMA Times ==
  ASSUME NEW j \in Nat, NEW k \in Nat
  PROVE  /\ j * LineSize \in Nat /\ (j + 1) * LineSize = j * LineSize + LineSize
         /\ j < k => j * LineSize + LineSize <= k * LineSize
<1> DEFINE L == LineSize
<1>1. L \in Nat \ {0}
  BY LineType
<1> HIDE DEF L
<1>2. /\ j * L \in Nat /\ (j + 1) * L = j * L + L
      /\ j < k => j * L + L <= k * L
  BY <1>1
<1> QED
  BY <1>2 DEF L

(* Different multiples are different.                                      *)
LEMMA TimesInjective ==
  ASSUME NEW j \in Nat, NEW k \in Nat, j * LineSize = k * LineSize
  PROVE  j = k
<1>1. LineSize \in Nat \ {0} /\ j * LineSize \in Nat
  BY LineType, Times
<1>2. ~(j < k) /\ ~(k < j)
  BY <1>1, Times
<1> QED
  BY <1>2

(* Division with remainder, for any divisor ...                            *)
LEMMA ModuloOf ==
  ASSUME NEW L \in Nat \ {0}, NEW x \in Nat
  PROVE  /\ x % L \in 0 .. L - 1 /\ x \div L \in Nat
         /\ x = (x \div L) * L + (x % L)
BY SMTT(60)

(* ... and for the length of a line.                                       *)
LEMMA Modulo ==
  ASSUME NEW x \in Nat
  PROVE  /\ x % LineSize \in 0 .. LineSize - 1 /\ x \div LineSize \in Nat
         /\ x = (x \div LineSize) * LineSize + (x % LineSize)
BY LineType, ModuloOf

(* What has no remainder is a multiple.                                    *)
LEMMA Multiple ==
  ASSUME NEW x \in Nat
  PROVE  x % LineSize = 0 <=> \E j \in Nat : x = j * LineSize
<1> DEFINE q == x \div LineSize
           r == x % LineSize
<1>1. /\ q \in Nat /\ r \in 0 .. LineSize - 1 /\ x = q * LineSize + r
      /\ LineSize \in Nat \ {0} /\ q * LineSize \in Nat
  BY Modulo, LineType, Times
<1> HIDE DEF q, r
<1>2. ASSUME NEW j \in Nat, x = j * LineSize PROVE r = 0
  <2>1. j * LineSize \in Nat
    BY Times
  <2>2. CASE j = q
    BY <1>1, <1>2, <2>1, <2>2
  <2>3. ~(j < q)
    <3> SUFFICES ASSUME j < q PROVE FALSE
      OBVIOUS
    <3>1. j * LineSize + LineSize <= q * LineSize
      BY <1>1, Times
    <3> QED
      BY <1>1, <1>2, <2>1, <3>1
  <2>4. ~(q < j)
    <3> SUFFICES ASSUME q < j PROVE FALSE
      OBVIOUS
    <3>1. q * LineSize + LineSize <= j * LineSize
      BY <1>1, Times
    <3> QED
      BY <1>1, <1>2, <2>1, <3>1
  <2> QED
    BY <1>1, <2>2, <2>3, <2>4
<1>3. r = 0 => x = q * LineSize
  BY <1>1
<1> QED
  BY <1>1, <1>2, <1>3 DEF r

(* Multiples add up.                                                       *)
LEMMA TimesSum ==
  ASSUME NEW j \in Nat, NEW k \in Nat
  PROVE  /\ (j + k) * LineSize = j * LineSize + k * LineSize
         /\ j <= k => j * LineSize <= k * LineSize /\ (k - j) * LineSize = k * LineSize - j * LineSize
         /\ 0 * LineSize = 0 /\ 1 * LineSize = LineSize
<1> DEFINE L == LineSize
<1>1. L \in Nat \ {0}
  BY LineType
<1> HIDE DEF L
<1>2. (j + k) * L = j * L + k * L
  BY <1>1
<1>3. j <= k => j * L <= k * L /\ (k - j) * L = k * L - j * L
  BY <1>1
<1>4. 0 * L = 0 /\ 1 * L = L
  BY <1>1
<1> QED
  BY <1>2, <1>3, <1>4 DEF L

(* The first n multiples, counted.                                         *)
Multiples(n) == {k * LineSize : k \in 1 .. n}

(* There are n of them, all above 0.                                       *)
LEMMA CountMultiples ==
  ASSUME NEW n \in Nat
  PROVE  /\ IsFiniteSet(Multiples(n)) /\ Cardinality(Multiples(n)) = n
         /\ Multiples(n) \subseteq Nat \ {0}
         /\ \A k \in Nat : k * LineSize \in Multiples(n) <=> k \in 1 .. n
<1> DEFINE f == [k \in 1 .. n |-> k * LineSize]
<1>1. \A k \in 1 .. n : k * LineSize \in Nat \ {0}
  <2> SUFFICES ASSUME NEW k \in 1 .. n PROVE k * LineSize \in Nat \ {0}
    OBVIOUS
  <2>1. k \in Nat /\ 0 < k /\ 0 \in Nat
    OBVIOUS
  <2>2. 0 * LineSize + LineSize <= k * LineSize /\ k * LineSize \in Nat /\ 0 * LineSize = 0
    BY <2>1, Times, TimesSum
  <2> QED
    BY <2>2, LineType
<1>2. f \in Bijection(1 .. n, Multiples(n))
  <2>1. f \in [1 .. n -> Multiples(n)]
    BY DEF Multiples
  <2>2. \A j, k \in 1 .. n : f[j] = f[k] => j = k
    BY TimesInjective
  <2>3. \A t \in Multiples(n) : \E k \in 1 .. n : f[k] = t
    BY DEF Multiples
  <2> QED
    BY <2>1, <2>2, <2>3 DEF Bijection, Injection, Surjection, IsInjective
<1>3. IsFiniteSet(1 .. n) /\ Cardinality(1 .. n) = n
  BY FS_Interval
<1>4. ExistsBijection(1 .. n, Multiples(n))
  BY <1>2 DEF ExistsBijection
<1>5. IsFiniteSet(Multiples(n)) /\ Cardinality(Multiples(n)) = n
  BY <1>3, <1>4, FS_Bijection
<1>6. \A k \in Nat : k * LineSize \in Multiples(n) => k \in 1 .. n
  <2> SUFFICES ASSUME NEW k \in Nat, k * LineSize \in Multiples(n) PROVE k \in 1 .. n
    OBVIOUS
  <2>1. PICK j \in 1 .. n : k * LineSize = j * LineSize
    BY DEF Multiples
  <2> QED
    BY <2>1, TimesInjective
<1>7. \A k \in 1 .. n : k * LineSize \in Multiples(n)
  BY DEF Multiples
<1> QED
  BY <1>1, <1>5, <1>6, <1>7 DEF Multiples

(* A sequence whose line ends are the first n multiples.                   *)
Regular(s, n) == n \in Nat /\ Ends(s) = Multiples(n)

(* The k-th line end of it is the k-th multiple, ...                       *)
LEMMA EndOfRegular ==
  ASSUME NEW s, NEW n \in Nat, Regular(s, n), NEW k \in 0 .. n
  PROVE  End(s, k) = k * LineSize
<1> DEFINE UpTo(i) == {j \in Ends(s) : j <= i}
<1>1. \A m \in 0 .. n : UpTo(m * LineSize) = Multiples(m)
  <2> SUFFICES ASSUME NEW m \in 0 .. n PROVE UpTo(m * LineSize) = Multiples(m)
    OBVIOUS
  <2>1. m \in Nat /\ m * LineSize \in Nat
    BY Times
  <2>2. \A q \in 1 .. n : q * LineSize <= m * LineSize <=> q <= m
    <3> SUFFICES ASSUME NEW q \in 1 .. n PROVE q * LineSize <= m * LineSize <=> q <= m
      OBVIOUS
    <3>1. q \in Nat /\ q * LineSize \in Nat /\ LineSize \in Nat \ {0}
      BY Times, LineType
    <3>2. m < q => m * LineSize + LineSize <= q * LineSize
      BY <2>1, <3>1, Times
    <3>3. q <= m => q * LineSize <= m * LineSize
      BY <2>1, <3>1, TimesSum
    <3> QED
      BY <2>1, <3>1, <3>2, <3>3
  <2>3. \A q \in 1 .. n : q <= m <=> q \in 1 .. m
    BY <2>1
  <2>4. \A q \in 1 .. m : q \in 1 .. n
    BY <2>1
  <2> QED
    BY <2>2, <2>3, <2>4 DEF Regular, Multiples
<1>2. \A m \in 0 .. n : Cardinality(UpTo(m * LineSize)) = m
  <2> SUFFICES ASSUME NEW m \in 0 .. n PROVE Cardinality(UpTo(m * LineSize)) = m
    OBVIOUS
  <2>1. UpTo(m * LineSize) = Multiples(m) /\ m \in Nat
    BY <1>1
  <2> HIDE DEF UpTo
  <2> QED
    BY <2>1, CountMultiples
<1>3. \A i \in Ends(s) \cup {0} : \E m \in 0 .. n : i = m * LineSize
  <2>1. 0 = 0 * LineSize /\ 0 \in 0 .. n
    BY TimesSum
  <2>2. \A i \in Multiples(n) : \E m \in 0 .. n : i = m * LineSize
    BY DEF Multiples
  <2> QED
    BY <2>1, <2>2 DEF Regular
<1>4. \A m \in 0 .. n : m * LineSize \in Ends(s) \cup {0}
  <2> SUFFICES ASSUME NEW m \in 0 .. n PROVE m * LineSize \in Ends(s) \cup {0}
    OBVIOUS
  <2>1. CASE m = 0
    BY <2>1, TimesSum
  <2>2. CASE m # 0
    <3>1. m \in 1 .. n
      BY <2>2
    <3> QED
      BY <3>1 DEF Regular, Multiples
  <2> QED
    BY <2>1, <2>2
<1>5. \A i \in Ends(s) \cup {0} : Cardinality(UpTo(i)) = k <=> i = k * LineSize
  BY <1>2, <1>3
<1>6. End(s, k) = CHOOSE i \in Ends(s) \cup {0} : Cardinality(UpTo(i)) = k
  BY DEF End
<1> HIDE DEF UpTo
<1> QED
  BY <1>4, <1>5, <1>6

(* ... and the last one the n-th.                                          *)
LEMMA LastEndOfRegular ==
  ASSUME NEW s, NEW n \in Nat, Regular(s, n)
  PROVE  LastEnd(s) = n * LineSize
<1> DEFINE S == Ends(s) \cup {0}
<1>1. n * LineSize \in S
  <2>1. CASE n = 0
    BY <2>1, TimesSum
  <2>2. CASE n # 0
    <3>1. n \in 1 .. n
      BY <2>2
    <3> QED
      BY <3>1 DEF Regular, Multiples
  <2> QED
    BY <2>1, <2>2
<1>2. \A y \in S : n * LineSize >= y /\ y \in Nat
  <2>1. n * LineSize \in Nat /\ n * LineSize >= 0
    BY Times
  <2>2. \A q \in 1 .. n : q * LineSize <= n * LineSize /\ q * LineSize \in Nat
    <3> SUFFICES ASSUME NEW q \in 1 .. n PROVE q * LineSize <= n * LineSize /\ q * LineSize \in Nat
      OBVIOUS
    <3>1. q \in Nat /\ q <= n
      OBVIOUS
    <3> QED
      BY <3>1, TimesSum, Times
  <2>3. \A y \in Multiples(n) : n * LineSize >= y /\ y \in Nat
    <3> SUFFICES ASSUME NEW y \in Multiples(n) PROVE n * LineSize >= y /\ y \in Nat
      OBVIOUS
    <3>1. PICK q \in 1 .. n : y = q * LineSize
      BY DEF Multiples
    <3> QED
      BY <2>1, <2>2, <3>1
  <2>4. \A y \in S : y \in Multiples(n) \/ y = 0
    BY DEF Regular
  <2> QED
    BY <2>1, <2>3, <2>4
<1>3. LastEnd(s) = CHOOSE x \in S : \A y \in S : x >= y
  BY DEF LastEnd, Max
<1> HIDE DEF S
<1>4. \A x \in S : (\A y \in S : x >= y) => x = n * LineSize
  BY <1>1, <1>2
<1> QED
  BY <1>1, <1>2, <1>3, <1>4

----------------------------------------------------------------------------
(* Bytes that follow each other.                                           *)
AnyByte == [gen: Nat, at: Nat]

(* A list of n elements.                                                   *)
Listed(f, n) == f = [i \in 1 .. n |-> f[i]]

(* A list of elements of S is a sequence over S.                           *)
LEMMA MadeSequence ==
  ASSUME NEW n \in Nat, NEW S, NEW f, Listed(f, n),
         \A i \in 1 .. n : f[i] \in S
  PROVE  f \in Seq(S) /\ Len(f) = n /\ DOMAIN f = 1 .. n
<1>1. f \in [1 .. n -> S]
  BY Zenon DEF Listed
<1> QED
  BY <1>1

(* Two lists, one after the other, are the list that agrees with both.     *)
LEMMA JoinedLists ==
  ASSUME NEW n \in Nat, NEW m \in Nat, NEW f, NEW h, NEW u,
         Listed(f, n), Listed(h, m), Listed(u, n + m),
         \A k \in 1 .. n : u[k] = f[k],
         \A k \in n + 1 .. n + m : u[k] = h[k - n]
  PROVE  u = f \o h
<1> DEFINE S == {f[k] : k \in 1 .. n} \cup {h[k] : k \in 1 .. m}
<1>0. /\ \A k \in 1 .. n : f[k] \in S
      /\ \A k \in 1 .. m : h[k] \in S
  OBVIOUS
<1> HIDE DEF S
<1>1. f \in Seq(S) /\ Len(f) = n
  BY <1>0, MadeSequence
<1>2. h \in Seq(S) /\ Len(h) = m
  BY <1>0, MadeSequence
<1> DEFINE v == f \o h
<1>3. /\ v \in Seq(S) /\ Len(v) = n + m
      /\ \A k \in 1 .. n : v[k] = f[k]
  BY <1>1, <1>2
<1>4. \A k \in n + 1 .. n + m : v[k] = h[k - n]
  <2> SUFFICES ASSUME NEW k \in n + 1 .. n + m PROVE v[k] = h[k - n]
    OBVIOUS
  <2>1. /\ k \in Nat /\ ~(k <= Len(f)) /\ k \in 1 .. Len(f) + Len(h)
        /\ k - Len(f) = k - n
    BY <1>1, <1>2
  <2>2. v[k] = h[k - Len(f)]
    BY <1>1, <1>2, <2>1
  <2> QED
    BY <2>1, <2>2
<1> HIDE DEF v
<1>5. v = [k \in 1 .. n + m |-> v[k]]
  BY <1>3
<1>6. \A k \in 1 .. n + m : v[k] = u[k]
  <2> SUFFICES ASSUME NEW k \in 1 .. n + m PROVE v[k] = u[k]
    OBVIOUS
  <2>1. k \in 1 .. n \/ k \in n + 1 .. n + m
    OBVIOUS
  <2> QED
    BY <1>3, <1>4, <2>1
<1>7. u = [k \in 1 .. n + m |-> u[k]]
  BY DEF Listed
<1>8. u = v
  BY <1>5, <1>6, <1>7, Zenon
<1> QED
  BY <1>8 DEF v

(* A stretch of a file is the sequence of its bytes, ...                   *)
LEMMA BytesShape ==
  ASSUME NEW g \in Nat, NEW a \in Nat, NEW b \in Nat, a <= b
  PROVE  /\ Bytes(g, a, b) \in Seq(AnyByte) /\ Len(Bytes(g, a, b)) = b - a
         /\ DOMAIN Bytes(g, a, b) = 1 .. b - a
         /\ \A i \in 1 .. b - a : Bytes(g, a, b)[i] = [gen |-> g, at |-> a + i]
<1>1. b - a \in Nat
  OBVIOUS
<1>2. \A i \in 1 .. b - a : Byte(g, a + i) \in AnyByte /\ Byte(g, a + i) = [gen |-> g, at |-> a + i]
  BY DEF Byte, AnyByte
<1> DEFINE s == Bytes(g, a, b)
           n == b - a
<1>3. s = [i \in 1 .. n |-> Byte(g, a + i)]
  BY DEF Bytes
<1> HIDE DEF s, n
<1>4. s = [i \in 1 .. n |-> s[i]] /\ \A i \in 1 .. n : s[i] = Byte(g, a + i)
  BY <1>3
<1>5. n \in Nat
  BY <1>1 DEF n
<1>6. \A i \in 1 .. n : s[i] \in AnyByte
  BY <1>2, <1>4 DEF n
<1>7. s \in Seq(AnyByte) /\ Len(s) = n /\ DOMAIN s = 1 .. n
  <2>1. Listed(s, n)
    BY <1>4 DEF Listed
  <2> QED
    BY <1>5, <1>6, <2>1, MadeSequence
<1> QED
  BY <1>2, <1>4, <1>7 DEF s, n

(* ... and the only one.                                                   *)
LEMMA BytesWhole ==
  ASSUME NEW g \in Nat, NEW a \in Nat, NEW b \in Nat, a <= b,
         NEW s \in Seq(AnyByte), Len(s) = b - a,
         \A i \in 1 .. b - a : s[i] = [gen |-> g, at |-> a + i]
  PROVE  s = Bytes(g, a, b)
<1>1. s = [i \in 1 .. b - a |-> s[i]]
  OBVIOUS
<1>2. \A i \in 1 .. b - a : s[i] = Byte(g, a + i)
  BY DEF Byte
<1>3. s = [i \in 1 .. b - a |-> Byte(g, a + i)]
  BY <1>1, <1>2, Zenon
<1> QED
  BY <1>3 DEF Bytes

(* A stretch of them, and two stretches together.                          *)
Cut(s, i, j) == SubSeq(s, i + 1, j)

LEMMA SubBytes ==
  ASSUME NEW g \in Nat, NEW a \in Nat, NEW b \in Nat, a <= b,
         NEW i \in Nat, NEW j \in Nat, i <= j, j <= b - a
  PROVE  Cut(Bytes(g, a, b), i, j) = Bytes(g, a + i, a + j)
<1> DEFINE s == Bytes(g, a, b)
           t == Cut(s, i, j)
<1>1. /\ s \in Seq(AnyByte) /\ Len(s) = b - a
      /\ \A k \in 1 .. b - a : s[k] = [gen |-> g, at |-> a + k]
  BY BytesShape
<1> HIDE DEF s
<1>2. \A k \in i + 1 .. j : k \in 1 .. Len(s)
  BY <1>1
<1>3. /\ t \in Seq(AnyByte) /\ Len(t) = j - i
      /\ \A k \in 1 .. j - i : t[k] = s[i + k]
  BY <1>1, <1>2 DEF Cut
<1>4. /\ a + i \in Nat /\ a + j \in Nat /\ a + i <= a + j
      /\ (a + j) - (a + i) = j - i
  OBVIOUS
<1>5. \A k \in 1 .. j - i : t[k] = [gen |-> g, at |-> (a + i) + k]
  <2> SUFFICES ASSUME NEW k \in 1 .. j - i PROVE t[k] = [gen |-> g, at |-> (a + i) + k]
    OBVIOUS
  <2>1. i + k \in 1 .. b - a /\ a + (i + k) = (a + i) + k
    OBVIOUS
  <2> QED
    BY <1>1, <1>3, <2>1
<1> DEFINE p == a + i
           q == a + j
<1>6. /\ p \in Nat /\ q \in Nat /\ p <= q /\ t \in Seq(AnyByte) /\ Len(t) = q - p
      /\ \A k \in 1 .. q - p : t[k] = [gen |-> g, at |-> p + k]
  BY <1>3, <1>4, <1>5
<1> HIDE DEF t, p, q
<1>7. t = Bytes(g, p, q)
  BY <1>6, BytesWhole
<1> QED
  BY <1>7 DEF t, s, p, q

(* One after the other.                                                    *)
Then(s, t) == s \o t

(* A stretch and the one that goes on where it ends.                       *)
LEMMA JoinBytes ==
  ASSUME NEW g \in Nat, NEW a \in Nat, NEW b \in Nat, NEW c \in Nat, a <= b, b <= c
  PROVE  Then(Bytes(g, a, b), Bytes(g, b, c)) = Bytes(g, a, c)
<1> DEFINE s == Bytes(g, a, b)
           t == Bytes(g, b, c)
           u == s \o t
<1>1. /\ s \in Seq(AnyByte) /\ Len(s) = b - a
      /\ \A k \in 1 .. b - a : s[k] = [gen |-> g, at |-> a + k]
      /\ t \in Seq(AnyByte) /\ Len(t) = c - b
      /\ \A k \in 1 .. c - b : t[k] = [gen |-> g, at |-> b + k]
  BY BytesShape
<1> HIDE DEF s, t
<1>2. u \in Seq(AnyByte) /\ Len(u) = c - a
  <2>1. u \in Seq(AnyByte) /\ Len(u) = Len(s) + Len(t)
    <3>1. s \in Seq(AnyByte) /\ t \in Seq(AnyByte)
      BY <1>1
    <3> QED
      BY <3>1
  <2>2. (b - a) + (c - b) = c - a
    OBVIOUS
  <2> QED
    BY <1>1, <2>1, <2>2
<1>3. \A k \in 1 .. c - a : u[k] = [gen |-> g, at |-> a + k]
  <2> SUFFICES ASSUME NEW k \in 1 .. c - a PROVE u[k] = [gen |-> g, at |-> a + k]
    OBVIOUS
  <2>1. CASE k <= b - a
    BY <1>1, <2>1
  <2>2. CASE ~(k <= b - a)
    <3>1. k - (b - a) \in 1 .. c - b /\ b + (k - (b - a)) = a + k
      BY <2>2
    <3>2. u[k] = t[k - (b - a)]
      BY <1>1, <2>2
    <3> QED
      BY <1>1, <3>1, <3>2
  <2> QED
    BY <2>1, <2>2
<1>4. a <= c
  OBVIOUS
<1> HIDE DEF u
<1>5. u = Bytes(g, a, c)
  BY <1>2, <1>3, <1>4, BytesWhole
<1> QED
  BY <1>5 DEF u, s, t, Then

----------------------------------------------------------------------------
(* n whole lines, and less than one more, from the start of a line on.     *)
Holds(a, b, n) ==
  /\ a \in Nat /\ b \in Nat /\ a <= b /\ n \in Nat
  /\ \E j \in Nat : a = j * LineSize
  /\ n * LineSize <= b - a /\ b - a < n * LineSize + LineSize

(* From the start of a line on, some number of whole lines fits.           *)
LEMMA HowMany ==
  ASSUME NEW a \in Nat, NEW b \in Nat, a <= b, \E j \in Nat : a = j * LineSize
  PROVE  \E n \in Nat : Holds(a, b, n)
<1> DEFINE x == b - a
           n == x \div LineSize
           r == x % LineSize
<1>1. x \in Nat
  OBVIOUS
<1>2. n \in Nat /\ r \in 0 .. LineSize - 1 /\ x = n * LineSize + r
  BY <1>1, Modulo
<1>3. n * LineSize \in Nat /\ LineSize \in Nat \ {0}
  BY <1>2, Times, LineType
<1> HIDE DEF n, r
<1>4. n * LineSize <= x /\ x < n * LineSize + LineSize
  BY <1>2, <1>3
<1> QED
  BY <1>2, <1>4 DEF Holds

(* Such a stretch has its line ends at the multiples.                      *)
LEMMA RegularBytes ==
  ASSUME NEW g \in Nat, NEW a, NEW b, NEW n, Holds(a, b, n)
  PROVE  Regular(Bytes(g, a, b), n)
<1> DEFINE s == Bytes(g, a, b)
<1>1. /\ a \in Nat /\ b \in Nat /\ a <= b /\ n \in Nat
      /\ n * LineSize <= b - a /\ b - a < n * LineSize + LineSize
  BY DEF Holds
<1>2. PICK j \in Nat : a = j * LineSize
  BY DEF Holds
<1>3. DOMAIN s = 1 .. b - a /\ \A i \in 1 .. b - a : s[i].at = a + i
  <2>1. DOMAIN s = 1 .. b - a /\ \A i \in 1 .. b - a : s[i] = [gen |-> g, at |-> a + i]
    BY <1>1, BytesShape
  <2> HIDE DEF s
  <2>2. ASSUME NEW i \in 1 .. b - a PROVE s[i].at = a + i
    <3>1. s[i] = [gen |-> g, at |-> a + i]
      BY <2>1
    <3> QED
      BY <3>1
  <2> QED
    BY <2>1, <2>2
<1>4. Ends(s) = {i \in 1 .. b - a : (a + i) % LineSize = 0}
  BY <1>3 DEF Ends
<1>5. ASSUME NEW i \in 1 .. b - a, (a + i) % LineSize = 0 PROVE i \in Multiples(n)
  <2>0. a + i \in Nat /\ a + i > a /\ i <= b - a
    BY <1>1
  <2>1. PICK m \in Nat : a + i = m * LineSize
    BY <1>5, <2>0, Multiple
  <2>2. ~(m <= j)
    BY <1>2, <2>0, <2>1, TimesSum, Times
  <2>3. m - j \in Nat \ {0} /\ (m - j) * LineSize = i
    <3>1. m - j \in Nat \ {0} /\ j <= m
      BY <2>2
    <3>2. (m - j) * LineSize = m * LineSize - j * LineSize
      BY <3>1, TimesSum
    <3>3. m * LineSize \in Nat /\ j * LineSize \in Nat
      BY Times
    <3> QED
      BY <1>2, <2>1, <3>1, <3>2, <3>3, <1>1
  <2>4. ~(n < m - j)
    <3> SUFFICES ASSUME n < m - j PROVE FALSE
      OBVIOUS
    <3>1. n * LineSize + LineSize <= (m - j) * LineSize
      BY <1>1, <2>3, Times
    <3>2. n * LineSize \in Nat /\ LineSize \in Nat
      BY <1>1, Times, LineType
    <3> QED
      BY <1>1, <2>0, <2>3, <3>1, <3>2
  <2>5. m - j \in 1 .. n
    BY <1>1, <2>3, <2>4
  <2> QED
    BY <2>3, <2>5 DEF Multiples
<1>6. ASSUME NEW k \in 1 .. n
      PROVE  k * LineSize \in 1 .. b - a /\ (a + k * LineSize) % LineSize = 0
  <2>1. k \in Nat /\ k <= n /\ 0 < k
    BY <1>1
  <2>2. k * LineSize <= n * LineSize /\ k * LineSize \in Nat /\ n * LineSize \in Nat
    BY <1>1, <2>1, TimesSum, Times
  <2>3. k * LineSize \in Nat \ {0}
    BY <1>1, <1>6, CountMultiples DEF Multiples
  <2>4. k * LineSize \in 1 .. b - a
    BY <1>1, <2>2, <2>3
  <2>5. a + k * LineSize = (j + k) * LineSize /\ j + k \in Nat /\ a + k * LineSize \in Nat
    <3>1. (j + k) * LineSize = j * LineSize + k * LineSize
      BY <2>1, TimesSum
    <3> QED
      BY <1>1, <1>2, <2>1, <2>2, <3>1
  <2> QED
    BY <2>4, <2>5, Multiple
<1>7. Ends(s) = Multiples(n)
  <2>1. \A i \in Ends(s) : i \in Multiples(n)
    BY <1>4, <1>5
  <2>2. \A i \in Multiples(n) : i \in Ends(s)
    <3> SUFFICES ASSUME NEW k \in 1 .. n PROVE k * LineSize \in Ends(s)
      BY DEF Multiples
    <3> QED
      BY <1>4, <1>6
  <2> QED
    BY <2>1, <2>2
<1> QED
  BY <1>1, <1>7 DEF Regular

(* Their lines, and what is left of them.                                  *)
LEMMA LinesOfBytes ==
  ASSUME NEW g \in Nat, NEW a, NEW b, NEW n, Holds(a, b, n)
  PROVE  /\ Lines(Bytes(g, a, b)) =
              [k \in 1 .. n |-> Bytes(g, a + (k - 1) * LineSize, a + k * LineSize)]
         /\ Rest(Bytes(g, a, b)) = Bytes(g, a + n * LineSize, b)
<1> DEFINE s == Bytes(g, a, b)
<1>1. /\ a \in Nat /\ b \in Nat /\ a <= b /\ n \in Nat
      /\ n * LineSize <= b - a
  BY DEF Holds
<1>2. Regular(s, n)
  BY RegularBytes
<1>3. Cardinality(Ends(s)) = n
  BY <1>1, <1>2, CountMultiples DEF Regular
<1>4. ASSUME NEW k \in 1 .. n
      PROVE  Cut(s, End(s, k - 1), End(s, k)) =
                Bytes(g, a + (k - 1) * LineSize, a + k * LineSize)
  <2>1. k \in 0 .. n /\ k - 1 \in 0 .. n /\ k - 1 < k /\ k <= n /\ k \in Nat /\ k - 1 \in Nat
    BY <1>1
  <2>2. End(s, k) = k * LineSize /\ End(s, k - 1) = (k - 1) * LineSize
    BY <1>1, <1>2, <2>1, EndOfRegular
  <2>3. /\ k * LineSize \in Nat /\ (k - 1) * LineSize \in Nat /\ n * LineSize \in Nat
        /\ (k - 1) * LineSize <= k * LineSize /\ k * LineSize <= n * LineSize
    <3>1. k - 1 <= k
      BY <2>1
    <3>2. (k - 1) * LineSize <= k * LineSize
      BY <2>1, <3>1, TimesSum
    <3>3. k * LineSize <= n * LineSize
      BY <1>1, <2>1, TimesSum
    <3>4. k * LineSize \in Nat /\ (k - 1) * LineSize \in Nat /\ n * LineSize \in Nat
      BY <1>1, <2>1, Times
    <3> QED
      BY <3>2, <3>3, <3>4
  <2> DEFINE lo == (k - 1) * LineSize
             hi == k * LineSize
  <2>4. lo \in Nat /\ hi \in Nat /\ lo <= hi /\ hi <= b - a
    BY <1>1, <2>3
  <2>5. End(s, k) = hi /\ End(s, k - 1) = lo
    BY <2>2
  <2> HIDE DEF lo, hi
  <2>6. Cut(s, lo, hi) = Bytes(g, a + lo, a + hi)
    BY <1>1, <2>4, SubBytes
  <2>7. Cut(s, End(s, k - 1), End(s, k)) = Bytes(g, a + lo, a + hi)
    BY <2>5, <2>6
  <2> QED
    BY <2>7 DEF lo, hi
<1>5. Lines(s) = [k \in 1 .. n |-> Cut(s, End(s, k - 1), End(s, k))]
  BY <1>3 DEF Lines, Cut
<1>6. Rest(s) = Cut(s, n * LineSize, b - a)
  BY <1>1, <1>2, LastEndOfRegular, BytesShape DEF Rest, Cut
<1>7. n * LineSize \in Nat /\ b - a \in Nat /\ a + (b - a) = b
  BY <1>1, Times
<1>8. Rest(s) = Bytes(g, a + n * LineSize, b)
  <2> DEFINE lo == n * LineSize
             hi == b - a
  <2>1. /\ lo \in Nat /\ hi \in Nat /\ lo <= hi /\ hi <= b - a /\ a + hi = b
        /\ Rest(s) = Cut(s, lo, hi)
    BY <1>1, <1>6, <1>7
  <2> HIDE DEF lo, hi
  <2>2. Cut(s, lo, hi) = Bytes(g, a + lo, a + hi)
    BY <1>1, <2>1, SubBytes
  <2>3. Rest(s) = Bytes(g, a + lo, b)
    BY <2>1, <2>2
  <2> QED
    BY <2>3 DEF lo
<1> HIDE DEF s
<1>9. Lines(s) = [k \in 1 .. n |-> Bytes(g, a + (k - 1) * LineSize, a + k * LineSize)]
  BY <1>4, <1>5
<1> QED
  BY <1>8, <1>9 DEF s

(* Bytes that go on after b.                                               *)
LEMMA SplitLines ==
  ASSUME NEW g \in Nat, NEW a, NEW b, NEW c \in Nat, NEW n, Holds(a, b, n), b <= c
  PROVE  LET left == Rest(Bytes(g, a, b)) \o Bytes(g, b, c)
         IN  /\ Lines(Bytes(g, a, c)) = Lines(Bytes(g, a, b)) \o Lines(left)
             /\ Rest(Bytes(g, a, c)) = Rest(left)
<1> DEFINE d == a + n * LineSize
<1>1. /\ a \in Nat /\ b \in Nat /\ a <= b /\ n \in Nat
      /\ n * LineSize <= b - a /\ b - a < n * LineSize + LineSize
  BY DEF Holds
<1>2. PICK j \in Nat : a = j * LineSize
  BY DEF Holds
<1>3. n * LineSize \in Nat /\ d \in Nat /\ d <= b /\ d <= c /\ a <= c
  BY <1>1, Times
<1>4. d = (j + n) * LineSize /\ j + n \in Nat
  BY <1>1, <1>2, TimesSum
<1>5. PICK m \in Nat : Holds(d, c, m)
  BY <1>3, <1>4, HowMany
<1>6. Rest(Bytes(g, a, b)) \o Bytes(g, b, c) = Bytes(g, d, c)
  <2>1. Rest(Bytes(g, a, b)) = Bytes(g, d, b)
    BY LinesOfBytes
  <2> HIDE DEF d
  <2>2. Then(Bytes(g, d, b), Bytes(g, b, c)) = Bytes(g, d, c)
    BY <1>1, <1>3, JoinBytes
  <2> QED
    BY <2>1, <2>2, Zenon DEF Then
<1>7. m * LineSize <= c - d /\ c - d < m * LineSize + LineSize /\ m * LineSize \in Nat
  BY <1>5, Times DEF Holds
<1>8. n + m \in Nat /\ (n + m) * LineSize = n * LineSize + m * LineSize
  BY <1>1, TimesSum
<1>9. Holds(a, c, n + m)
  <2>1. (n + m) * LineSize <= c - a /\ c - a < (n + m) * LineSize + LineSize
    <3> DEFINE x == n * LineSize
               y == m * LineSize
    <3>1. x \in Nat /\ y \in Nat /\ (n + m) * LineSize = x + y /\ d = a + x
      BY <1>3, <1>7, <1>8
    <3>2. y <= c - d /\ c - d < y + LineSize /\ LineSize \in Nat
      BY <1>7, LineType
    <3> HIDE DEF x, y, d
    <3>3. x + y <= c - a /\ c - a < (x + y) + LineSize
      BY <1>1, <3>1, <3>2
    <3> QED
      BY <3>1, <3>3
  <2> QED
    BY <1>1, <1>2, <1>3, <1>8, <2>1 DEF Holds
<1> DEFINE F == [k \in 1 .. n + m |-> Bytes(g, a + (k - 1) * LineSize, a + k * LineSize)]
           G == [k \in 1 .. n |-> Bytes(g, a + (k - 1) * LineSize, a + k * LineSize)]
           H == [k \in 1 .. m |-> Bytes(g, d + (k - 1) * LineSize, d + k * LineSize)]
<1>10. /\ Lines(Bytes(g, a, c)) = F /\ Lines(Bytes(g, a, b)) = G
       /\ Lines(Bytes(g, d, c)) = H
  BY <1>5, <1>9, LinesOfBytes
<1>11. F = G \o H
  <2>1. Listed(G, n) /\ Listed(H, m) /\ Listed(F, n + m)
    BY DEF Listed
  <2>2. \A k \in 1 .. n : F[k] = G[k]
    BY <1>1
  <2>3. \A k \in n + 1 .. n + m : F[k] = H[k - n]
    <3> SUFFICES ASSUME NEW k \in n + 1 .. n + m PROVE F[k] = H[k - n]
      OBVIOUS
    <3>1. /\ k - n \in 1 .. m /\ k \in 1 .. n + m /\ k \in Nat /\ k - 1 \in Nat
          /\ k - n \in Nat /\ (k - n) - 1 \in Nat
          /\ n <= k /\ n <= k - 1 /\ (k - 1) - n = (k - n) - 1
      BY <1>1
    <3>2. /\ (k - n) * LineSize = k * LineSize - n * LineSize
          /\ ((k - n) - 1) * LineSize = (k - 1) * LineSize - n * LineSize
      BY <1>1, <3>1, TimesSum
    <3>3. k * LineSize \in Nat /\ (k - 1) * LineSize \in Nat
      BY <3>1, Times
    <3>4. /\ d + (k - n) * LineSize = a + k * LineSize
          /\ d + ((k - n) - 1) * LineSize = a + (k - 1) * LineSize
      BY <1>1, <1>3, <3>2, <3>3
    <3>5. H[k - n] = Bytes(g, d + ((k - n) - 1) * LineSize, d + (k - n) * LineSize)
      BY <3>1
    <3>6. F[k] = Bytes(g, a + (k - 1) * LineSize, a + k * LineSize)
      BY <3>1
    <3> QED
      BY <3>4, <3>5, <3>6
  <2> HIDE DEF F, G, H
  <2> QED
    BY <1>1, <2>1, <2>2, <2>3, JoinedLists
<1>12. /\ Rest(Bytes(g, a, c)) = Bytes(g, a + (n + m) * LineSize, c)
       /\ Rest(Bytes(g, d, c)) = Bytes(g, d + m * LineSize, c)
  BY <1>5, <1>9, LinesOfBytes
<1>13. a + (n + m) * LineSize = d + m * LineSize
  BY <1>1, <1>3, <1>7, <1>8
<1> HIDE DEF d, F, G, H
<1> QED
  BY <1>6, <1>10, <1>11, <1>12, <1>13

(* Of no bytes there is no line and no rest.                               *)
LEMMA NoBytes ==
  ASSUME NEW g \in Nat, NEW a \in Nat
  PROVE  /\ Bytes(g, a, a) = <<>>
         /\ Lines(<<>>) = <<>> /\ Rest(<<>>) = <<>> /\ AfterFirstEnd(<<>>) = <<>>
<1>1. \A b \in Nat : Bytes(g, b, b) \in Seq(AnyByte) /\ Len(Bytes(g, b, b)) = 0
  BY BytesShape
<1>2. \A b \in Nat : Bytes(g, b, b) = <<>>
  BY <1>1
<1>3. Holds(0, 0, 0)
  BY TimesSum, LineType DEF Holds
<1>4. 0 + 0 * LineSize = 0
  BY TimesSum
<1>5. Rest(Bytes(g, 0, 0)) = Bytes(g, 0, 0)
  BY <1>3, <1>4, LinesOfBytes
<1>6. Lines(Bytes(g, 0, 0)) = [k \in 1 .. 0 |-> Bytes(g, 0 + (k - 1) * LineSize, 0 + k * LineSize)]
  BY <1>3, LinesOfBytes
<1>7. Lines(Bytes(g, 0, 0)) = <<>>
  <2>1. \A F : F = [k \in 1 .. 0 |-> F[k]] => F = <<>>
    OBVIOUS
  <2> QED
    BY <1>6, <2>1
<1>8. Ends(<<>>) = {}
  BY DEF Ends
<1> QED
  BY <1>2, <1>5, <1>7, <1>8 DEF AfterFirstEnd

(* What follows the first line end, once there is one.                     *)
LEMMA AfterFirst ==
  ASSUME NEW g \in Nat, NEW a \in Nat, NEW b \in Nat, a + LineSize <= b
  PROVE  \E w \in Nat : /\ w <= b /\ \E j \in Nat : w = j * LineSize
                        /\ \A c \in Nat : b <= c =>
                             AfterFirstEnd(Bytes(g, a, c)) = Bytes(g, w, c)
<1> DEFINE q == a \div LineSize
           w == (q + 1) * LineSize
           i == w - a
<1>0. LineSize \in Nat \ {0}
  BY LineType
<1>1. q \in Nat /\ a % LineSize \in 0 .. LineSize - 1 /\ a = q * LineSize + (a % LineSize)
  BY Modulo
<1>2. q * LineSize \in Nat /\ w = q * LineSize + LineSize /\ w \in Nat
  BY <1>0, <1>1, Times
<1> HIDE DEF q
<1>3. a < w /\ w <= a + LineSize /\ w <= b
  BY <1>0, <1>1, <1>2
<1>4. ASSUME NEW c \in Nat, b <= c
      PROVE  AfterFirstEnd(Bytes(g, a, c)) = Bytes(g, w, c)
  <2> DEFINE s == Bytes(g, a, c)
  <2>1. a <= c
    BY <1>3, <1>4, <1>2
  <2>2. DOMAIN s = 1 .. c - a /\ Len(s) = c - a /\ \A k \in 1 .. c - a : s[k] = [gen |-> g, at |-> a + k]
    BY <2>1, BytesShape
  <2> HIDE DEF s
  <2>3. \A k \in 1 .. c - a : s[k].at = a + k
    <3> SUFFICES ASSUME NEW k \in 1 .. c - a PROVE s[k].at = a + k
      OBVIOUS
    <3>1. s[k] = [gen |-> g, at |-> a + k]
      BY <2>2
    <3> QED
      BY <3>1
  <2>4. Ends(s) = {k \in 1 .. c - a : (a + k) % LineSize = 0}
    BY <2>2, <2>3 DEF Ends
  <2>5. i \in Nat \ {0} /\ a + i = w /\ i \in 1 .. c - a
    BY <1>2, <1>3, <1>4, <2>1
  <2>6. w % LineSize = 0
    BY <1>1, <1>2, Multiple
  <2>7. i \in Ends(s)
    BY <2>4, <2>5, <2>6
  <2>8. \A k \in Ends(s) : i <= k /\ k \in Nat
    <3> SUFFICES ASSUME NEW k \in 1 .. c - a, (a + k) % LineSize = 0 PROVE i <= k
      BY <2>4
    <3>0. a + k \in Nat /\ k >= 1
      OBVIOUS
    <3>1. PICK m \in Nat : a + k = m * LineSize
      BY <3>0, Multiple
    <3>2. ~(m <= q)
      <4> SUFFICES ASSUME m <= q PROVE FALSE
        OBVIOUS
      <4>1. m * LineSize <= q * LineSize
        BY <1>1, TimesSum
      <4> QED
        BY <1>0, <1>1, <1>2, <3>0, <3>1, <4>1
    <3>3. q * LineSize + LineSize <= m * LineSize
      BY <1>1, <3>2, Times
    <3> QED
      BY <1>2, <3>0, <3>1, <3>3
  <2>9. Min(Ends(s)) = i
    <3> HIDE DEF i
    <3>1. \A x \in Ends(s) : (\A y \in Ends(s) : x <= y) => x = i
      BY <2>5, <2>7, <2>8
    <3>2. Min(Ends(s)) = CHOOSE x \in Ends(s) : \A y \in Ends(s) : x <= y
      BY DEF Min
    <3> QED
      BY <2>7, <2>8, <3>1, <3>2
  <2>10. AfterFirstEnd(s) = Cut(s, i, c - a)
    BY <2>2, <2>7, <2>9 DEF AfterFirstEnd, Cut
  <2> DEFINE lo == i
             hi == c - a
  <2>11. lo \in Nat /\ hi \in Nat /\ lo <= hi /\ hi <= c - a /\ a + lo = w /\ a + hi = c
    BY <2>1, <2>5
  <2> HIDE DEF lo, hi
  <2>12. Cut(Bytes(g, a, c), lo, hi) = Bytes(g, a + lo, a + hi)
    BY <2>1, <2>11, SubBytes
  <2>13. Cut(Bytes(g, a, c), lo, hi) = Bytes(g, w, c)
    BY <2>11, <2>12
  <2> QED
    BY <2>10, <2>13 DEF lo, hi, s
<1>5. q + 1 \in Nat /\ \E j \in Nat : w = j * LineSize
  BY <1>1
<1> HIDE DEF w
<1> QED
  BY <1>2, <1>3, <1>4, <1>5

----------------------------------------------------------------------------
(* A sequence of bytes put together in any way.  First, least and greatest *)
(* numbers of a set.                                                       *)
LEMMA Least ==
  ASSUME NEW S, S \subseteq Nat, S # {}
  PROVE  \E m \in S : \A y \in S : m <= y
<1>1. PICK m \in S : \A y \in S : ~(<<y, m>> \in OpToRel(<, Nat))
  BY NatLessThanWellFounded, WFMin
<1>2. \A y \in S : ~(y < m)
  BY <1>1 DEF OpToRel
<1> QED
  BY <1>2

(* A finite set of numbers has a greatest element.                         *)
LEMMA Greatest ==
  ASSUME NEW n \in Nat, NEW S, S \subseteq 0 .. n, S # {}
  PROVE  \E m \in S : \A y \in S : m >= y
<1> DEFINE T == {x \in 0 .. n : n - x \in S}
<1>1. T \subseteq Nat /\ T # {}
  <2>1. PICK y \in S : TRUE
    OBVIOUS
  <2>2. n - y \in 0 .. n /\ n - (n - y) = y
    BY <2>1
  <2>3. n - y \in T
    BY <2>1, <2>2
  <2>4. T \subseteq 0 .. n
    OBVIOUS
  <2> HIDE DEF T
  <2> QED
    BY <2>3, <2>4
<1>2. PICK t \in T : \A x \in T : t <= x
  <2> HIDE DEF T
  <2> QED
    BY <1>1, Least
<1>3. ASSUME NEW y \in S PROVE n - t >= y
  <2>1. n - y \in T
    OBVIOUS
  <2>2. t <= n - y
    BY <1>2, <2>1
  <2> QED
    BY <2>2
<1> QED
  BY <1>3

(* Line ends are positions, finitely many.                                 *)
LEMMA EndsType ==
  ASSUME NEW s \in Seq(AnyByte)
  PROVE  /\ Ends(s) \subseteq 1 .. Len(s) /\ IsFiniteSet(Ends(s))
         /\ Cardinality(Ends(s)) \in Nat /\ Ends(s) \cup {0} \subseteq 0 .. Len(s)
<1>1. Ends(s) \subseteq 1 .. Len(s) /\ Len(s) \in Nat
  BY DEF Ends
<1>2. IsFiniteSet(1 .. Len(s))
  BY <1>1, FS_Interval
<1> QED
  BY <1>1, <1>2, FS_Subset, FS_CardinalityType

(* What is left after the last line end is bytes.                          *)
LEMMA RestType ==
  ASSUME NEW s \in Seq(AnyByte)
  PROVE  Rest(s) \in Seq(AnyByte)
<1> DEFINE S == Ends(s) \cup {0}
<1>1. S \subseteq 0 .. Len(s) /\ S # {} /\ Len(s) \in Nat
  BY EndsType
<1>2. LastEnd(s) = CHOOSE x \in S : \A y \in S : x >= y
  BY DEF LastEnd, Max
<1> HIDE DEF S
<1>3. \E m \in S : \A y \in S : m >= y
  BY <1>1, Greatest
<1>4. LastEnd(s) \in 0 .. Len(s)
  BY <1>1, <1>2, <1>3
<1> DEFINE e == LastEnd(s)
<1> HIDE DEF e
<1>5. SubSeq(s, e + 1, Len(s)) \in Seq(AnyByte)
  <2>1. e \in 0 .. Len(s)
    BY <1>4 DEF e
  <2>2. \A i \in e + 1 .. Len(s) : i \in 1 .. Len(s)
    BY <2>1
  <2> QED
    BY <2>1, <2>2
<1> QED
  BY <1>5 DEF Rest, e

(* The k-th line end is there.                                             *)
Counted(s, i) == Cardinality({j \in Ends(s) : j <= i})

(* After the k-th line end comes the next, while there is one.             *)
LEMMA NextEnd ==
  ASSUME NEW s \in Seq(AnyByte), NEW i \in Nat, Counted(s, i) < Cardinality(Ends(s))
  PROVE  \E m \in Ends(s) : Counted(s, m) = Counted(s, i) + 1
<1> DEFINE E == Ends(s)
           D == {j \in E : j <= i}
<1>1. E \subseteq Nat \ {0} /\ IsFiniteSet(E)
  BY EndsType
<1> HIDE DEF E
<1>2. IsFiniteSet(D) /\ D \subseteq E
  BY <1>1, FS_Subset
<1>3. D # E
  <2>1. Cardinality(D) < Cardinality(E)
    BY Zenon DEF Counted, E
  <2>2. D = E => ~(Cardinality(D) < Cardinality(E))
    <3>1. Cardinality(E) \in Nat
      BY <1>1, FS_CardinalityType
    <3> HIDE DEF D
    <3>2. D = E => Cardinality(D) = Cardinality(E)
      OBVIOUS
    <3> QED
      BY <3>1, <3>2
  <2> HIDE DEF D
  <2> QED
    BY <2>1, <2>2
<1>4. E \ D # {} /\ E \ D \subseteq Nat
  BY <1>1, <1>2, <1>3
<1>5. PICK m \in E \ D : \A y \in E \ D : m <= y
  BY <1>4, Least
<1>6. {j \in E : j <= m} = D \cup {m}
  <2>1. m \in E /\ m \in Nat /\ ~(m <= i)
    BY <1>1, <1>5
  <2>2. ASSUME NEW j \in E PROVE j <= m <=> (j <= i \/ j = m)
    <3>1. j \in Nat
      BY <1>1
    <3>2. ~(j <= i) => m <= j
      BY <1>5
    <3> QED
      BY <2>1, <3>1, <3>2
  <2> QED
    BY <2>1, <2>2
<1>7. Cardinality(D \cup {m}) = Cardinality(D) + 1
  BY <1>2, <1>5, FS_AddElement
<1> QED
  BY <1>5, <1>6, <1>7 DEF Counted, E

LEMMA EndThere ==
  ASSUME NEW s \in Seq(AnyByte), NEW k \in 0 .. Cardinality(Ends(s))
  PROVE  End(s, k) \in Ends(s) \cup {0} /\ Counted(s, End(s, k)) = k
<1> DEFINE N == Cardinality(Ends(s))
           T == {n \in 0 .. N : \A i \in Ends(s) \cup {0} : Counted(s, i) # n}
<1>1. N \in Nat /\ Ends(s) \cup {0} \subseteq Nat
  BY EndsType
<1>2. Counted(s, 0) = 0
  <2>1. {j \in Ends(s) : j <= 0} = {}
    BY EndsType
  <2> QED
    BY <2>1, FS_EmptySet DEF Counted
<1>3. T = {}
  <2> SUFFICES ASSUME T # {} PROVE FALSE
    OBVIOUS
  <2>1. T \subseteq Nat
    BY <1>1
  <2>2. PICK n \in T : \A y \in T : n <= y
    <3> HIDE DEF T
    <3> QED
      BY <2>1, Least
  <2>3. n # 0 /\ n \in 0 .. N
    BY <1>2, <2>2
  <2>4. n - 1 \in 0 .. N /\ n - 1 \notin T
    <3>1. n - 1 \in 0 .. N /\ ~(n <= n - 1)
      BY <1>1, <2>3
    <3> HIDE DEF T
    <3> QED
      BY <2>2, <3>1
  <2>5. PICK i \in Ends(s) \cup {0} : Counted(s, i) = n - 1
    BY <2>4
  <2>6. i \in Nat /\ n - 1 < N
    BY <1>1, <2>3
  <2>7. PICK m \in Ends(s) : Counted(s, m) = (n - 1) + 1
    BY <2>5, <2>6, NextEnd
  <2>8. Counted(s, m) = n
    BY <2>3, <2>7
  <2> QED
    BY <2>2, <2>8
<1>4. \E i \in Ends(s) \cup {0} : Counted(s, i) = k
  BY <1>3
<1>5. End(s, k) = CHOOSE i \in Ends(s) \cup {0} : Counted(s, i) = k
  BY DEF End, Counted
<1> QED
  BY <1>4, <1>5

(* Any line at all.                                                        *)
AnyLine == Seq(AnyByte) \ {<<>>}

(* Lines are not empty, whatever bytes they are cut from.                  *)
LEMMA LinesType ==
  ASSUME NEW s \in Seq(AnyByte)
  PROVE  Lines(s) \in Seq(AnyLine)
<1> DEFINE N == Cardinality(Ends(s))
<1>1. N \in Nat
  BY EndsType
<1>2. ASSUME NEW k \in 1 .. N
      PROVE  SubSeq(s, End(s, k - 1) + 1, End(s, k)) \in AnyLine
  <2> DEFINE a == End(s, k - 1)
             b == End(s, k)
  <2>1. k \in 0 .. N /\ k - 1 \in 0 .. N /\ k - 1 < k
    BY <1>1
  <2>2. /\ a \in Ends(s) \cup {0} /\ Counted(s, a) = k - 1
        /\ b \in Ends(s) \cup {0} /\ Counted(s, b) = k
    BY <2>1, EndThere
  <2>3. a \in 0 .. Len(s) /\ b \in 0 .. Len(s) /\ Len(s) \in Nat
    BY <2>2, EndsType
  <2> HIDE DEF a, b
  <2>4. ~(b <= a)
    <3> SUFFICES ASSUME b <= a PROVE FALSE
      OBVIOUS
    <3> DEFINE A == {j \in Ends(s) : j <= a}
               B == {j \in Ends(s) : j <= b}
    <3>1. A \subseteq Ends(s) /\ B \subseteq A
      BY <2>3, EndsType
    <3>2. IsFiniteSet(A)
      BY <3>1, EndsType, FS_Subset
    <3>3. Cardinality(B) <= Cardinality(A)
      <4> HIDE DEF A, B
      <4> QED
        BY <3>1, <3>2, FS_Subset
    <3>4. k <= k - 1
      BY <2>2, <3>3 DEF Counted
    <3> QED
      BY <2>1, <3>4
  <2>5. \A i \in a + 1 .. b : i \in 1 .. Len(s)
    BY <2>3
  <2>6. /\ SubSeq(s, a + 1, b) \in Seq(AnyByte)
        /\ Len(SubSeq(s, a + 1, b)) = b - a
    BY <2>3, <2>4, <2>5
  <2>7. SubSeq(s, a + 1, b) # <<>>
    BY <2>3, <2>4, <2>6
  <2> QED
    BY <2>6, <2>7 DEF AnyLine, a, b
<1>3. Lines(s) = [k \in 1 .. N |-> SubSeq(s, End(s, k - 1) + 1, End(s, k))]
  BY DEF Lines
<1> HIDE DEF N
<1>4. Listed(Lines(s), N) /\ \A k \in 1 .. N : Lines(s)[k] \in AnyLine
  BY <1>2, <1>3 DEF Listed
<1> QED
  BY <1>1, <1>4, MadeSequence

(* What follows the first line end is bytes.                               *)
LEMMA AfterFirstType ==
  ASSUME NEW s \in Seq(AnyByte)
  PROVE  AfterFirstEnd(s) \in Seq(AnyByte)
<1>1. CASE Ends(s) = {}
  BY <1>1 DEF AfterFirstEnd
<1>2. CASE Ends(s) # {}
  <2>1. Ends(s) \subseteq 1 .. Len(s) /\ Len(s) \in Nat /\ Ends(s) \subseteq Nat
    BY EndsType
  <2>2. \E m \in Ends(s) : \A y \in Ends(s) : m <= y
    BY <1>2, <2>1, Least
  <2>3. Min(Ends(s)) \in Ends(s)
    BY <2>2 DEF Min
  <2> DEFINE e == Min(Ends(s))
  <2>4. e \in 1 .. Len(s)
    BY <2>1, <2>3
  <2> HIDE DEF e
  <2>5. \A i \in e + 1 .. Len(s) : i \in 1 .. Len(s)
    BY <2>4
  <2>6. SubSeq(s, e + 1, Len(s)) \in Seq(AnyByte)
    BY <2>1, <2>4, <2>5
  <2> QED
    BY <1>2, <2>6 DEF AfterFirstEnd, e
<1> QED
  BY <1>1, <1>2

----------------------------------------------------------------------------
(* Sequences that grow.                                                    *)
LEMMA CutGrows ==
  ASSUME NEW S, NEW u \in Seq(S), NEW v \in Seq(S), NEW c \in Nat, c <= Len(u)
  PROVE  Cut(Then(u, v), c, Len(Then(u, v))) = Then(Cut(u, c, Len(u)), v)
<1> DEFINE n == Len(u)
           m == Len(v)
           w == Then(u, v)
           f == Cut(u, c, n)
           x == Cut(w, c, n + m)
<1>1. n \in Nat /\ m \in Nat
  OBVIOUS
<1>2. w \in Seq(S) /\ Len(w) = n + m
  BY DEF Then
<1>3. \A k \in c + 1 .. n : k \in 1 .. n
  OBVIOUS
<1>4. \A k \in c + 1 .. n + m : k \in 1 .. n + m
  OBVIOUS
<1>5. /\ f \in Seq(S) /\ Len(f) = n - c
      /\ \A k \in 1 .. n - c : f[k] = u[c + k]
  BY <1>1, <1>3 DEF Cut
<1> HIDE DEF w, f
<1>6. /\ x \in Seq(S) /\ Len(x) = (n + m) - c
      /\ \A k \in 1 .. (n + m) - c : x[k] = w[c + k]
  BY <1>1, <1>2, <1>4 DEF Cut
<1> HIDE DEF x
<1> DEFINE p == n - c
<1>7. p \in Nat /\ p + m = (n + m) - c /\ c + p = n
  BY <1>1
<1>8. \A k \in 1 .. p : x[k] = f[k]
  <2> SUFFICES ASSUME NEW k \in 1 .. p PROVE x[k] = f[k]
    OBVIOUS
  <2>1. c + k \in 1 .. n /\ k \in 1 .. (n + m) - c /\ k \in 1 .. n - c
    BY <1>1, <1>7
  <2>2. w[c + k] = u[c + k]
    BY <2>1 DEF w, Then
  <2> QED
    BY <1>5, <1>6, <2>1, <2>2
<1>9. \A k \in p + 1 .. p + m : x[k] = v[k - p]
  <2> SUFFICES ASSUME NEW k \in p + 1 .. p + m PROVE x[k] = v[k - p]
    OBVIOUS
  <2>1. /\ k \in 1 .. (n + m) - c /\ c + k \in 1 .. n + m /\ ~(c + k <= n)
        /\ (c + k) - n = k - p
    BY <1>1, <1>7
  <2>2. w[c + k] = v[(c + k) - n]
    BY <1>1, <2>1 DEF w, Then
  <2> QED
    BY <1>6, <2>1, <2>2
<1>10. Listed(f, p) /\ Listed(v, m) /\ Listed(x, p + m)
  <2>1. f = [k \in 1 .. p |-> f[k]]
    BY <1>5
  <2>2. v = [k \in 1 .. m |-> v[k]]
    OBVIOUS
  <2>3. x = [k \in 1 .. p + m |-> x[k]]
    BY <1>6, <1>7
  <2> QED
    BY <2>1, <2>2, <2>3 DEF Listed
<1> HIDE DEF n, m, p
<1>11. x = f \o v
  BY <1>1, <1>7, <1>8, <1>9, <1>10, JoinedLists
<1>12. x = Then(f, v)
  BY <1>11, Zenon DEF Then
<1> QED
  BY <1>2, <1>12, Zenon DEF x, w, f, n

(* Nothing comes after the end.                                            *)
LEMMA CutEmpty ==
  ASSUME NEW S, NEW u \in Seq(S)
  PROVE  Cut(u, Len(u), Len(u)) = <<>>
<1>1. \A k \in Len(u) + 1 .. Len(u) : k \in 1 .. Len(u)
  OBVIOUS
<1>2. Cut(u, Len(u), Len(u)) \in Seq(S) /\ Len(Cut(u, Len(u), Len(u))) = 0
  BY <1>1 DEF Cut
<1> QED
  BY <1>2

(* Two sequences, one after the other: its type, ...                       *)
LEMMA ThenType ==
  ASSUME NEW S, NEW u \in Seq(S), NEW v \in Seq(S)
  PROVE  /\ Then(u, v) \in Seq(S) /\ Len(Then(u, v)) = Len(u) + Len(v)
         /\ Then(u, <<>>) = u /\ Then(<<>>, u) = u
BY DEF Then

(* ... its elements, ...                                                   *)
LEMMA ThenParts ==
  ASSUME NEW S, NEW u \in Seq(S), NEW v \in Seq(S)
  PROVE  /\ \A k \in 1 .. Len(u) : Then(u, v)[k] = u[k]
         /\ \A k \in 1 .. Len(v) : Then(u, v)[Len(u) + k] = v[k]
<1>1. \A k \in 1 .. Len(u) : (u \o v)[k] = u[k]
  OBVIOUS
<1>2. ASSUME NEW k \in 1 .. Len(v) PROVE (u \o v)[Len(u) + k] = v[k]
  <2> DEFINE i == Len(u) + k
  <2>1. i \in 1 .. Len(u) + Len(v) /\ ~(i <= Len(u)) /\ i - Len(u) = k
    OBVIOUS
  <2> HIDE DEF i
  <2>2. (u \o v)[i] = v[i - Len(u)]
    BY <2>1
  <2> QED
    BY <2>1, <2>2 DEF i
<1> QED
  BY <1>1, <1>2 DEF Then

(* ... a push of the first element of the second, ...                      *)
LEMMA ThenShifts ==
  ASSUME NEW S, NEW u \in Seq(S), NEW v \in Seq(S)
  PROVE  v # <<>> => Then(Then(u, <<>>), v) = Then(Then(u, <<Head(v)>>), Tail(v))
<1>1. ASSUME v # <<>>
      PROVE Then(Then(u, <<>>), v) = Then(Then(u, <<Head(v)>>), Tail(v))
  <2> DEFINE h == <<Head(v)>>
             t == Tail(v)
  <2>1. /\ Len(v) \in Nat \ {0} /\ h \in Seq(S) /\ Len(h) = 1 /\ h[1] = v[1]
        /\ t \in Seq(S) /\ Len(t) = Len(v) - 1
        /\ \A k \in 1 .. Len(v) - 1 : t[k] = v[k + 1]
    BY <1>1
  <2> HIDE DEF h, t
  <2>2. u \o v = (u \o h) \o t
    <3> DEFINE x == u \o h
               y == u \o v
               n == Len(u) + 1
               m == Len(v) - 1
    <3>1. /\ x \in Seq(S) /\ Len(x) = n /\ x[n] = h[1] /\ \A k \in 1 .. Len(u) : x[k] = u[k]
          /\ y \in Seq(S) /\ Len(y) = n + m /\ \A k \in 1 .. Len(u) : y[k] = u[k]
          /\ y[n] = v[1] /\ n \in Nat /\ m \in Nat
      <4>1. Len(u) \in Nat /\ n \in Nat /\ m \in Nat /\ n + m = Len(u) + Len(v)
        BY <2>1
      <4>2. /\ Then(u, h) \in Seq(S) /\ Len(Then(u, h)) = Len(u) + Len(h)
            /\ \A k \in 1 .. Len(u) : Then(u, h)[k] = u[k]
            /\ \A k \in 1 .. Len(h) : Then(u, h)[Len(u) + k] = h[k]
        <5>1. Then(u, h) \in Seq(S) /\ Len(Then(u, h)) = Len(u) + Len(h)
          BY <2>1, ThenType
        <5>2. /\ \A k \in 1 .. Len(u) : Then(u, h)[k] = u[k]
              /\ \A k \in 1 .. Len(h) : Then(u, h)[Len(u) + k] = h[k]
          <6>1. h \in Seq(S)
            BY <2>1
          <6> HIDE DEF x, y, n, m
          <6> QED
            BY <6>1, ThenParts
        <5> QED
          BY <5>1, <5>2
      <4>3. /\ Then(u, v) \in Seq(S) /\ Len(Then(u, v)) = Len(u) + Len(v)
            /\ \A k \in 1 .. Len(u) : Then(u, v)[k] = u[k]
            /\ \A k \in 1 .. Len(v) : Then(u, v)[Len(u) + k] = v[k]
        <5>1. Then(u, v) \in Seq(S) /\ Len(Then(u, v)) = Len(u) + Len(v)
          BY ThenType
        <5>2. /\ \A k \in 1 .. Len(u) : Then(u, v)[k] = u[k]
              /\ \A k \in 1 .. Len(v) : Then(u, v)[Len(u) + k] = v[k]
          BY ThenParts
        <5> QED
          BY <5>1, <5>2
      <4>4. Then(u, h) = x /\ Then(u, v) = y
        BY Zenon DEF Then
      <4>5. 1 \in 1 .. Len(h) /\ 1 \in 1 .. Len(v)
        BY <2>1
      <4> HIDE DEF x, y
      <4> QED
        BY <2>1, <4>1, <4>2, <4>3, <4>4, <4>5
    <3>2. \A k \in n + 1 .. n + m : y[k] = t[k - n]
      <4> SUFFICES ASSUME NEW k \in n + 1 .. n + m PROVE y[k] = t[k - n]
        OBVIOUS
      <4>1. /\ k \in 1 .. Len(u) + Len(v) /\ ~(k <= Len(u))
            /\ k - n \in 1 .. Len(v) - 1 /\ (k - n) + 1 = k - Len(u)
        BY <2>1
      <4>2. y[k] = v[k - Len(u)]
        BY <4>1
      <4> QED
        BY <2>1, <4>1, <4>2
    <3>3. \A k \in 1 .. n : k \in 1 .. Len(u) \/ k = n
      BY <3>1
    <3>4. Len(t) = m
      BY <2>1
    <3> HIDE DEF x, y, n, m
    <3>5. \A k \in 1 .. n : y[k] = x[k]
      BY <2>1, <3>1, <3>3
    <3>6. x = [k \in 1 .. n |-> x[k]] /\ y = [k \in 1 .. n + m |-> y[k]]
      BY <3>1
    <3>7. t = [k \in 1 .. m |-> t[k]]
      BY <2>1, <3>4
    <3>8. y = x \o t
      <4>1. Listed(x, n) /\ Listed(t, m) /\ Listed(y, n + m)
        BY <3>6, <3>7 DEF Listed
      <4> QED
        BY <3>1, <3>2, <3>5, <4>1, JoinedLists
    <3> QED
      BY <3>8 DEF x, y
  <2>3. Then(u, <<>>) = u
    BY ThenType
  <2> QED
    BY <2>2, <2>3, Zenon DEF Then, h, t
<1> QED
  BY <1>1

(* ... and a finished push, which only moves a line.                       *)
LEMMA ThenMoves ==
  ASSUME NEW S, NEW u \in Seq(S), NEW v \in Seq(S), NEW w
  PROVE  Then(Then(u, v), w) = Then(Then(Then(u, v), <<>>), w)
<1>1. Then(u, v) \in Seq(S)
  BY ThenType
<1> DEFINE x == Then(u, v)
<1> HIDE DEF x
<1>2. x \in Seq(S) => Then(x, <<>>) = x
  BY ThenType
<1>3. Then(x, <<>>) = x
  BY <1>1, <1>2 DEF x
<1> QED
  BY <1>3, Zenon DEF x

----------------------------------------------------------------------------
(* Everything pushed or about to be.                                       *)
All == Then(Then(sent, writing), todo)

(* What came after the first c.                                            *)
Since(u, c) == Cut(u, c, Len(u))

(* The types the code gives its state: nothing is bounded.                 *)
TypesOK ==
  /\ file \in [id: FileId \cup {None}, gen: Nat, len: Nat]
  /\ pc \in {"tick", "read"}
  /\ cursor \in [id: FileId \cup {None}, pos: Nat]
  /\ seen \in [id: FileId \cup {None}, pos: Nat, want: Nat, skip: BOOLEAN]
  /\ carry \in Seq(AnyByte)
  /\ sent \in Seq(AnyLine) /\ writing \in Seq(AnyLine) /\ todo \in Seq(AnyLine)
  /\ base \in [gen: Nat, start: Nat, skip: BOOLEAN, count: Nat, begun: BOOLEAN]

(* The tailer started on a file that has been there, at its beginning or   *)
(* inside a line, when no more was pushed than by now.                     *)
Lineage ==
  /\ base.gen <= file.gen
  /\ file.id # None => file.gen > 0
  /\ ~base.skip => base.start = 0
  /\ base.count <= Len(All)

(* Before its first read it cannot go on from where it has to start.       *)
Unbegun ==
  SameFile /\ ~base.begun =>
    /\ cursor.id = file.id => cursor.pos > base.start
    /\ pc = "read" /\ ~AtStart => seen.pos > base.start /\ ~seen.skip
    /\ AtStart => seen.skip = base.skip
    /\ AtStart /\ base.skip =>
         seen.want >= LineSize /\ file.len >= base.start + LineSize

(* After it the cursor is where the next read begins, past a line end.     *)
Begun ==
  SameFile /\ base.begun =>
    /\ base.start <= cursor.pos
    /\ base.skip => base.start + LineSize <= cursor.pos
    /\ pc = "read" => seen.pos = cursor.pos /\ ~seen.skip

(* TailIsFile, said with the operators above.                              *)
TailHolds ==
  OnFile => Since(All, base.count) = Lines(Kept) /\ carry = Rest(Kept)

(* The inductive invariant.                                                *)
TailInv == TypesOK /\ Lineage /\ Unbegun /\ Begun /\ TailHolds

(* Three sequences, one after the other.                                   *)
LEMMA ThreeParts ==
  ASSUME NEW S, NEW x \in Seq(S), NEW y \in Seq(S), NEW z \in Seq(S)
  PROVE  /\ Then(Then(x, y), z) \in Seq(S)
         /\ Len(Then(Then(x, y), z)) = Len(x) + Len(y) + Len(z)
         /\ Len(Then(Then(x, y), z)) \in Nat
         /\ Then(Then(x, <<>>), <<>>) = x
<1>1. Then(x, y) \in Seq(S) /\ Len(Then(x, y)) = Len(x) + Len(y)
  BY ThenType
<1> DEFINE u == Then(x, y)
<1> HIDE DEF u
<1>2. u \in Seq(S) => Then(u, z) \in Seq(S) /\ Len(Then(u, z)) = Len(u) + Len(z)
  BY ThenType
<1>3. Then(x, <<>>) = x
  BY ThenType
<1> QED
  BY <1>1, <1>2, <1>3 DEF u

(* Lines pushed and about to be, counted.                                  *)
LEMMA AllType ==
  ASSUME TypesOK
  PROVE  /\ All \in Seq(AnyLine) /\ Len(All) = Len(sent) + Len(writing) + Len(todo)
         /\ Len(All) \in Nat
         /\ Idle => All = sent
<1>1. sent \in Seq(AnyLine) /\ writing \in Seq(AnyLine) /\ todo \in Seq(AnyLine)
  BY DEF TypesOK
<1>2. All \in Seq(AnyLine) /\ Len(All) = Len(sent) + Len(writing) + Len(todo) /\ Len(All) \in Nat
  BY <1>1, ThreeParts DEF All
<1>3. Then(Then(sent, <<>>), <<>>) = sent
  BY <1>1, ThreeParts
<1> QED
  BY <1>2, <1>3, Zenon DEF All, Idle

(* What is kept of the content between the start and p.                    *)
Content(p) ==
  IF base.skip THEN AfterFirstEnd(Bytes(base.gen, base.start, p))
               ELSE Bytes(base.gen, base.start, p)

(* Kept is the content up to where the tailer has read.                    *)
LEMMA KeptIsContent == Kept = Content(ReadTo)
BY DEF Kept, Content

(* The content up to q, from that up to p and the bytes in between.        *)
LEMMA ContentGrows ==
  ASSUME TypesOK, ~base.skip => base.start = 0,
         NEW p \in Nat, NEW q \in Nat, base.start <= p, p <= q,
         base.skip => base.start + LineSize <= p
  PROVE  LET left == Then(Rest(Content(p)), Bytes(base.gen, p, q))
         IN  /\ Lines(Content(q)) = Then(Lines(Content(p)), Lines(left))
             /\ Rest(Content(q)) = Rest(left)
<1> DEFINE g == base.gen
           s == base.start
<1>1. g \in Nat /\ s \in Nat /\ base.skip \in BOOLEAN
  BY DEF TypesOK
<1>2. PICK w \in Nat : /\ w <= p /\ \E j \in Nat : w = j * LineSize
                       /\ Content(p) = Bytes(g, w, p) /\ Content(q) = Bytes(g, w, q)
  <2>1. CASE base.skip
    <3>1. s + LineSize <= p
      BY <2>1
    <3> HIDE DEF g, s
    <3>2. PICK w \in Nat : /\ w <= p /\ \E j \in Nat : w = j * LineSize
                           /\ \A c \in Nat : p <= c =>
                                AfterFirstEnd(Bytes(g, s, c)) = Bytes(g, w, c)
      BY <1>1, <3>1, AfterFirst
    <3>3. Content(p) = Bytes(g, w, p) /\ Content(q) = Bytes(g, w, q)
      BY <2>1, <3>2 DEF Content, g, s
    <3> QED
      BY <3>2, <3>3
  <2>2. CASE ~base.skip
    <3>1. s = 0 /\ 0 = 0 * LineSize
      BY <2>2, TimesSum
    <3>2. Content(p) = Bytes(g, 0, p) /\ Content(q) = Bytes(g, 0, q)
      BY <2>2, <3>1 DEF Content
    <3> QED
      BY <3>1, <3>2
  <2> QED
    BY <1>1, <2>1, <2>2
<1> HIDE DEF g, s
<1>3. PICK n \in Nat : Holds(w, p, n)
  BY <1>2, HowMany
<1> DEFINE left == Then(Rest(Bytes(g, w, p)), Bytes(g, p, q))
<1>4. /\ Lines(Bytes(g, w, q)) = Then(Lines(Bytes(g, w, p)), Lines(left))
      /\ Rest(Bytes(g, w, q)) = Rest(left)
  BY <1>1, <1>3, SplitLines DEF Then
<1> QED
  BY <1>2, <1>4, Zenon DEF g

(* At the start nothing is kept yet.                                       *)
LEMMA NothingKept ==
  ASSUME TypesOK
  PROVE  Content(base.start) = <<>> /\ Lines(<<>>) = <<>> /\ Rest(<<>>) = <<>>
<1>1. base.gen \in Nat /\ base.start \in Nat
  BY DEF TypesOK
<1> QED
  BY <1>1, NoBytes DEF Content

(* The smaller of two is one of the two.                                   *)
LEMMA MinOfTwo ==
  ASSUME NEW x \in Nat, NEW y \in Nat
  PROVE  /\ Min({x, y}) \in Nat /\ Min({x, y}) <= x /\ Min({x, y}) <= y
         /\ Min({x, y}) = x \/ Min({x, y}) = y
<1>1. \E m \in {x, y} : \A z \in {x, y} : m <= z
  <2>1. CASE x <= y
    BY <2>1
  <2>2. CASE ~(x <= y)
    BY <2>2
  <2> QED
    BY <2>1, <2>2
<1>2. /\ Min({x, y}) \in {x, y} /\ \A z \in {x, y} : Min({x, y}) <= z
  BY <1>1 DEF Min
<1> QED
  BY <1>2

(* The lines of the tailer's own are lines.                                *)
LEMMA MarksAreLines == Closed \in AnyLine /\ Rotated \in AnyLine /\ Truncated \in AnyLine
<1>1. Byte(0, 1) \in AnyByte /\ Byte(0, 2) \in AnyByte /\ Byte(0, 3) \in AnyByte
  BY DEF Byte, AnyByte
<1> QED
  BY <1>1 DEF Closed, Rotated, Truncated, AnyLine

----------------------------------------------------------------------------
(* Steps that neither start nor read: what is kept stays what it was.      *)
LEMMA KeptStays ==
  ASSUME TailHolds, UNCHANGED <<base, carry>>, All' = All,
         OnFile' => OnFile /\ ReadTo' = ReadTo
  PROVE  TailHolds'
<1>1. OnFile' => Kept' = Kept
  BY DEF Kept
<1> QED
  BY <1>1 DEF TailHolds

(* Before anything happens there is no file to be true to.                 *)
LEMMA InitTail == Init => TailInv
<1> SUFFICES ASSUME Init PROVE TailInv
  OBVIOUS
<1>1. TypesOK
  BY DEF Init, HubInit, TypesOK, NoCursor, NoneSeen, NoBase
<1>2. ~SameFile
  BY DEF Init, SameFile
<1>3. Lineage
  BY <1>1, AllType DEF Init, NoBase, Lineage
<1> QED
  BY <1>1, <1>2, <1>3 DEF TailInv, Unbegun, Begun, TailHolds, OnFile

(* The file moves on by itself.                                            *)
LEMMA FileTail ==
  ASSUME TailInv, Write \/ Vanish \/ \E id \in FileId : Replace(id)
  PROVE  TailInv'
<1>1. TypesOK /\ Lineage /\ Unbegun /\ Begun /\ TailHolds
  BY DEF TailInv
<1>2. UNCHANGED <<sent, writing, pc, cursor, seen, carry, todo, base>>
  BY DEF Write, Vanish, Replace, tailVars, hubVars
<1>3. /\ file \in [id: FileId \cup {None}, gen: Nat, len: Nat]
      /\ base \in [gen: Nat, start: Nat, skip: BOOLEAN, count: Nat, begun: BOOLEAN]
  BY <1>1 DEF TypesOK
<1>4. /\ file' \in [id: FileId \cup {None}, gen: Nat, len: Nat]
      /\ base.gen <= file'.gen /\ (file'.id # None => file'.gen > 0)
      /\ (file'.id # None /\ base.gen = file'.gen) =>
           /\ file.id # None /\ base.gen = file.gen /\ file'.id = file.id
           /\ file.len <= file'.len
  <2>1. CASE Write
    BY <1>1, <1>3, <2>1, TailAssumption DEF Write, Lineage
  <2>2. CASE Vanish
    BY <1>1, <1>3, <2>2 DEF Vanish, Lineage
  <2>3. ASSUME NEW id \in FileId, Replace(id)
        PROVE  /\ file' \in [id: FileId \cup {None}, gen: Nat, len: Nat]
               /\ file'.gen = file.gen + 1 /\ file.gen \in Nat /\ base.gen \in Nat
    BY <1>3, <2>3 DEF Replace
  <2>4. CASE \E id \in FileId : Replace(id)
    BY <1>1, <2>3, <2>4 DEF Lineage
  <2> QED
    BY <2>1, <2>2, <2>4
<1>5. SameFile' => SameFile /\ file'.id = file.id /\ file.len <= file'.len
  BY <1>2, <1>4 DEF SameFile
<1>6. AtStart' = AtStart /\ ReadTo' = ReadTo
  BY <1>2 DEF AtStart, ReadTo
<1>7. All' = All
  BY <1>2 DEF All
<1>8. TypesOK'
  BY <1>1, <1>2, <1>4 DEF TypesOK
<1>9. Lineage'
  BY <1>1, <1>2, <1>4, <1>7 DEF Lineage
<1>10. Unbegun'
  <2>1. file.len \in Nat /\ file'.len \in Nat /\ base.start + LineSize \in Nat
    BY <1>3, <1>4, LineType
  <2> QED
    BY <1>1, <1>2, <1>5, <1>6, <2>1 DEF Unbegun
<1>11. Begun'
  BY <1>1, <1>2, <1>5 DEF Begun
<1>12. OnFile' => OnFile
  BY <1>2, <1>5, <1>6 DEF OnFile
<1> QED
  BY <1>1, <1>2, <1>6, <1>7, <1>8, <1>9, <1>10, <1>11, <1>12, KeptStays DEF TailInv

(* So do the viewers and the push.                                         *)
LEMMA HubTail ==
  ASSUME TailInv, TailAppend \/ TailSend \/ \E v \in Viewer : Watch(v)
  PROVE  TailInv'
<1>1. TypesOK /\ Lineage /\ Unbegun /\ Begun /\ TailHolds
  BY DEF TailInv
<1>2. UNCHANGED <<file, pc, cursor, seen, carry, base>>
  BY DEF TailAppend, TailSend, Watch, tailVars
<1>3. sent \in Seq(AnyLine) /\ writing \in Seq(AnyLine) /\ todo \in Seq(AnyLine)
  BY <1>1 DEF TypesOK
<1>4. /\ sent' \in Seq(AnyLine) /\ writing' \in Seq(AnyLine) /\ todo' \in Seq(AnyLine)
      /\ All' = All
  <2>1. CASE TailAppend
    <3>1. /\ todo # <<>> /\ writing = <<>> /\ sent' = sent
          /\ writing' = <<Head(todo)>> /\ todo' = Tail(todo)
      BY <2>1 DEF TailAppend, PushAppend
    <3>2. Then(Then(sent, <<>>), todo) = Then(Then(sent, <<Head(todo)>>), Tail(todo))
      BY <1>3, <3>1, ThenShifts
    <3>3. <<Head(todo)>> \in Seq(AnyLine) /\ Tail(todo) \in Seq(AnyLine)
      BY <1>3, <3>1
    <3>4. All' = All
      BY <3>1, <3>2 DEF All
    <3> QED
      BY <1>3, <3>1, <3>3, <3>4
  <2>2. CASE TailSend
    <3>1. sent' = Then(sent, writing) /\ writing' = <<>> /\ todo' = todo
      BY <2>2 DEF TailSend, PushSend, tailVars, Then
    <3>2. Then(Then(sent, writing), todo) = Then(Then(Then(sent, writing), <<>>), todo)
      BY <1>3, ThenMoves
    <3>3. Then(sent, writing) \in Seq(AnyLine) /\ <<>> \in Seq(AnyLine)
      BY <1>3, ThenType
    <3>4. All' = All
      BY <3>1, <3>2 DEF All
    <3> QED
      BY <1>3, <3>1, <3>3, <3>4
  <2>3. CASE \E v \in Viewer : Watch(v)
    <3>1. UNCHANGED <<sent, writing, todo>>
      BY <2>3 DEF Watch, ViewerStep, SubscribeReceiver, SubscribeCopy, ReceiveLine,
         ReceiveLagged, Leave, tailVars
    <3> QED
      BY <1>3, <3>1, Zenon DEF All
  <2> QED
    BY <2>1, <2>2, <2>3
<1>5. TypesOK'
  BY <1>1, <1>2, <1>4 DEF TypesOK
<1>6. Lineage' /\ Unbegun' /\ Begun'
  BY <1>1, <1>2, <1>4 DEF Lineage, Unbegun, Begun, SameFile, AtStart
<1>7. OnFile' = OnFile /\ ReadTo' = ReadTo
  BY <1>2 DEF OnFile, SameFile, AtStart, ReadTo
<1> QED
  BY <1>1, <1>2, <1>4, <1>5, <1>6, <1>7, KeptStays DEF TailInv

(* Nothing at the path, and a read that brings nothing.                    *)
LEMMA StatFailsTail ==
  ASSUME TailInv, StatFails
  PROVE  TailInv'
<1>1. TypesOK
  BY DEF TailInv
<1>2. /\ UNCHANGED <<file, pc, seen, sent, writing>> /\ file.id = None
      /\ cursor' = NoCursor /\ carry' = <<>> /\ base' = NoBase
      /\ todo' \in {<<>>, <<Closed>>}
  BY DEF StatFails, hubVars
<1>3. todo' \in Seq(AnyLine)
  <2>1. <<>> \in Seq(AnyLine) /\ <<Closed>> \in Seq(AnyLine)
    BY MarksAreLines
  <2> QED
    BY <1>2, <2>1, Zenon
<1>4. cursor' \in [id: FileId \cup {None}, pos: Nat]
  BY <1>2 DEF NoCursor
<1>5. base' \in [gen: Nat, start: Nat, skip: BOOLEAN, count: Nat, begun: BOOLEAN]
  BY <1>2 DEF NoBase
<1>6. TypesOK'
  BY <1>1, <1>2, <1>3, <1>4, <1>5 DEF TypesOK
<1>7. ~SameFile'
  BY <1>2 DEF SameFile
<1>8. Len(All)' \in Nat
  <2>1. sent' \in Seq(AnyLine) /\ writing' \in Seq(AnyLine)
    BY <1>6 DEF TypesOK
  <2> QED
    BY <1>3, <2>1, ThreeParts DEF All
<1>9. Lineage'
  BY <1>1, <1>2, <1>8 DEF Lineage, NoBase, TypesOK
<1> QED
  BY <1>6, <1>7, <1>9 DEF TailInv, Unbegun, Begun, TailHolds, OnFile

(* The tailer starts at pos: nothing is kept yet, and it cannot miss the   *)
(* start, wherever the cursor was.                                         *)
LEMMA StartTail ==
  ASSUME TailInv, Idle, pc = "tick", file.id # None,
         NEW pos \in Nat, NEW skip \in BOOLEAN, NEW notice \in Seq(AnyLine),
         StartAt(pos, skip, notice), UNCHANGED <<file, faults, hubVars>>,
         ~skip => pos = 0, skip => pos + ColdStart = file.len,
         cursor.id = file.id => cursor.pos > pos
  PROVE  TailInv'
<1>1. TypesOK /\ Lineage
  BY DEF TailInv
<1>2. /\ UNCHANGED <<file, sent, writing>> /\ writing = <<>>
      /\ carry' = <<>> /\ todo' = notice
      /\ base' = [gen |-> file.gen, start |-> pos, skip |-> skip,
                  count |-> Len(sent) + Len(notice), begun |-> file.len <= pos]
  BY DEF StartAt, Idle, hubVars
<1>3. /\ file \in [id: FileId \cup {None}, gen: Nat, len: Nat]
      /\ sent \in Seq(AnyLine) /\ writing \in Seq(AnyLine)
      /\ cursor \in [id: FileId \cup {None}, pos: Nat]
  BY <1>1 DEF TypesOK
<1>4. /\ file.len \in Nat /\ file.gen \in Nat /\ file.id \in FileId \cup {None}
      /\ Len(sent) \in Nat /\ Len(notice) \in Nat /\ Len(<<>>) = 0
      /\ ColdStart \in Nat /\ MaxChunk \in Nat /\ LineSize \in Nat
      /\ 0 < LineSize /\ LineSize <= ColdStart /\ ColdStart <= MaxChunk
  BY <1>3, TailAssumption
<1>5. /\ base'.gen = file.gen /\ base'.start = pos /\ base'.skip = skip
      /\ base'.count = Len(sent) + Len(notice) /\ (base'.begun <=> file.len <= pos)
      /\ base' \in [gen: Nat, start: Nat, skip: BOOLEAN, count: Nat, begun: BOOLEAN]
  <2> DEFINE n == Len(sent) + Len(notice)
             b == file.len <= pos
  <2>1. n \in Nat /\ b \in BOOLEAN
    BY <1>4
  <2>2. base' = [gen |-> file.gen, start |-> pos, skip |-> skip, count |-> n, begun |-> b]
    BY <1>2
  <2> HIDE DEF n, b
  <2>3. /\ base'.gen = file.gen /\ base'.start = pos /\ base'.skip = skip
        /\ base'.count = n /\ base'.begun = b
        /\ base' \in [gen: Nat, start: Nat, skip: BOOLEAN, count: Nat, begun: BOOLEAN]
    BY <1>4, <2>1, <2>2
  <2> QED
    BY <2>3 DEF n, b
<1>6. /\ All' \in Seq(AnyLine) /\ Len(All') = base'.count /\ base'.count \in Nat
  <2>1. sent' = sent /\ writing' \in Seq(AnyLine) /\ Len(writing') = 0 /\ todo' = notice
    <3>1. sent' = sent /\ writing' = writing /\ todo' = notice /\ writing = <<>>
      BY <1>2
    <3> QED
      BY <1>3, <1>4, <3>1, Zenon
  <2>2. /\ Then(Then(sent', writing'), todo') \in Seq(AnyLine)
        /\ Len(Then(Then(sent', writing'), todo')) = Len(sent') + Len(writing') + Len(todo')
    <3>1. sent' \in Seq(AnyLine) /\ writing' \in Seq(AnyLine) /\ todo' \in Seq(AnyLine)
      BY <1>3, <2>1, Zenon
    <3> QED
      BY <3>1, ThreeParts
  <2>3. All' = Then(Then(sent', writing'), todo')
    BY Zenon DEF All
  <2>4. All' \in Seq(AnyLine) /\ Len(All') = Len(sent') + Len(writing') + Len(todo')
    BY <2>2, <2>3, Zenon
  <2>5. Len(All') = Len(sent) + 0 + Len(notice)
    BY <2>1, <2>4, Zenon
  <2> DEFINE n == Len(All')
  <2>6. n = Len(sent) + 0 + Len(notice)
    BY <2>5
  <2> HIDE DEF n
  <2>7. n = base'.count /\ n \in Nat
    BY <1>4, <1>5, <2>6
  <2> QED
    BY <2>4, <2>7 DEF n
<1>7. /\ cursor' \in [id: FileId \cup {None}, pos: Nat] /\ pc' \in {"tick", "read"}
      /\ seen' \in [id: FileId \cup {None}, pos: Nat, want: Nat, skip: BOOLEAN]
      /\ ReadTo' = pos
      /\ file.len <= pos => pc' = "tick" /\ cursor'.pos = pos /\ ~skip
      /\ ~(file.len <= pos) =>
           /\ pc' = "read" /\ seen'.pos = pos /\ seen'.skip = skip /\ cursor' = cursor
           /\ skip => seen'.want >= LineSize /\ file.len >= pos + LineSize
  <2>0. Follow(pos, skip)
    BY DEF StartAt
  <2>1. CASE file.len <= pos
    <3>1. cursor' = [id |-> file.id, pos |-> pos] /\ pc' = "tick" /\ seen' = seen
      BY <2>0, <2>1 DEF Follow
    <3>2. ~skip
      BY <1>4, <2>1, TailAssumption
    <3> QED
      BY <1>1, <1>4, <2>1, <3>1, <3>2 DEF TypesOK, ReadTo
  <2>2. CASE ~(file.len <= pos)
    <3> DEFINE want == Min({file.len - pos, MaxChunk})
    <3>1. /\ pc' = "read" /\ cursor' = cursor
          /\ seen' = [id |-> file.id, pos |-> pos, skip |-> skip, want |-> want]
      BY <2>0, <2>2 DEF Follow
    <3>2. file.len - pos \in Nat
      BY <1>4, <2>2
    <3>3. want \in Nat /\ (want = file.len - pos \/ want = MaxChunk)
      BY <1>4, <3>2, MinOfTwo
    <3> HIDE DEF want
    <3>4. skip => want >= LineSize /\ file.len >= pos + LineSize
      BY <1>4, <3>2, <3>3
    <3> QED
      BY <1>3, <1>4, <2>2, <3>1, <3>3, <3>4 DEF ReadTo
  <2> QED
    BY <2>1, <2>2
<1>8. TypesOK'
  BY <1>2, <1>3, <1>5, <1>7 DEF TypesOK
<1>9. Lineage'
  BY <1>1, <1>2, <1>4, <1>5, <1>6 DEF Lineage
<1>10. file'.id # None /\ file' = file
  BY <1>2
<1>11. Unbegun'
  BY <1>2, <1>5, <1>7 DEF Unbegun, AtStart
<1>12. Begun'
  BY <1>4, <1>5, <1>7 DEF Begun
<1>13. Kept' = <<>> /\ Lines(<<>>) = <<>> /\ Rest(<<>>) = <<>>
  <2>1. /\ Bytes(file.gen, pos, pos) = <<>> /\ AfterFirstEnd(<<>>) = <<>>
        /\ Lines(<<>>) = <<>> /\ Rest(<<>>) = <<>>
    BY <1>4, NoBytes
  <2> QED
    BY <1>5, <1>7, <2>1 DEF Kept
<1>14. Since(All', base'.count) = <<>>
  BY <1>6, CutEmpty DEF Since
<1>15. TailHolds'
  BY <1>2, <1>13, <1>14 DEF TailHolds
<1> QED
  BY <1>8, <1>9, <1>11, <1>12, <1>15 DEF TailInv

(* The four ways a tick may take the metadata.                             *)
LEMMA StatTail ==
  ASSUME TailInv, Stat
  PROVE  TailInv'
<1>1. TypesOK /\ Lineage /\ Unbegun /\ Begun /\ TailHolds
  BY DEF TailInv
<1>2. /\ pc = "tick" /\ Idle /\ file.id # None
      /\ StatAttach \/ StatRotated \/ StatTruncated \/ StatFollow
      /\ UNCHANGED <<file, faults, hubVars>>
  BY DEF Stat
<1>3. /\ file \in [id: FileId \cup {None}, gen: Nat, len: Nat]
      /\ cursor \in [id: FileId \cup {None}, pos: Nat]
  BY <1>1 DEF TypesOK
<1>4. file.len \in Nat /\ cursor.pos \in Nat /\ ColdStart \in Nat
  BY <1>3, TailAssumption
<1>5. <<>> \in Seq(AnyLine) /\ <<Rotated>> \in Seq(AnyLine) /\ <<Truncated>> \in Seq(AnyLine)
  BY MarksAreLines
<1>6. CASE StatAttach
  <2> DEFINE start == IF file.len > ColdStart THEN file.len - ColdStart ELSE 0
  <2>1. cursor = NoCursor /\ StartAt(start, start > 0, <<>>)
    BY <1>6 DEF StatAttach
  <2>2. /\ start \in Nat /\ (start > 0) \in BOOLEAN
        /\ ~(start > 0) => start = 0
        /\ start > 0 => start + ColdStart = file.len
    BY <1>4
  <2>3. cursor.id # file.id
    BY <1>2, <2>1 DEF NoCursor
  <2> HIDE DEF start
  <2> DEFINE skip == start > 0
  <2> HIDE DEF skip
  <2>4. /\ skip \in BOOLEAN /\ (~skip => start = 0) /\ (skip => start + ColdStart = file.len)
        /\ StartAt(start, skip, <<>>)
    BY <2>1, <2>2 DEF skip
  <2> QED
    BY <1>2, <1>5, <2>2, <2>3, <2>4, StartTail
<1>7. CASE StatRotated
  <2>1. cursor.id # file.id /\ StartAt(0, FALSE, <<Rotated>>)
    BY <1>7 DEF StatRotated
  <2> QED
    BY <1>2, <1>5, <2>1, StartTail
<1>8. CASE StatTruncated
  <2>1. file.len < cursor.pos /\ StartAt(0, FALSE, <<Truncated>>)
    BY <1>8, Zenon DEF StatTruncated
  <2>2. cursor.pos > 0
    BY <1>4, <2>1
  <2> QED
    BY <1>2, <1>5, <2>1, <2>2, StartTail
<1>9. CASE StatFollow
  <2>1. /\ cursor.id = file.id /\ file.len >= cursor.pos
        /\ Follow(cursor.pos, FALSE)
        /\ UNCHANGED <<file, carry, todo, base, sent, writing>>
    BY <1>2, <1>9 DEF StatFollow, hubVars
  <2>2. CASE file.len <= cursor.pos
    <3>1. cursor' = [id |-> file.id, pos |-> cursor.pos] /\ UNCHANGED <<pc, seen>>
      BY <2>1, <2>2 DEF Follow
    <3>2. cursor' = cursor
      BY <1>3, <2>1, <3>1
    <3>3. UNCHANGED <<file, pc, cursor, seen, carry, todo, base, sent, writing>>
      BY <2>1, <3>1, <3>2
    <3>4. TypesOK' /\ Lineage' /\ Unbegun' /\ Begun'
      BY <1>1, <3>3 DEF TypesOK, Lineage, All, Unbegun, Begun, SameFile, AtStart
    <3>5. All' = All /\ OnFile' = OnFile /\ ReadTo' = ReadTo
      BY <3>3 DEF All, OnFile, SameFile, AtStart, ReadTo
    <3> QED
      BY <1>1, <3>3, <3>4, <3>5, KeptStays DEF TailInv
  <2>3. CASE ~(file.len <= cursor.pos)
    <3> DEFINE want == Min({file.len - cursor.pos, MaxChunk})
    <3>1. /\ pc' = "read" /\ cursor' = cursor
          /\ seen' = [id |-> file.id, pos |-> cursor.pos, skip |-> FALSE, want |-> want]
      BY <2>1, <2>3 DEF Follow
    <3>2. file.len - cursor.pos \in Nat /\ MaxChunk \in Nat
      BY <1>4, <2>3, TailAssumption
    <3>3. want \in Nat
      BY <3>2, MinOfTwo
    <3> HIDE DEF want
    <3>4. seen'.pos = cursor.pos /\ seen'.skip = FALSE
      BY <3>1
    <3>5. TypesOK'
      <4>1. seen' \in [id: FileId \cup {None}, pos: Nat, want: Nat, skip: BOOLEAN]
        BY <1>3, <3>1, <3>3
      <4> QED
        BY <1>1, <2>1, <3>1, <4>1 DEF TypesOK
    <3>6. All' = All
      BY <2>1 DEF All
    <3>7. Lineage'
      BY <1>1, <2>1, <3>6 DEF Lineage
    <3>8. SameFile' = SameFile
      BY <2>1 DEF SameFile
    <3>9. base.start \in Nat
      BY <1>1 DEF TypesOK
    <3>10. Unbegun'
      <4> SUFFICES ASSUME SameFile', ~base'.begun PROVE Unbegun'
        BY DEF Unbegun
      <4>1. cursor.pos > base.start
        BY <1>1, <2>1, <3>8 DEF Unbegun
      <4>2. ~AtStart'
        BY <1>4, <2>1, <3>4, <3>9, <4>1 DEF AtStart
      <4> QED
        BY <2>1, <3>1, <3>4, <4>1, <4>2 DEF Unbegun
    <3>11. Begun'
      BY <1>1, <2>1, <3>1, <3>4, <3>8 DEF Begun
    <3>12. OnFile' => OnFile /\ ReadTo' = ReadTo
      <4>1. ReadTo' = ReadTo
        BY <1>2, <3>1, <3>4 DEF ReadTo
      <4>2. SameFile /\ ~base.begun => ~AtStart'
        BY <1>1, <1>4, <2>1, <3>4, <3>9 DEF AtStart, Unbegun
      <4> QED
        BY <2>1, <3>8, <4>1, <4>2 DEF OnFile
    <3> QED
      BY <1>1, <2>1, <3>5, <3>6, <3>7, <3>10, <3>11, <3>12, KeptStays DEF TailInv
  <2> QED
    BY <2>2, <2>3
<1> QED
  BY <1>2, <1>6, <1>7, <1>8, <1>9

(* A read that yields nothing: the start has been made, or is lost.        *)
LEMMA NoReadTail ==
  ASSUME TailInv, pc = "read", pc' = "tick", seen' = NoneSeen,
         UNCHANGED <<file, cursor, carry, todo, base, hubVars>>
  PROVE  TailInv'
<1>1. TypesOK /\ Lineage /\ Unbegun /\ Begun /\ TailHolds
  BY DEF TailInv
<1>2. UNCHANGED <<file, cursor, carry, todo, base, sent, writing>>
  BY DEF hubVars
<1>3. seen' \in [id: FileId \cup {None}, pos: Nat, want: Nat, skip: BOOLEAN]
  BY DEF NoneSeen
<1>4. TypesOK'
  BY <1>1, <1>2, <1>3 DEF TypesOK
<1>5. All' = All
  BY <1>2, Zenon DEF All
<1>6. Lineage'
  BY <1>1, <1>2, <1>5 DEF Lineage
<1>7. (SameFile' <=> SameFile) /\ ~AtStart'
  BY <1>2 DEF SameFile, AtStart
<1>8. Unbegun'
  BY <1>1, <1>2, <1>7 DEF Unbegun
<1>9. Begun'
  BY <1>1, <1>2, <1>7 DEF Begun
<1>10. OnFile' => OnFile /\ ReadTo' = ReadTo
  <2> SUFFICES ASSUME OnFile' PROVE OnFile /\ ReadTo' = ReadTo
    OBVIOUS
  <2>1. SameFile /\ base.begun
    BY <1>2, <1>7 DEF OnFile
  <2>2. seen.pos = cursor.pos
    BY <1>1, <2>1 DEF Begun
  <2> QED
    BY <1>2, <2>1, <2>2 DEF OnFile, ReadTo
<1>11. TailHolds'
  BY <1>1, <1>2, <1>5, <1>10, KeptStays
<1> QED
  BY <1>4, <1>6, <1>8, <1>9, <1>11 DEF TailInv

(* What a read takes: the bytes from the position decided on to some m.    *)
LEMMA ChunkIsBytes ==
  ASSUME TypesOK, Chunk # <<>>
  PROVE  \E m \in Nat : /\ seen.pos < m /\ (m = file.len \/ m = seen.pos + seen.want)
                        /\ Chunk = Bytes(file.gen, seen.pos, m)
                        /\ Chunk \in Seq(AnyByte) /\ Len(Chunk) = m - seen.pos
<1> DEFINE p == seen.pos
           q == seen.pos + seen.want
           m == Min({file.len, q})
<1>1. file.len \in Nat /\ file.gen \in Nat /\ p \in Nat /\ seen.want \in Nat
  BY DEF TypesOK
<1>2. ~(file.len <= p) /\ Chunk = Bytes(file.gen, p, m)
  BY DEF Chunk
<1>3. q \in Nat /\ p <= q
  BY <1>1
<1>4. m \in Nat /\ (m = file.len \/ m = q)
  BY <1>1, <1>3, MinOfTwo
<1> HIDE DEF m, q
<1>5. p <= m
  BY <1>1, <1>2, <1>3, <1>4
<1>6. Bytes(file.gen, p, m) \in Seq(AnyByte) /\ Len(Bytes(file.gen, p, m)) = m - p
  BY <1>1, <1>4, <1>5, BytesShape
<1>7. m # p
  <2> SUFFICES ASSUME m = p PROVE FALSE
    OBVIOUS
  <2>1. Bytes(file.gen, p, p) = <<>>
    BY <1>1, NoBytes
  <2> QED
    BY <1>2, <2>1
<1>8. p < m
  BY <1>1, <1>4, <1>5, <1>7
<1> QED
  BY <1>2, <1>4, <1>6, <1>8 DEF q

(* A read that yields something: the lines it completes follow those that  *)
(* were pushed, and what is left of it is the carry.                       *)
LEMMA ChunkTail ==
  ASSUME TailInv, pc = "read", Idle, file.id # None, ReadChunk,
         pc' = "tick", seen' = NoneSeen, UNCHANGED <<file, faults, hubVars>>
  PROVE  TailInv'
<1>1. TypesOK /\ Lineage /\ Unbegun /\ Begun /\ TailHolds
  BY DEF TailInv
<1>2. UNCHANGED <<file, sent, writing>> /\ writing = <<>> /\ todo = <<>>
  BY DEF Idle, hubVars
<1>3. /\ Begin /\ Chunk # <<>>
      /\ cursor' = [id |-> seen.id, pos |-> seen.pos + Len(Chunk)]
      /\ todo' = Lines(carry \o Fresh) /\ carry' = Rest(carry \o Fresh)
  BY DEF ReadChunk
<1>4. PICK m \in Nat : /\ seen.pos < m /\ (m = file.len \/ m = seen.pos + seen.want)
                       /\ Chunk = Bytes(file.gen, seen.pos, m)
                       /\ Chunk \in Seq(AnyByte) /\ Len(Chunk) = m - seen.pos
  BY <1>1, <1>3, ChunkIsBytes
<1>5. /\ seen.pos \in Nat /\ seen.want \in Nat /\ seen.id \in FileId \cup {None}
      /\ seen.skip \in BOOLEAN /\ file.len \in Nat /\ file.gen \in Nat
      /\ base.start \in Nat /\ base.count \in Nat /\ base.gen \in Nat
      /\ base.skip \in BOOLEAN /\ base.begun \in BOOLEAN
      /\ carry \in Seq(AnyByte) /\ sent \in Seq(AnyLine) /\ cursor.pos \in Nat
  BY <1>1 DEF TypesOK
<1>6. LineSize \in Nat \ {0}
  BY LineType
<1>7. cursor' = [id |-> seen.id, pos |-> m]
  <2>1. seen.pos + Len(Chunk) = m
    BY <1>4, <1>5
  <2> QED
    BY <1>3, <2>1
<1>8. Fresh \in Seq(AnyByte)
  BY <1>4, AfterFirstType DEF Fresh
<1> DEFINE read == Then(carry, Fresh)
<1>9. /\ read \in Seq(AnyByte)
      /\ todo' = Lines(read) /\ carry' = Rest(read)
  <2>1. read \in Seq(AnyByte)
    BY <1>5, <1>8, ThenType
  <2> QED
    BY <1>3, <2>1, Zenon DEF Then
<1> HIDE DEF read
<1>10. todo' \in Seq(AnyLine) /\ carry' \in Seq(AnyByte)
  BY <1>9, LinesType, RestType
<1>11. /\ base' \in [gen: Nat, start: Nat, skip: BOOLEAN, count: Nat, begun: BOOLEAN]
       /\ base'.gen = base.gen /\ base'.start = base.start /\ base'.skip = base.skip
       /\ base'.count = base.count /\ (base'.begun <=> base.begun \/ AtStart)
  <2> DEFINE b == base.begun \/ AtStart
  <2>1. b \in BOOLEAN
    BY <1>5 DEF AtStart
  <2>2. base \in [gen: Nat, start: Nat, skip: BOOLEAN, count: Nat, begun: BOOLEAN]
    BY <1>1 DEF TypesOK
  <2>3. base' = [base EXCEPT !.begun = b]
    BY <1>3 DEF Begin
  <2> HIDE DEF b
  <2>4. /\ base' \in [gen: Nat, start: Nat, skip: BOOLEAN, count: Nat, begun: BOOLEAN]
        /\ base'.gen = base.gen /\ base'.start = base.start /\ base'.skip = base.skip
        /\ base'.count = base.count /\ base'.begun = b
    BY <2>1, <2>2, <2>3
  <2> QED
    BY <2>4 DEF b
<1>12. TypesOK'
  <2>1. seen' \in [id: FileId \cup {None}, pos: Nat, want: Nat, skip: BOOLEAN]
    BY DEF NoneSeen
  <2>2. cursor' \in [id: FileId \cup {None}, pos: Nat]
    BY <1>4, <1>5, <1>7
  <2> QED
    BY <1>1, <1>2, <1>10, <1>11, <2>1, <2>2 DEF TypesOK
<1>13. All = sent /\ All' = Then(sent, todo')
  <2>1. All = sent
    BY <1>1, AllType
  <2>2. Then(sent, <<>>) = sent
    BY <1>5, ThenType
  <2>3. All' = Then(Then(sent, <<>>), todo')
    BY <1>2, Zenon DEF All
  <2> QED
    BY <2>1, <2>2, <2>3
<1>14. /\ All' \in Seq(AnyLine) /\ Len(All') = Len(sent) + Len(todo')
       /\ Len(sent) \in Nat /\ Len(todo') \in Nat
  <2>1. /\ Then(sent, todo') \in Seq(AnyLine)
        /\ Len(Then(sent, todo')) = Len(sent) + Len(todo')
    BY <1>5, <1>10, ThenType
  <2>2. Len(sent) \in Nat /\ Len(todo') \in Nat
    BY <1>5, <1>10
  <2> QED
    BY <1>13, <2>1, <2>2, Zenon
<1>15. base.count <= Len(sent)
  BY <1>1, <1>13 DEF Lineage
<1>16. Lineage'
  <2>1. base'.count <= Len(All')
    <3> DEFINE n == Len(All')
    <3>1. n = Len(sent) + Len(todo')
      BY <1>14
    <3> HIDE DEF n
    <3>2. base'.count <= n
      BY <1>5, <1>11, <1>14, <1>15, <3>1
    <3> QED
      BY <3>2 DEF n
  <2>2. /\ base'.gen <= file'.gen /\ (file'.id # None => file'.gen > 0)
        /\ (~base'.skip => base'.start = 0)
    BY <1>1, <1>2, <1>11 DEF Lineage
  <2> QED
    BY <2>1, <2>2 DEF Lineage
<1>17. /\ SameFile' <=> SameFile
       /\ ~AtStart' /\ pc' # "read"
       /\ OnFile' <=> OnFile
  <2>1. (SameFile' <=> SameFile) /\ ~AtStart' /\ pc' # "read"
    BY <1>2, <1>11 DEF SameFile, AtStart
  <2> QED
    BY <1>2, <1>11, <2>1 DEF OnFile
<1>18. cursor'.pos = m /\ ReadTo' = m /\ ReadTo = seen.pos
  BY <1>7 DEF ReadTo
<1>19. Unbegun'
  <2> SUFFICES ASSUME SameFile', ~base'.begun PROVE cursor'.pos > base'.start
    BY <1>17 DEF Unbegun
  <2>1. seen.pos > base.start
    BY <1>1, <1>11, <1>17 DEF Unbegun
  <2> QED
    BY <1>4, <1>5, <1>11, <1>18, <2>1
<1>20. Begun'
  <2> SUFFICES ASSUME SameFile', base'.begun
               PROVE  /\ base'.start <= cursor'.pos
                      /\ base'.skip => base'.start + LineSize <= cursor'.pos
    BY <1>17 DEF Begun
  <2>1. CASE base.begun
    <3>1. /\ base.start <= seen.pos
          /\ base.skip => base.start + LineSize <= seen.pos
      BY <1>1, <1>17, <2>1 DEF Begun
    <3> QED
      BY <1>4, <1>5, <1>6, <1>11, <1>18, <3>1
  <2>2. CASE ~base.begun /\ AtStart
    <3>1. /\ seen.pos = base.start
          /\ base.skip => seen.want >= LineSize /\ file.len >= base.start + LineSize
      BY <1>1, <1>17, <2>2 DEF Unbegun, AtStart
    <3> QED
      BY <1>4, <1>5, <1>6, <1>11, <1>18, <3>1
  <2> QED
    BY <1>11, <2>1, <2>2
<1>21. TailHolds'
  <2> SUFFICES ASSUME OnFile' PROVE Since(All', base'.count) = Lines(Kept') /\ carry' = Rest(Kept')
    BY DEF TailHolds
  <2>1. SameFile /\ base.gen = file.gen /\ (base.begun \/ AtStart)
    BY <1>17 DEF OnFile, SameFile
  <2>2. Kept = Content(seen.pos)
    BY <1>18, KeptIsContent
  <2>3. Kept' = Content(m)
    BY <1>11, <1>18 DEF Kept, Content
  <2>4. Since(sent, base.count) = Lines(Content(seen.pos)) /\ carry = Rest(Content(seen.pos))
    BY <1>1, <1>13, <1>17, <2>2 DEF TailHolds
  <2>5. Since(All', base'.count) = Then(Lines(Content(seen.pos)), todo')
    <3>1. Cut(Then(sent, todo'), base.count, Len(Then(sent, todo')))
            = Then(Cut(sent, base.count, Len(sent)), todo')
      BY <1>5, <1>10, <1>15, CutGrows
    <3> QED
      BY <1>11, <1>13, <2>4, <3>1, Zenon DEF Since
  <2>6. CASE base.begun \/ ~base.skip
    <3>1. ~seen.skip /\ base.start <= seen.pos /\ (base.skip => base.start + LineSize <= seen.pos)
      <4>1. CASE base.begun
        BY <1>1, <2>1, <4>1 DEF Begun
      <4>2. CASE ~base.begun /\ ~base.skip
        <5>1. AtStart /\ seen.pos = base.start
          BY <2>1, <4>2 DEF AtStart
        <5>2. seen.skip = base.skip
          BY <1>1, <2>1, <4>2, <5>1 DEF Unbegun
        <5> QED
          BY <1>5, <4>2, <5>1, <5>2
      <4> QED
        BY <2>6, <4>1, <4>2
    <3>2. Fresh = Bytes(base.gen, seen.pos, m)
      BY <1>4, <2>1, <3>1 DEF Fresh
    <3>3. seen.pos <= m
      BY <1>4, <1>5
    <3>4. ~base.skip => base.start = 0
      BY <1>1 DEF Lineage
    <3>5. /\ Lines(Content(m)) = Then(Lines(Content(seen.pos)),
                                      Lines(Then(Rest(Content(seen.pos)), Bytes(base.gen, seen.pos, m))))
          /\ Rest(Content(m)) = Rest(Then(Rest(Content(seen.pos)), Bytes(base.gen, seen.pos, m)))
      BY <1>1, <1>5, <3>1, <3>3, <3>4, ContentGrows
    <3>6. read = Then(Rest(Content(seen.pos)), Bytes(base.gen, seen.pos, m))
      BY <2>4, <3>2, Zenon DEF read
    <3> QED
      BY <1>9, <2>3, <2>5, <3>5, <3>6, Zenon
  <2>7. CASE ~base.begun /\ base.skip
    <3>1. AtStart /\ seen.pos = base.start
      BY <2>1, <2>7 DEF AtStart
    <3>2. seen.skip
      BY <1>1, <2>1, <2>7, <3>1 DEF Unbegun
    <3>3. Fresh = Content(m)
      BY <1>4, <2>1, <2>7, <3>1, <3>2 DEF Fresh, Content
    <3>4. Content(seen.pos) = <<>> /\ Lines(<<>>) = <<>> /\ Rest(<<>>) = <<>>
      BY <1>1, <3>1, NothingKept
    <3>5. carry = <<>> /\ Lines(Content(seen.pos)) = <<>>
      BY <2>4, <3>4
    <3>6. read = Fresh
      BY <1>8, <3>5, ThenType DEF read
    <3>7. Then(<<>>, todo') = todo'
      BY <1>10, ThenType
    <3> QED
      BY <1>9, <2>3, <2>5, <3>3, <3>5, <3>6, <3>7, Zenon
  <2> QED
    BY <2>6, <2>7
<1> QED
  BY <1>12, <1>16, <1>19, <1>20, <1>21 DEF TailInv

(* Every step keeps the invariant.                                         *)
LEMMA NextTail ==
  ASSUME TailInv, [Next]_vars
  PROVE  TailInv'
<1>1. CASE Write \/ Vanish \/ \E id \in FileId : Replace(id)
  BY <1>1, FileTail
<1>2. CASE Stat
  BY <1>2, StatTail
<1>3. CASE StatFails
  BY <1>3, StatFailsTail
<1>4. CASE Read
  <2>1. /\ pc = "read" /\ Idle /\ file.id # None /\ pc' = "tick" /\ seen' = NoneSeen
        /\ UNCHANGED <<file, faults, hubVars>>
        /\ ReadEmpty \/ ReadChunk
    BY <1>4 DEF Read
  <2>2. CASE ReadEmpty
    BY <2>1, <2>2, NoReadTail DEF ReadEmpty
  <2>3. CASE ReadChunk
    BY <2>1, <2>3, ChunkTail
  <2> QED
    BY <2>1, <2>2, <2>3
<1>5. CASE ReadFails
  BY <1>5, NoReadTail DEF ReadFails
<1>6. CASE TailAppend \/ TailSend \/ \E v \in Viewer : Watch(v)
  BY <1>6, HubTail
<1>7. CASE UNCHANGED vars
  <2>1. UNCHANGED <<file, pc, cursor, seen, carry, todo, base, sent, writing>>
    BY <1>7 DEF vars, tailVars, hubVars
  <2>2. TypesOK /\ Lineage /\ Unbegun /\ Begun /\ TailHolds
    BY DEF TailInv
  <2>3. All' = All /\ (OnFile' <=> OnFile) /\ ReadTo' = ReadTo
    BY <2>1 DEF All, OnFile, SameFile, AtStart, ReadTo
  <2>4. TypesOK' /\ Lineage' /\ Unbegun' /\ Begun'
    BY <2>1, <2>2, <2>3 DEF TypesOK, Lineage, Unbegun, Begun, SameFile, AtStart
  <2>5. TailHolds'
    BY <2>1, <2>2, <2>3, KeptStays
  <2> QED
    BY <2>4, <2>5 DEF TailInv
<1> QED
  BY <1>1, <1>2, <1>3, <1>4, <1>5, <1>6, <1>7, Zenon DEF Next, TailStep

(* While the file the tailer started on is the one at the path, the lines  *)
(* pushed since the start are the lines of what it read, each once, in     *)
(* order and whole, and the splitter holds the bytes of the unfinished     *)
(* one: however the file grows, is replaced or removed between the look at *)
(* its metadata and the read, whatever reads fail, and wherever a chunk    *)
(* ends (tail_log, LineSplitter::push).                                    *)
THEOREM TailIsFileHolds == Spec => []TailIsFile
<1>1. Init => TailInv
  BY InitTail
<1>2. TailInv /\ [Next]_vars => TailInv'
  BY NextTail
<1>3. TailInv => TailIsFile
  <2> SUFFICES ASSUME TailInv, OnFile
               PROVE  /\ SubSeq(sent \o writing \o todo, base.count + 1,
                                Len(sent) + Len(writing) + Len(todo)) = Lines(Kept)
                      /\ carry = Rest(Kept)
    BY DEF TailIsFile
  <2>1. TypesOK /\ TailHolds
    BY DEF TailInv
  <2>2. Cut(All, base.count, Len(All)) = Lines(Kept) /\ carry = Rest(Kept)
    BY <2>1 DEF TailHolds, Since
  <2>3. Len(All) = Len(sent) + Len(writing) + Len(todo)
    BY <2>1, AllType
  <2>4. Cut(All, base.count, Len(sent) + Len(writing) + Len(todo)) = Lines(Kept)
    BY <2>2, <2>3, Zenon
  <2> QED
    BY <2>2, <2>4, Zenon DEF Cut, All, Then
<1> QED
  BY <1>1, <1>2, <1>3, PTL DEF Spec

(* To the hub the tailer is one that pushes: every step of the two         *)
(* together is a push, half of one, a step of a viewer, or no step of the  *)
(* hub.  A line it pushes is any text but the empty one.                   *)
LEMMA StepIsHubStep ==
  ASSUME AnyLine \subseteq Text, TypesOK, [Next]_vars
  PROVE  [HubNext]_hubVars
<1>1. CASE Write \/ Vanish \/ \E id \in FileId : Replace(id)
  BY <1>1 DEF Write, Vanish, Replace
<1>2. CASE Stat \/ StatFails \/ Read \/ ReadFails
  BY <1>2, Zenon DEF Stat, StatFails, Read, ReadFails
<1>3. CASE TailAppend
  <2>1. todo \in Seq(AnyLine) /\ todo # <<>> /\ PushAppend(Head(todo))
    BY <1>3 DEF TailAppend, TypesOK
  <2>2. Head(todo) \in Text
    BY <2>1
  <2> QED
    BY <2>1, <2>2 DEF HubNext
<1>4. CASE TailSend
  BY <1>4 DEF TailSend, HubNext
<1>5. CASE \E v \in Viewer : Watch(v)
  BY <1>5 DEF Watch, HubNext
<1>6. CASE UNCHANGED vars
  BY <1>6 DEF vars
<1> QED
  BY <1>1, <1>2, <1>3, <1>4, <1>5, <1>6, Zenon DEF Next, TailStep

(* The tailer uses the hub as it may be used: ConsoleLog implements LogHub *)
(* (tail_log calls LogHub::push and nothing else of it).                   *)
THEOREM TailPushes ==
  ASSUME AnyLine \subseteq Text
  PROVE  Spec => HubSpec
<1>1. Init => HubInit /\ TailInv
  BY InitTail DEF Init
<1>2. TailInv /\ [Next]_vars => TailInv'
  BY NextTail
<1>3. TailInv /\ [Next]_vars => [HubNext]_hubVars
  BY StepIsHubStep DEF TailInv
<1> QED
  BY <1>1, <1>2, <1>3, PTL DEF Spec, HubSpec

(* So a stream fed by the tailer is a run of the lines of the log, without *)
(* a line twice, out of order or missing untold (LogHub::subscribe,        *)
(* log_stream).                                                            *)
THEOREM TailStreamIsLog ==
  ASSUME AnyLine \subseteq Text
  PROVE  Spec => []StreamIsLog
BY TailPushes, StreamIsLogHolds, PTL

=============================================================================

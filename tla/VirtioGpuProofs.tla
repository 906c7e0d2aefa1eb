-------------------------- MODULE VirtioGpuProofs --------------------------
(***************************************************************************)
(* Theorems of the control queue (VirtioGpu): types, the scanout, fences    *)
(* and frames.                                                             *)
(*                                                                         *)
(* Serve(c) has eight alternatives, but fences and frames only see what     *)
(* they share: lemma Served says once what serving a chain does.  Then each *)
(* part of the invariant is taken over each action: Shown (the scanout),    *)
(* Places (a chain is in one place), Counted (fences count up along the     *)
(* rings) and Answers (FenceHonest and FramesAnswered).                     *)
(***************************************************************************)
EXTENDS VirtioGpu, SequenceTheorems, TLAPS

(* The response types of a served command.                                  *)
Reply == {"OK", "RESOURCE", "PARAMETER", "UNSPEC"}

(* What a request may be, field by field.                                   *)
LEMMA Fields ==
    ASSUME NEW r \in Request \cup {NoRequest}
    PROVE  /\ r.fence \in 0..MaxFence /\ r.id \in Id
           /\ r.op \notin Fenced => r.fence = 0
           /\ r.op \in {"UNREF", "ATTACH", "DETACH"} \cup Fenced => r.id \in ResourceId
<1>0. 0 \in 0..MaxFence /\ 0 \in Id /\ ResourceId \subseteq Id
  BY MaxFenceAssumption DEF Id
<1>1. CASE r = NoRequest
  BY <1>0, <1>1 DEF NoRequest, Fenced
<1>2. CASE r \in [op : {"CREATE", "SCANOUT"}, id : Id, fence : {0}]
  BY <1>0, <1>2 DEF Fenced
<1>3. CASE r \in [op : {"UNREF", "ATTACH", "DETACH"}, id : ResourceId, fence : {0}]
  BY <1>0, <1>3 DEF Fenced
<1>4. CASE r \in [op : Fenced, id : ResourceId, fence : 0..MaxFence]
  BY <1>0, <1>4 DEF Fenced
<1>5. CASE r \in [op : {"DISPLAY_INFO", "MALFORMED", "UNREADABLE", "THROWS", "OVERLONG"},
                 id : {0}, fence : {0}]
  BY <1>0, <1>5 DEF Fenced
<1> QED BY <1>1, <1>2, <1>3, <1>4, <1>5 DEF Request

(* The initial state is well typed.                                         *)
LEMMA TypeInit == Init => TypeOK
<1> SUFFICES ASSUME Init PROVE TypeOK
  OBVIOUS
<1>1. 0 \in 0..MaxFence
  BY MaxFenceAssumption
<1>2. avail \in Seq(Chain) /\ used \in Seq(Chain)
  BY DEF Init
<1>3. request \in [Chain -> Request \cup {NoRequest}]
  BY DEF Init
<1>4. response \in [Chain -> {"none", "OK", "RESOURCE", "PARAMETER", "UNSPEC"}]
  BY DEF Init
<1>5. scanout \in {{}} \cup {{i} : i \in Id}
  BY DEF Init
<1> QED BY <1>1, <1>2, <1>3, <1>4, <1>5 DEF Init, TypeOK

(* The flushes whose frame went to onFrame.                                 *)
Handed == framed \cup frameThrew

(* What serving a chain does, whatever its command.                         *)
LEMMA Served ==
    ASSUME TypeOK, NEW c \in Chain, Serve(c)
    PROVE  /\ avail # <<>> /\ c = Head(avail)
           /\ \E reply \in Reply :
                 /\ Answer(c, reply)
                 /\ framed' \in {framed, framed \cup {c}}
                 /\ frameThrew' \in {frameThrew, frameThrew \cup {c}}
                 /\ Handed' = IF onFrame /\ request[c].op = "FLUSH" /\ reply = "OK"
                              THEN Handed \cup {c} ELSE Handed
                 /\ \/ /\ completedFence' = completedFence
                       /\ request[c].op \in Fenced => reply # "OK"
                       /\ request[c].op \in Fenced /\ reply = "PARAMETER"
                              => ~InOrder(request[c].fence)
                    \/ /\ request[c].op \in Fenced /\ reply = "OK"
                       /\ InOrder(request[c].fence)
                       /\ completedFence' = Completed(request[c].fence)
<1>1. CASE Create2D(c)
  BY <1>1 DEF Create2D, Serving, Fenced, Reply, frameVars, Handed
<1>2. CASE Unref(c)
  BY <1>2 DEF Unref, Serving, Fenced, Reply, frameVars, Handed
<1>3. CASE Backing(c)
  BY <1>3 DEF Backing, Serving, Fenced, Reply, frameVars, Handed
<1>4. CASE SetScanout(c)
  BY <1>4 DEF SetScanout, Serving, Fenced, Reply, frameVars, Handed
<1>5. CASE TransferOrFlush(c)
  <2>1. avail # <<>> /\ c = Head(avail) /\ request[c].op \in Fenced
    BY <1>5 DEF TransferOrFlush, Serving
  <2>2. CASE /\ request[c].id \notin backed
             /\ Answer(c, "RESOURCE") /\ UNCHANGED <<completedFence, frameVars>>
    BY <2>1, <2>2 DEF Reply, frameVars, Handed
  <2>3. CASE /\ ~InOrder(request[c].fence)
             /\ Answer(c, "PARAMETER") /\ UNCHANGED <<completedFence, frameVars>>
    BY <2>1, <2>3 DEF Reply, frameVars, Handed
  <2>4. CASE /\ InOrder(request[c].fence)
             /\ Answer(c, "OK") /\ completedFence' = Completed(request[c].fence)
             /\ Present(c)
    BY <2>1, <2>4 DEF Reply, Present, frameVars, Handed
  <2> QED BY <1>5, <2>2, <2>3, <2>4 DEF TransferOrFlush
<1>6. CASE GetDisplayInfo(c)
  BY <1>6 DEF GetDisplayInfo, Stateless, Serving, Fenced, Reply, gpuVars, frameVars, Handed
<1>7. CASE Malformed(c)
  BY <1>7 DEF Malformed, Stateless, Serving, Fenced, Reply, gpuVars, frameVars, Handed
<1>8. CASE Unreadable(c)
  BY <1>8 DEF Unreadable, Stateless, Serving, Fenced, Reply, gpuVars, frameVars, Handed
<1> QED BY <1>1, <1>2, <1>3, <1>4, <1>5, <1>6, <1>7, <1>8 DEF Serve

(* Resources, their backing and the scanout.                                *)
Shown ==
    /\ backed \subseteq resources /\ resources \subseteq ResourceId
    /\ scanout \in {{}} \cup {{i} : i \in Id}
    /\ unrefShown \in BOOLEAN
    /\ ShownExists

(* No command breaks the bookkeeping of resources and scanout.              *)
LEMMA ShownServed ==
    ASSUME TypeOK, Shown, NEW c \in Chain, Serve(c)
    PROVE  Shown'
<1>0. request[c] \in Request \cup {NoRequest}
  BY DEF TypeOK
<1> DEFINE id == request[c].id
<1>1. id \in Id /\ (request[c].op \in {"UNREF", "ATTACH", "DETACH"} => id \in ResourceId)
  BY <1>0, Fields
<1>2. CASE Create2D(c)
  BY <1>2 DEF Create2D, Shown, ShownExists
<1>3. CASE Unref(c)
  BY <1>3 DEF Unref, Shown, ShownExists
<1>4. CASE Backing(c)
  BY <1>4 DEF Backing, Shown, ShownExists
<1>5. CASE SetScanout(c)
  BY <1>1, <1>5 DEF SetScanout, Shown, ShownExists
<1>6. CASE TransferOrFlush(c)
  BY <1>6 DEF TransferOrFlush, Shown, ShownExists
<1>7. CASE GetDisplayInfo(c) \/ Malformed(c) \/ Unreadable(c)
  BY <1>7 DEF GetDisplayInfo, Malformed, Unreadable, Stateless, gpuVars, Shown, ShownExists
<1> QED BY <1>2, <1>3, <1>4, <1>5, <1>6, <1>7 DEF Serve

(* Nor does any other step: a reset forgets both sides of ShownExists at    *)
(* once.                                                                    *)
LEMMA ShownStep == TypeOK /\ Shown /\ [Next]_vars => Shown'
<1> SUFFICES ASSUME TypeOK, Shown, [Next]_vars PROVE Shown'
  OBVIOUS
<1>1. CASE \E c \in Chain : Serve(c)
  BY <1>1, ShownServed
<1>2. CASE Reset
  BY <1>2 DEF Reset, Shown, ShownExists
<1>3. CASE OnQueueNotify \/ LoopEnds \/ Setup \/ Reap \/ \E c \in Chain, r \in Request : Offer(c, r)
  BY <1>3 DEF OnQueueNotify, LoopEnds, Setup, Reap, Offer, gpuVars, historyVars, Shown, ShownExists
<1>5. CASE \E c \in Chain : LoopThrows(c)
  BY <1>5 DEF LoopThrows, gpuVars, Shown, ShownExists
<1>4. CASE UNCHANGED vars
  BY <1>4 DEF vars, gpuVars, historyVars, Shown, ShownExists
<1> QED BY <1>1, <1>2, <1>3, <1>4, <1>5 DEF Next, Loop

(* The rest of the types.                                                   *)
Rings ==
    /\ free \subseteq Chain /\ request \in [Chain -> Request \cup {NoRequest}]
    /\ response \in [Chain -> {"none", "OK", "RESOURCE", "PARAMETER", "UNSPEC"}]
    /\ avail \in Seq(Chain) /\ used \in Seq(Chain)
    /\ kicked \in BOOLEAN /\ enabled \in BOOLEAN /\ busy \in BOOLEAN
    /\ lastFence \in 0..MaxFence /\ completedFence \in 0..MaxFence /\ inherited \in 0..MaxFence
    /\ onFrame \in BOOLEAN
    /\ framed \subseteq Chain /\ frameThrew \subseteq Chain /\ lost \subseteq Chain

(* Every step keeps the other variables in their types.                     *)
LEMMA RingsStep == TypeOK /\ [Next]_vars => Rings'
<1> SUFFICES ASSUME TypeOK, [Next]_vars PROVE Rings'
  OBVIOUS
<1>0. 0 \in 0..MaxFence
  BY MaxFenceAssumption
<1>1. ASSUME NEW c \in Chain, Serve(c) PROVE Rings'
  <2>0. request[c].fence \in 0..MaxFence
    BY Fields DEF TypeOK
  <2>1. PICK reply \in Reply :
            /\ Answer(c, reply)
            /\ framed' \in {framed, framed \cup {c}}
            /\ frameThrew' \in {frameThrew, frameThrew \cup {c}}
            /\ completedFence' \in {completedFence, Completed(request[c].fence)}
    BY <1>1, Served
  <2>2. completedFence' \in 0..MaxFence
    BY <2>0, <2>1 DEF Completed, TypeOK
  <2>3. avail' \in Seq(Chain) /\ used' \in Seq(Chain)
    <3>1. avail' = Tail(avail) /\ used' = Append(used, c) /\ avail # <<>>
      BY <1>1, <2>1, Served DEF Answer
    <3> QED BY <3>1, AppendProperties, HeadTailProperties DEF TypeOK
  <2>4. response' \in [Chain -> {"none", "OK", "RESOURCE", "PARAMETER", "UNSPEC"}]
    BY <2>1 DEF Answer, TypeOK, Reply
  <2> QED BY <2>1, <2>2, <2>3, <2>4 DEF Answer, TypeOK, Rings
<1>2. CASE OnQueueNotify
  BY <1>2 DEF OnQueueNotify, TypeOK, Rings, gpuVars, historyVars, frameVars
<1>3. CASE LoopEnds
  BY <1>3 DEF LoopEnds, TypeOK, Rings, driverVars, gpuVars, historyVars, frameVars
<1>4. CASE Reset
  <2>1. avail' \in Seq(Chain) /\ used' \in Seq(Chain)
    BY <1>4 DEF Reset
  <2>2. /\ request' \in [Chain -> Request \cup {NoRequest}]
        /\ response' \in [Chain -> {"none", "OK", "RESOURCE", "PARAMETER", "UNSPEC"}]
    BY <1>4 DEF Reset
  <2> QED BY <1>0, <1>4, <2>1, <2>2 DEF Reset, TypeOK, Rings
<1>5. CASE Setup
  BY <1>5 DEF Setup, TypeOK, Rings, driverVars, gpuVars, historyVars, frameVars
<1>6. CASE Reap
  <2>1. used' = Tail(used) /\ used # <<>> /\ used \in Seq(Chain)
    BY <1>6 DEF Reap, TypeOK
  <2>2. Head(used) \in Chain /\ used' \in Seq(Chain)
    BY <2>1, HeadTailProperties
  <2>3. /\ free' = free \cup {Head(used)} /\ framed' = framed \ {Head(used)}
        /\ frameThrew' = frameThrew \ {Head(used)}
        /\ request' = [request EXCEPT ![Head(used)] = NoRequest]
        /\ response' = [response EXCEPT ![Head(used)] = "none"]
    BY <1>6 DEF Reap
  <2> QED BY <1>6, <2>2, <2>3 DEF Reap, TypeOK, Rings, gpuVars
<1>7. ASSUME NEW c \in Chain, NEW r \in Request, Offer(c, r) PROVE Rings'
  <2>1. avail' \in Seq(Chain)
    BY <1>7, AppendProperties DEF Offer, TypeOK
  <2>2. lastFence' \in 0..MaxFence
    BY <1>7, Fields DEF Offer, TypeOK
  <2>3. request' \in [Chain -> Request \cup {NoRequest}]
    BY <1>7 DEF Offer, TypeOK
  <2> QED BY <1>7, <2>1, <2>2, <2>3 DEF Offer, TypeOK, Rings, gpuVars, historyVars, frameVars
<1>8. CASE UNCHANGED vars
  BY <1>8 DEF vars, driverVars, gpuVars, historyVars, frameVars, TypeOK, Rings
<1>9. ASSUME NEW c \in Chain, LoopThrows(c) PROVE Rings'
  <2>1. avail' \in Seq(Chain)
    BY <1>9, HeadTailProperties DEF LoopThrows, Serving, TypeOK
  <2> QED BY <1>9, <2>1 DEF LoopThrows, TypeOK, Rings, gpuVars, frameVars
<1> QED BY <1>1, <1>2, <1>3, <1>4, <1>5, <1>6, <1>7, <1>8, <1>9 DEF Next, Loop

(* Types and scanout hold in every reachable state.                         *)
LEMMA TypeAndShown == Spec => [](TypeOK /\ Shown)
<1>1. Init => TypeOK /\ Shown
  <2>1. Init => Shown
    BY DEF Init, Shown, ShownExists
  <2> QED BY <2>1, TypeInit
<1>2. (TypeOK /\ Shown) /\ [Next]_vars => (TypeOK /\ Shown)'
  <2> SUFFICES ASSUME TypeOK, Shown, [Next]_vars PROVE TypeOK' /\ Shown'
    OBVIOUS
  <2>1. Rings' /\ Shown'
    BY RingsStep, ShownStep
  <2> QED BY <2>1 DEF Rings, Shown, TypeOK
<1> QED BY <1>1, <1>2, PTL DEF Spec

(* Every variable of the control queue and of the registry has its type in  *)
(* every reachable state: registry ids are ids of the driver, a backing     *)
(* belongs to a resource.                                                   *)
THEOREM TypeCorrect == Spec => []TypeOK
BY TypeAndShown, PTL

(* The scanout (virtio_gpu.js, setScanout) never names a resource the       *)
(* registry does not hold, unless the driver unreferenced it while it was   *)
(* shown, for any set of resource ids and chains.                           *)
THEOREM ShownExistsCorrect == Spec => []ShownExists
<1>1. Shown => ShownExists
  BY DEF Shown
<1> QED BY <1>1, TypeAndShown, PTL

(* Rings without duplicates.                                                *)
Distinct(s) == \A m, n \in 1..Len(s) : m # n => s[m] # s[n]

(* The fence of the command in a chain.                                     *)
Fence(c) == request[c].fence
(* The fences of a ring count up; commands without a fence do not matter.   *)
Rising(s) == \A m, n \in 1..Len(s) :
                 m < n /\ Fence(s[m]) # 0 /\ Fence(s[n]) # 0 => Fence(s[m]) < Fence(s[n])

(* A ring and the chains it holds.                                          *)
LEMMA Ring ==
    ASSUME NEW s \in Seq(Chain)
    PROVE  /\ Len(s) \in Nat /\ DOMAIN s = 1..Len(s) /\ Elements(s) \subseteq Chain
           /\ \A n \in 1..Len(s) : s[n] \in Elements(s)
           /\ \A c \in Elements(s) : \E n \in 1..Len(s) : s[n] = c
<1>1. Len(s) \in Nat /\ DOMAIN s = 1..Len(s) /\ \A n \in 1..Len(s) : s[n] \in Chain
  BY LenProperties, ElementOfSeq
<1> QED BY <1>1 DEF Elements

(* The empty ring.                                                          *)
LEMMA EmptyRing == Elements(<<>>) = {} /\ Distinct(<<>>) /\ Rising(<<>>)
<1>1. DOMAIN <<>> = {} /\ Len(<<>>) = 0
  OBVIOUS
<1> QED BY <1>1 DEF Elements, Distinct, Rising

(* A ring one entry longer.                                                 *)
LEMMA Pushed ==
    ASSUME NEW s \in Seq(Chain), NEW c \in Chain
    PROVE  /\ Elements(Append(s, c)) = Elements(s) \cup {c}
           /\ Distinct(s) /\ c \notin Elements(s) => Distinct(Append(s, c))
           /\ Len(Append(s, c)) = Len(s) + 1 /\ Append(s, c)[Len(s) + 1] = c
           /\ \A n \in 1..Len(s) : Append(s, c)[n] = s[n]
           /\ \A n \in 1..Len(Append(s, c)) : n \in 1..Len(s) \/ n = Len(s) + 1
<1> DEFINE t == Append(s, c)
<1>1. /\ t \in Seq(Chain) /\ Len(t) = Len(s) + 1 /\ t[Len(s) + 1] = c
      /\ \A n \in 1..Len(s) : t[n] = s[n]
  BY AppendProperties
<1>2. Len(s) \in Nat /\ Len(t) \in Nat
  BY <1>1, Ring
<1> HIDE DEF t
<1>3. \A n \in 1..Len(t) : n \in 1..Len(s) \/ n = Len(s) + 1
  BY <1>1, <1>2
<1>4. ASSUME NEW d \in Elements(t) PROVE d \in Elements(s) \cup {c}
  <2>1. PICK n \in 1..Len(t) : t[n] = d
    BY <1>1, Ring
  <2> QED BY <1>1, <1>3, <2>1, Ring
<1>5. ASSUME NEW d \in Elements(s) \cup {c} PROVE d \in Elements(t)
  <2>1. CASE d \in Elements(s)
    <3>1. PICK n \in 1..Len(s) : s[n] = d
      BY <2>1, Ring
    <3>2. n \in 1..Len(t) /\ t[n] = d
      BY <1>1, <1>2, <3>1
    <3> QED BY <1>1, <3>2, Ring
  <2>2. CASE d = c
    <3>1. Len(s) + 1 \in 1..Len(t)
      BY <1>1, <1>2
    <3> QED BY <1>1, <2>2, <3>1, Ring
  <2> QED BY <2>1, <2>2
<1>6. ASSUME Distinct(s), c \notin Elements(s) PROVE Distinct(t)
  <2>1. \A n \in 1..Len(s) : t[n] = s[n] /\ s[n] # c
    BY <1>1, <1>6, Ring
  <2> QED BY <1>1, <1>3, <1>6, <2>1 DEF Distinct
<1> QED BY <1>1, <1>3, <1>4, <1>5, <1>6 DEF t

(* A ring without its first entry.                                          *)
LEMMA Popped ==
    ASSUME NEW s \in Seq(Chain), s # <<>>
    PROVE  /\ Head(s) \in Chain /\ Head(s) \in Elements(s) /\ Head(s) = s[1]
           /\ Tail(s) \in Seq(Chain) /\ Len(s) >= 1 /\ Len(Tail(s)) = Len(s) - 1
           /\ \A n \in 1..Len(Tail(s)) : n + 1 \in 1..Len(s) /\ Tail(s)[n] = s[n + 1]
           /\ Distinct(s) => Distinct(Tail(s)) /\ Elements(Tail(s)) = Elements(s) \ {Head(s)}
<1> DEFINE t == Tail(s)
<1>1. /\ Len(s) \in Nat /\ Len(s) >= 1
      /\ Head(s) = s[1] /\ t \in Seq(Chain) /\ Len(t) = Len(s) - 1
      /\ \A n \in 1..Len(t) : t[n] = s[n + 1]
  BY HeadTailProperties, LenProperties, EmptySeq
<1> HIDE DEF t
<1>2. \A n \in 1..Len(t) : n \in Nat /\ n + 1 \in 1..Len(s)
  BY <1>1
<1>3. Head(s) \in Elements(s) /\ Head(s) \in Chain
  BY <1>1, Ring
<1>4. ASSUME Distinct(s) PROVE Distinct(t) /\ Elements(t) = Elements(s) \ {Head(s)}
  <2>1. ASSUME NEW m \in 1..Len(t), NEW n \in 1..Len(t), m # n PROVE t[m] # t[n]
    <3>1. m + 1 # n + 1
      BY <1>2, <2>1
    <3> QED BY <1>1, <1>2, <1>4, <3>1 DEF Distinct
  <2>2. ASSUME NEW d \in Elements(t) PROVE d \in Elements(s) \ {Head(s)}
    <3>1. PICK n \in 1..Len(t) : t[n] = d
      BY <1>1, Ring
    <3>2. n + 1 \in 1..Len(s) /\ n + 1 # 1 /\ s[n + 1] = d /\ 1 \in 1..Len(s)
      BY <1>1, <1>2, <3>1
    <3> QED BY <1>1, <1>4, <3>2, Ring DEF Distinct
  <2>3. ASSUME NEW d \in Elements(s) \ {Head(s)} PROVE d \in Elements(t)
    <3>1. PICK n \in 1..Len(s) : s[n] = d
      BY Ring
    <3>2. n # 1
      BY <1>1, <2>3, <3>1
    <3>3. n - 1 \in 1..Len(t) /\ (n - 1) + 1 = n
      BY <1>1, <3>2
    <3>4. t[n - 1] = d
      BY <1>1, <3>1, <3>3
    <3> QED BY <1>1, <3>3, <3>4, Ring
  <2> QED BY <2>1, <2>2, <2>3 DEF Distinct
<1> QED BY <1>1, <1>2, <1>3, <1>4 DEF t

-----------------------------------------------------------------------------
(* Every chain is in one place.                                             *)
Places ==
    /\ Distinct(avail) /\ Distinct(used)
    /\ Elements(avail) \cap Elements(used) = {}
    /\ free \cap (Elements(avail) \cup Elements(used)) = {}
    /\ Handed \subseteq Elements(used)

(* What serving a chain does to the rings.                                  *)
LEMMA Moved ==
    ASSUME TypeOK, Places, NEW c \in Chain, Serve(c)
    PROVE  /\ c \in Elements(avail) /\ c = avail[1]
           /\ avail' \in Seq(Chain) /\ used' \in Seq(Chain)
           /\ Elements(avail') = Elements(avail) \ {c} /\ Distinct(avail')
           /\ Elements(used') = Elements(used) \cup {c} /\ Distinct(used')
           /\ Len(avail) \in Nat /\ Len(avail) >= 1 /\ Len(avail') = Len(avail) - 1
           /\ \A n \in 1..Len(avail') : n + 1 \in 1..Len(avail) /\ avail'[n] = avail[n + 1]
           /\ UNCHANGED <<free, request, lastFence, inherited, onFrame>>
<1>1. /\ avail # <<>> /\ c = Head(avail) /\ avail' = Tail(avail) /\ used' = Append(used, c)
      /\ UNCHANGED <<free, request, lastFence, inherited, onFrame>>
  BY Served DEF Answer
<1>2. avail \in Seq(Chain) /\ used \in Seq(Chain)
  BY DEF TypeOK
<1>3. /\ c \in Elements(avail) /\ c = avail[1] /\ avail' \in Seq(Chain)
      /\ Elements(avail') = Elements(avail) \ {c} /\ Distinct(avail')
      /\ Len(avail) \in Nat /\ Len(avail) >= 1 /\ Len(avail') = Len(avail) - 1
      /\ \A n \in 1..Len(avail') : n + 1 \in 1..Len(avail) /\ avail'[n] = avail[n + 1]
  BY <1>1, <1>2, Popped, Ring DEF Places
<1>4. c \notin Elements(used)
  BY <1>3 DEF Places
<1>5. used' \in Seq(Chain) /\ Elements(used') = Elements(used) \cup {c} /\ Distinct(used')
  BY <1>1, <1>2, <1>4, Pushed, AppendProperties DEF Places
<1> QED BY <1>1, <1>3, <1>5

(* What the driver changes when it takes a used entry.                      *)
LEMMA Reaped ==
    ASSUME TypeOK, Places, Reap
    PROVE  \E c \in Elements(used) :
              /\ c \in Chain /\ used' \in Seq(Chain) /\ avail' = avail
              /\ Elements(used') = Elements(used) \ {c} /\ Distinct(used')
              /\ free' = free \cup {c} /\ Handed' = Handed \ {c}
              /\ \A d \in Chain \ {c} : request'[d] = request[d] /\ response'[d] = response[d]
              /\ UNCHANGED <<lastFence, completedFence, inherited, onFrame>>
<1>1. used # <<>> /\ used \in Seq(Chain) /\ Distinct(used)
  BY DEF Reap, TypeOK, Places
<1>2. /\ Head(used) \in Elements(used) /\ Head(used) \in Chain /\ Tail(used) \in Seq(Chain)
      /\ Elements(Tail(used)) = Elements(used) \ {Head(used)} /\ Distinct(Tail(used))
  BY <1>1, Popped
<1>3. /\ used' = Tail(used) /\ free' = free \cup {Head(used)} /\ Handed' = Handed \ {Head(used)}
      /\ request' = [request EXCEPT ![Head(used)] = NoRequest]
      /\ response' = [response EXCEPT ![Head(used)] = "none"]
      /\ UNCHANGED <<avail, lastFence, completedFence, inherited, onFrame>>
  BY DEF Reap, gpuVars, Handed
<1>4. \A d \in Chain \ {Head(used)} : request'[d] = request[d] /\ response'[d] = response[d]
  BY <1>2, <1>3 DEF TypeOK
<1> QED BY <1>2, <1>3, <1>4

(* What the driver changes when it offers a chain.                          *)
LEMMA Offered ==
    ASSUME TypeOK, Places, NEW c \in Chain, NEW r \in Request, Offer(c, r)
    PROVE  /\ c \in free /\ c \notin Elements(avail) /\ c \notin Elements(used)
           /\ avail' = Append(avail, c) /\ avail' \in Seq(Chain)
           /\ Elements(avail') = Elements(avail) \cup {c} /\ Distinct(avail')
           /\ free' = free \ {c} /\ request'[c] = r
           /\ \A d \in Chain \ {c} : request'[d] = request[d]
           /\ r.fence \in {0, lastFence + 1}
           /\ lastFence' = IF r.fence = 0 THEN lastFence ELSE r.fence
           /\ UNCHANGED <<used, response, Handed, completedFence, inherited, onFrame>>
<1>1. /\ c \in free /\ avail' = Append(avail, c) /\ free' = free \ {c}
      /\ request' = [request EXCEPT ![c] = r]
      /\ r.fence \in {0, lastFence + 1}
      /\ lastFence' = IF r.fence = 0 THEN lastFence ELSE r.fence
      /\ UNCHANGED <<used, response, Handed, completedFence, inherited, onFrame>>
  BY DEF Offer, gpuVars, historyVars, frameVars, Handed
<1>2. c \notin Elements(avail) /\ c \notin Elements(used)
  BY <1>1 DEF Places
<1>3. avail' \in Seq(Chain) /\ Elements(avail') = Elements(avail) \cup {c} /\ Distinct(avail')
  BY <1>1, <1>2, Pushed, AppendProperties DEF TypeOK, Places
<1>4. request'[c] = r /\ \A d \in Chain \ {c} : request'[d] = request[d]
  BY <1>1 DEF TypeOK
<1> QED BY <1>1, <1>2, <1>3, <1>4

(* A served chain moves from the available ring to the used ring.           *)
LEMMA PlacesServed ==
    ASSUME TypeOK, Places, NEW c \in Chain, Serve(c)
    PROVE  Places'
<1>1. /\ Elements(avail') = Elements(avail) \ {c} /\ Distinct(avail')
      /\ Elements(used') = Elements(used) \cup {c} /\ Distinct(used')
      /\ c \in Elements(avail) /\ free' = free
  BY Moved
<1>2. Handed' \subseteq Handed \cup {c}
  BY Served
<1> QED BY <1>1, <1>2 DEF Places

(* Fences count up along the rings, served ones before offered ones, and    *)
(* what the device has completed is either of an earlier life or of this    *)
(* one; a chain whose fence is above what the reset left behind is above    *)
(* what is completed, so InOrder cannot refuse it.                          *)
Counted ==
    /\ \A c \in Elements(avail) \cup Elements(used) : Fence(c) <= lastFence
    /\ Rising(avail)
    /\ \A u \in Elements(used), a \in Elements(avail) :
           Fence(u) # 0 /\ Fence(a) # 0 => Fence(u) < Fence(a)
    /\ inherited <= completedFence
    /\ completedFence <= inherited \/ completedFence <= lastFence
    /\ \A a \in Elements(avail) : Fence(a) > inherited => Fence(a) > completedFence

(* The two properties of the used ring.                                     *)
Answers == FenceHonest /\ FramesAnswered

(* The inductive invariant; the scanout has its own (Shown).                *)
IInv == TypeOK /\ Places /\ Counted /\ Answers

(* The numbers of a state.                                                  *)
LEMMA Numbers ==
    ASSUME TypeOK
    PROVE  /\ \A c \in Chain : Fence(c) \in Nat
           /\ lastFence \in Nat /\ completedFence \in Nat /\ inherited \in Nat
           /\ Elements(avail) \subseteq Chain /\ Elements(used) \subseteq Chain
<1>1. \A n \in 0..MaxFence : n \in Nat
  BY MaxFenceAssumption
<1>2. \A c \in Chain : Fence(c) \in 0..MaxFence
  <2> SUFFICES ASSUME NEW c \in Chain PROVE Fence(c) \in 0..MaxFence
    OBVIOUS
  <2>1. request[c] \in Request \cup {NoRequest}
    BY DEF TypeOK
  <2> QED BY <2>1, Fields DEF Fence
<1>3. avail \in Seq(Chain) /\ used \in Seq(Chain)
  BY DEF TypeOK
<1> QED BY <1>1, <1>2, <1>3, Ring DEF TypeOK

(* A served command completes its own fence or none.                        *)
LEMMA CountedServed ==
    ASSUME TypeOK, Places, Counted, NEW c \in Chain, Serve(c)
    PROVE  /\ Counted'
           /\ completedFence' = completedFence
              \/ (Fence(c) > completedFence /\ completedFence' = Fence(c))
           /\ \A a \in Elements(avail') : Fence(c) # 0 /\ Fence(a) # 0 => Fence(c) < Fence(a)
<1>1. /\ c \in Elements(avail) /\ c = avail[1]
      /\ Elements(avail') = Elements(avail) \ {c}
      /\ Elements(used') = Elements(used) \cup {c}
      /\ Len(avail) \in Nat /\ Len(avail) >= 1 /\ Len(avail') = Len(avail) - 1
      /\ \A n \in 1..Len(avail') : n + 1 \in 1..Len(avail) /\ avail'[n] = avail[n + 1]
      /\ UNCHANGED <<request, lastFence, inherited>>
  BY Moved
<1>2. \A d : Fence(d)' = Fence(d)
  BY <1>1 DEF Fence
<1>3. Fence(c) \in Nat /\ completedFence \in Nat /\ inherited \in Nat /\ lastFence \in Nat
  BY Numbers
<1>4. completedFence' = completedFence \/ (Fence(c) > completedFence /\ completedFence' = Fence(c))
  <2>1. \/ completedFence' = completedFence
        \/ InOrder(Fence(c)) /\ completedFence' = Completed(Fence(c))
    BY Served DEF Fence
  <2> QED BY <2>1 DEF InOrder, Completed
<1>5. \A a \in Elements(avail) \ {c} : Fence(c) # 0 /\ Fence(a) # 0 => Fence(c) < Fence(a)
  <2> SUFFICES ASSUME NEW a \in Elements(avail), a # c, Fence(c) # 0, Fence(a) # 0
               PROVE  Fence(c) < Fence(a)
    OBVIOUS
  <2>1. PICK n \in 1..Len(avail) : avail[n] = a
    BY Ring DEF TypeOK
  <2>2. 1 \in 1..Len(avail) /\ 1 < n
    BY <1>1, <2>1
  <2> QED BY <1>1, <2>1, <2>2 DEF Counted, Rising
<1>6. \A d \in Elements(avail') \cup Elements(used') : Fence(d)' <= lastFence'
  BY <1>1, <1>2 DEF Counted
<1>7. Rising(avail)'
  <2> SUFFICES ASSUME NEW m \in 1..Len(avail'), NEW n \in 1..Len(avail'), m < n,
                      Fence(avail'[m]) # 0, Fence(avail'[n]) # 0
               PROVE  Fence(avail'[m]) < Fence(avail'[n])
    BY <1>2 DEF Rising
  <2>1. m + 1 < n + 1
    BY <1>1
  <2> QED BY <1>1, <2>1 DEF Counted, Rising
<1>8. \A u \in Elements(used'), a \in Elements(avail') :
          Fence(u)' # 0 /\ Fence(a)' # 0 => Fence(u)' < Fence(a)'
  BY <1>1, <1>2, <1>5 DEF Counted
<1>9. /\ inherited' <= completedFence'
      /\ completedFence' <= inherited' \/ completedFence' <= lastFence'
  <2>1. Fence(c) <= lastFence /\ inherited <= completedFence
        /\ (completedFence <= inherited \/ completedFence <= lastFence)
    BY <1>1 DEF Counted
  <2> QED BY <1>1, <1>3, <1>4, <2>1
<1>10. \A a \in Elements(avail') : Fence(a)' > inherited' => Fence(a)' > completedFence'
  <2> SUFFICES ASSUME NEW a \in Elements(avail) \ {c}, Fence(a) > inherited
               PROVE  Fence(a) > completedFence'
    BY <1>1, <1>2
  <2>1. Fence(a) \in Nat /\ Fence(a) > completedFence /\ Fence(a) # 0
    BY <1>3, Numbers DEF Counted
  <2>2. Fence(c) # 0 => Fence(c) < Fence(a)
    BY <1>5, <2>1
  <2> QED BY <1>3, <1>4, <2>1, <2>2
<1> QED BY <1>1, <1>4, <1>5, <1>6, <1>7, <1>8, <1>9, <1>10 DEF Counted

(* Served commands are answered truthfully.                                 *)
LEMMA AnswersServed ==
    ASSUME TypeOK, Places, Counted, Answers, NEW c \in Chain, Serve(c)
    PROVE  Answers'
<1>1. /\ c \in Elements(avail) /\ Elements(used') = Elements(used) \cup {c}
      /\ UNCHANGED <<request, inherited, onFrame>>
  BY Moved
<1>2. c \notin Elements(used) /\ c \notin Handed
  BY <1>1 DEF Places
<1>3. PICK reply \in Reply :
          /\ Answer(c, reply)
          /\ Handed' = IF onFrame /\ request[c].op = "FLUSH" /\ reply = "OK"
                       THEN Handed \cup {c} ELSE Handed
          /\ \/ /\ completedFence' = completedFence
                /\ request[c].op \in Fenced => reply # "OK"
                /\ request[c].op \in Fenced /\ reply = "PARAMETER" => ~InOrder(Fence(c))
             \/ /\ request[c].op \in Fenced /\ reply = "OK"
                /\ InOrder(Fence(c))
                /\ completedFence' = Completed(Fence(c))
  BY Served DEF Fence
<1>4. response'[c] = reply /\ \A d \in Chain \ {c} : response'[d] = response[d]
  BY <1>3 DEF Answer, TypeOK
<1>5. \A d \in Elements(used) : d \in Chain \ {c} /\ response'[d] = response[d]
  BY <1>2, <1>4, Numbers
<1>6. /\ Fence(c) \in Nat /\ completedFence \in Nat /\ inherited \in Nat
      /\ Fence(c) > inherited => Fence(c) > completedFence
  BY <1>1, Numbers DEF Counted
<1>7. FramesAnswered'
  <2>1. \A d \in Elements(used) :
            d \in Handed' <=> onFrame /\ request'[d].op = "FLUSH" /\ response'[d] = "OK"
    <3>1. \A d \in Elements(used) : d \in Handed' <=> d \in Handed
      BY <1>3, <1>5
    <3> QED BY <1>1, <1>5, <3>1 DEF Answers, FramesAnswered, Handed
  <2>2. c \in Handed' <=> onFrame /\ request'[c].op = "FLUSH" /\ response'[c] = "OK"
    BY <1>1, <1>2, <1>3, <1>4
  <2> QED BY <1>1, <2>1, <2>2 DEF FramesAnswered, Handed
<1>8. FenceHonest'
  <2>1. ASSUME request[c].op \in Fenced, Fence(c) > inherited
        PROVE  /\ response'[c] # "PARAMETER"
               /\ response'[c] = "OK" => Fence(c) <= completedFence'
               /\ response'[c] # "OK" => completedFence' # Fence(c)
    <3>1. Fence(c) > completedFence /\ Fence(c) # 0
      BY <1>6, <2>1
    <3> QED BY <1>3, <1>4, <1>6, <2>1, <3>1 DEF InOrder, Completed
  <2>2. ASSUME NEW u \in Elements(used), request[u].op \in Fenced, Fence(u) > inherited
        PROVE  /\ response'[u] # "PARAMETER"
               /\ response'[u] = "OK" => Fence(u) <= completedFence'
               /\ response'[u] # "OK" => completedFence' # Fence(u)
    <3>1. /\ response[u] # "PARAMETER"
          /\ response[u] = "OK" => Fence(u) <= completedFence
          /\ response[u] # "OK" => completedFence # Fence(u)
      BY <2>2 DEF Answers, FenceHonest, Fence
    <3>2. Fence(u) \in Nat /\ Fence(u) # 0
      BY <1>6, <2>2, Numbers
    <3>3. Fence(c) # 0 => Fence(u) < Fence(c)
      BY <1>1, <3>2 DEF Counted
    <3>4. \/ completedFence' = completedFence
          \/ (Fence(c) > completedFence /\ completedFence' = Fence(c))
      BY CountedServed
    <3>5. \/ completedFence' = completedFence
          \/ (Fence(u) <= completedFence' /\ completedFence' # Fence(u))
      BY <1>6, <3>2, <3>3, <3>4
    <3> QED BY <1>5, <3>1, <3>5
  <2> QED BY <1>1, <2>1, <2>2 DEF FenceHonest, Fence
<1> QED BY <1>7, <1>8 DEF Answers

(* The driver takes a used entry.                                           *)
LEMMA ReapKeeps ==
    ASSUME TypeOK, Places, Counted, Answers, Reap
    PROVE  Places' /\ Counted' /\ Answers'
<1>1. PICK c \in Elements(used) :
          /\ c \in Chain /\ used' \in Seq(Chain) /\ avail' = avail
          /\ Elements(used') = Elements(used) \ {c} /\ Distinct(used')
          /\ free' = free \cup {c} /\ Handed' = Handed \ {c}
          /\ \A d \in Chain \ {c} : request'[d] = request[d] /\ response'[d] = response[d]
          /\ UNCHANGED <<lastFence, completedFence, inherited, onFrame>>
  BY Reaped
<1>2. Elements(avail) \subseteq Chain \ {c} /\ Elements(used') \subseteq Chain \ {c}
  BY <1>1, Numbers DEF Places
<1>3. \A d \in Chain \ {c} : Fence(d)' = Fence(d)
  BY <1>1 DEF Fence
<1>4. Places'
  BY <1>1, <1>2 DEF Places
<1>5. Rising(avail)'
  <2>1. \A n \in 1..Len(avail) : avail[n] \in Chain \ {c}
    BY <1>2, Ring DEF TypeOK
  <2> QED BY <1>1, <1>3, <2>1 DEF Counted, Rising
<1>6. Counted'
  BY <1>1, <1>2, <1>3, <1>5 DEF Counted
<1>7. Answers'
  <2>1. \A d \in Elements(used') : d \in Elements(used) /\ d # c
                                   /\ request'[d] = request[d] /\ response'[d] = response[d]
    BY <1>1, <1>2
  <2> QED BY <1>1, <2>1 DEF Answers, FenceHonest, FramesAnswered, Handed
<1> QED BY <1>4, <1>6, <1>7

(* The driver offers a chain with the next fence, or none.                  *)
LEMMA OfferKeeps ==
    ASSUME TypeOK, Places, Counted, Answers, NEW c \in Chain, NEW r \in Request, Offer(c, r)
    PROVE  Places' /\ Counted' /\ Answers'
<1>1. /\ c \in free /\ c \notin Elements(avail) /\ c \notin Elements(used)
      /\ avail' = Append(avail, c) /\ avail' \in Seq(Chain)
      /\ Elements(avail') = Elements(avail) \cup {c} /\ Distinct(avail')
      /\ free' = free \ {c} /\ request'[c] = r
      /\ \A d \in Chain \ {c} : request'[d] = request[d]
      /\ r.fence \in {0, lastFence + 1}
      /\ lastFence' = IF r.fence = 0 THEN lastFence ELSE r.fence
      /\ UNCHANGED <<used, response, Handed, completedFence, inherited, onFrame>>
  BY Offered
<1>2. /\ \A d \in Elements(avail) \cup Elements(used) : d \in Chain \ {c} /\ Fence(d) \in Nat
      /\ lastFence \in Nat /\ completedFence \in Nat /\ inherited \in Nat
  BY <1>1, Numbers
<1>3. \A d \in Chain \ {c} : Fence(d)' = Fence(d)
  BY <1>1 DEF Fence
<1>4. Fence(c)' \in {0, lastFence + 1} /\ Fence(c)' <= lastFence' /\ lastFence' >= lastFence
  <2>1. Fence(c)' = r.fence
    BY <1>1 DEF Fence
  <2> QED BY <1>1, <1>2, <2>1
<1>5. \A d \in Elements(avail) \cup Elements(used) : Fence(d) <= lastFence
  BY DEF Counted
<1>6. \A d \in Elements(avail) \cup Elements(used) : Fence(c)' # 0 => Fence(d)' < Fence(c)'
  BY <1>2, <1>3, <1>4, <1>5
<1>7. Places'
  BY <1>1 DEF Places
<1>8. Rising(avail)'
  <2>1. /\ Len(avail) \in Nat /\ avail'[Len(avail) + 1] = c
        /\ \A n \in 1..Len(avail) : avail'[n] = avail[n] /\ avail[n] \in Elements(avail)
        /\ \A n \in 1..Len(avail') : n \in 1..Len(avail) \/ n = Len(avail) + 1
    BY <1>1, Pushed, Ring DEF TypeOK
  <2> DEFINE F(d) == request'[d].fence
  <2>2. /\ \A d \in Elements(avail) : F(d) = Fence(d)
        /\ \A d \in Elements(avail) : F(c) # 0 => F(d) < F(c)
    BY <1>2, <1>3, <1>6 DEF Fence
  <2> SUFFICES ASSUME NEW m \in 1..Len(avail'), NEW n \in 1..Len(avail'), m < n,
                      F(avail'[m]) # 0, F(avail'[n]) # 0
               PROVE  F(avail'[m]) < F(avail'[n])
    BY DEF Rising, Fence
  <2> HIDE DEF F
  <2>3. m \in 1..Len(avail)
    BY <2>1
  <2>4. CASE n \in 1..Len(avail)
    <3>1. F(avail'[m]) = Fence(avail[m]) /\ F(avail'[n]) = Fence(avail[n])
      BY <2>1, <2>2, <2>3, <2>4
    <3> QED BY <2>3, <2>4, <3>1 DEF Counted, Rising
  <2>5. CASE n = Len(avail) + 1
    BY <2>1, <2>2, <2>3, <2>5
  <2> QED BY <2>1, <2>4, <2>5
<1>9. Counted'
  <2>1. \A d \in Elements(avail') \cup Elements(used') : Fence(d)' <= lastFence'
    <3>1. ASSUME NEW d \in Elements(avail) \cup Elements(used) PROVE Fence(d)' <= lastFence'
      BY <1>1, <1>2, <1>3, <1>4, <1>5
    <3> QED BY <1>1, <1>4, <3>1
  <2>2. \A u \in Elements(used'), a \in Elements(avail') :
            Fence(u)' # 0 /\ Fence(a)' # 0 => Fence(u)' < Fence(a)'
    <3>1. ASSUME NEW u \in Elements(used), NEW a \in Elements(avail),
                 Fence(u)' # 0, Fence(a)' # 0
          PROVE  Fence(u)' < Fence(a)'
      BY <1>2, <1>3, <3>1 DEF Counted
    <3> QED BY <1>1, <1>6, <3>1
  <2>3. /\ inherited' <= completedFence'
        /\ completedFence' <= inherited' \/ completedFence' <= lastFence'
    BY <1>1, <1>2, <1>4 DEF Counted
  <2>4. \A a \in Elements(avail') : Fence(a)' > inherited' => Fence(a)' > completedFence'
    <3>1. ASSUME NEW a \in Elements(avail), Fence(a)' > inherited'
          PROVE  Fence(a)' > completedFence'
      BY <1>1, <1>2, <1>3, <3>1 DEF Counted
    <3>2. Fence(c)' > inherited' => Fence(c)' > completedFence'
      BY <1>1, <1>2, <1>4 DEF Counted
    <3> QED BY <1>1, <3>1, <3>2
  <2> QED BY <1>8, <2>1, <2>2, <2>3, <2>4 DEF Counted
<1>10. Answers'
  <2>1. \A d \in Elements(used) : request'[d] = request[d]
    BY <1>1, <1>2
  <2> QED BY <1>1, <2>1 DEF Answers, FenceHonest, FramesAnswered, Handed
<1> QED BY <1>7, <1>9, <1>10

(* A reset empties the rings and remembers the completed fence.             *)
LEMMA ResetKeeps ==
    ASSUME TypeOK, Reset
    PROVE  Places' /\ Counted' /\ Answers'
<1>1. /\ avail' = <<>> /\ used' = <<>> /\ Handed' = {}
      /\ inherited' = completedFence /\ completedFence' = completedFence
  BY DEF Reset, Handed
<1>2. /\ Elements(avail') = {} /\ Elements(used') = {} /\ Distinct(avail)'
      /\ Distinct(used)' /\ Rising(avail)'
  <2>1. Len(avail') = 0
    BY <1>1
  <2> QED BY <1>1, <2>1, EmptyRing DEF Distinct, Rising
<1>3. completedFence \in Nat
  BY Numbers
<1> QED BY <1>1, <1>2, <1>3 DEF Places, Counted, Answers, FenceHonest, FramesAnswered

(* A loop that throws loses the chain it has popped: the rest of the ring   *)
(* still counts up.                                                        *)
LEMMA ThrowKeeps ==
    ASSUME TypeOK, Places, Counted, Answers, NEW c \in Chain, LoopThrows(c)
    PROVE  Places' /\ Counted' /\ Answers'
<1>1. /\ avail # <<>> /\ avail' = Tail(avail)
      /\ UNCHANGED <<free, request, lastFence, response, used, onFrame, completedFence>>
      /\ UNCHANGED <<framed, frameThrew, inherited>>
  BY DEF LoopThrows, Serving, gpuVars, frameVars
<1>2. /\ Elements(avail') \subseteq Elements(avail) /\ Distinct(avail')
      /\ Len(avail) \in Nat /\ Len(avail) >= 1 /\ Len(avail') = Len(avail) - 1
      /\ \A n \in 1..Len(avail') : n + 1 \in 1..Len(avail) /\ avail'[n] = avail[n + 1]
  BY <1>1, Popped, Ring DEF TypeOK, Places
<1>3. \A d : Fence(d)' = Fence(d)
  BY <1>1 DEF Fence
<1>4. Places'
  BY <1>1, <1>2 DEF Places, Handed, Distinct
<1>5. Rising(avail)'
  <2> SUFFICES ASSUME NEW m \in 1..Len(avail'), NEW n \in 1..Len(avail'), m < n,
                      Fence(avail'[m]) # 0, Fence(avail'[n]) # 0
               PROVE  Fence(avail'[m]) < Fence(avail'[n])
    BY <1>3 DEF Rising
  <2>1. m + 1 < n + 1
    BY <1>2
  <2> QED BY <1>2, <2>1 DEF Counted, Rising
<1>6. Counted'
  BY <1>1, <1>2, <1>3, <1>5 DEF Counted
<1>7. Answers'
  BY <1>1 DEF Answers, FenceHonest, FramesAnswered
<1> QED BY <1>4, <1>6, <1>7

(* Steps that leave rings, fences and frames alone.                         *)
LEMMA SameKeeps ==
    ASSUME Places, Counted, Answers,
           UNCHANGED <<driverVars, response, used, onFrame, completedFence, frameVars, inherited>>
           \/ OnQueueNotify
    PROVE  Places' /\ Counted' /\ Answers'
<1>1. UNCHANGED <<free, request, avail, lastFence,
                  response, used, onFrame, completedFence, framed, frameThrew, inherited>>
  BY DEF OnQueueNotify, driverVars, gpuVars, historyVars, frameVars
<1>2. Distinct(avail)' /\ Distinct(used)' /\ Rising(avail)' /\ \A d : Fence(d)' = Fence(d)
  BY <1>1 DEF Places, Counted, Distinct, Rising, Fence
<1> QED BY <1>1, <1>2 DEF Places, Counted, Answers, FenceHonest, FramesAnswered, Handed

(* The initial state satisfies the invariant.                               *)
LEMMA IInvInit == Init => IInv
<1> SUFFICES ASSUME Init PROVE IInv
  OBVIOUS
<1>1. avail = <<>> /\ used = <<>> /\ Handed = {} /\ inherited = 0 /\ completedFence = 0
  BY DEF Init, Handed
<1>2. /\ Elements(avail) = {} /\ Elements(used) = {} /\ Distinct(avail)
      /\ Distinct(used) /\ Rising(avail)
  BY <1>1, EmptyRing
<1> QED BY <1>1, <1>2, TypeInit DEF IInv, Places, Counted, Answers, FenceHonest, FramesAnswered

(* Every step preserves the invariant.                                      *)
LEMMA IInvStep == TypeOK' /\ IInv /\ [Next]_vars => IInv'
<1> SUFFICES ASSUME TypeOK', IInv, [Next]_vars PROVE Places' /\ Counted' /\ Answers'
  BY DEF IInv
<1> USE DEF IInv
<1>1. ASSUME NEW c \in Chain, Serve(c) PROVE Places' /\ Counted' /\ Answers'
  BY <1>1, PlacesServed, CountedServed, AnswersServed
<1>2. CASE Reset
  BY <1>2, ResetKeeps
<1>3. CASE Reap
  BY <1>3, ReapKeeps
<1>4. ASSUME NEW c \in Chain, NEW r \in Request, Offer(c, r) PROVE Places' /\ Counted' /\ Answers'
  BY <1>4, OfferKeeps
<1>5. CASE OnQueueNotify
  BY <1>5, SameKeeps
<1>6. CASE LoopEnds
  BY <1>6, SameKeeps DEF LoopEnds, gpuVars, historyVars
<1>9. ASSUME NEW c \in Chain, LoopThrows(c) PROVE Places' /\ Counted' /\ Answers'
  BY <1>9, ThrowKeeps
<1>7. CASE Setup
  BY <1>7, SameKeeps DEF Setup, gpuVars, historyVars
<1>8. CASE UNCHANGED vars
  BY <1>8, SameKeeps DEF vars, gpuVars, historyVars
<1> QED BY <1>1, <1>2, <1>3, <1>4, <1>5, <1>6, <1>7, <1>8, <1>9 DEF Next, Loop

(* The invariant holds in every reachable state.                            *)
LEMMA IInvAlways == Spec => []IInv
<1>1. Init => IInv
  BY IInvInit
<1>2. IInv /\ TypeOK' /\ [Next]_vars => IInv'
  BY IInvStep
<1> QED BY <1>1, <1>2, TypeCorrect, PTL DEF Spec

(* A used entry tells the truth about its fence (completeFence of           *)
(* resource_registry.js and its callers): a command above the fences of     *)
(* earlier lives is never refused for its order, a done one has its fence   *)
(* completed, a refused one has not, for any number of chains and fences.   *)
THEOREM FenceHonestCorrect == Spec => []FenceHonest
<1>1. IInv => FenceHonest
  BY DEF IInv, Answers
<1> QED BY <1>1, IInvAlways, PTL

(* A device with an onFrame hands it a frame for exactly the flushes it     *)
(* answers OK, and one without presents nothing (virtio_gpu.js:128-130), in *)
(* every reachable state.                                                   *)
THEOREM FramesAnsweredCorrect == Spec => []FramesAnswered
<1>1. IInv => FramesAnswered
  BY DEF IInv, Answers
<1> QED BY <1>1, IInvAlways, PTL

=============================================================================

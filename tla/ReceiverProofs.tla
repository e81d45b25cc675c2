--------------------------- MODULE ReceiverProofs -----------------------------
(***************************************************************************)
(* A receiving instance: OwnDataInv holds under the steps of the           *)
(* environment, of the two threads and of the device; the ranks of an      *)
(* instance stay in step; and the composed instance implements both of its *)
(* parts: every step of it is a step or a stutter of the threads of rank   *)
(* 0, and a step or a stutter of the loops of the ranks.  What is proved   *)
(* of the parts therefore holds of the instance, for every set of requests *)
(* and slots, every size of the queue and every number of ranks.           *)
(***************************************************************************)
EXTENDS ReceiverInstance, SequenceTheorems, TLAPS

(* Appending to a sequence adds one member.                                *)
LEMMA InAppend ==
  ASSUME NEW S, NEW s \in Seq(S), NEW x \in S
  PROVE  /\ Append(s, x) \in Seq(S)
         /\ \A y : In(Append(s, x), y) <=> In(s, y) \/ y = x
         /\ Distinct(s) /\ ~In(s, x) => Distinct(Append(s, x))
<1> DEFINE t == Append(s, x)
<1>1. /\ t \in Seq(S) /\ Len(s) \in Nat /\ Len(t) = Len(s) + 1
      /\ t[Len(s) + 1] = x /\ \A i \in 1 .. Len(s) : t[i] = s[i]
      /\ DOMAIN t = 1 .. Len(t) /\ DOMAIN s = 1 .. Len(s)
  BY AppendProperties, LenProperties
<1> HIDE DEF t
<1>2. \A i \in DOMAIN t : (i \in DOMAIN s /\ t[i] = s[i]) \/ (i = Len(s) + 1 /\ t[i] = x)
  <2>1. \A i \in DOMAIN t : i \in DOMAIN s \/ i = Len(s) + 1
    BY <1>1
  <2> QED
    BY <1>1, <2>1, Zenon
<1>3. \A i \in DOMAIN s : i \in DOMAIN t /\ t[i] = s[i]
  BY <1>1
<1>4. Len(s) + 1 \in DOMAIN t
  BY <1>1
<1>5. \A y : In(t, y) <=> In(s, y) \/ y = x
  BY Zenon, <1>1, <1>2, <1>3, <1>4 DEF In
<1>6. Distinct(s) /\ ~In(s, x) => Distinct(t)
  BY Zenon, <1>2 DEF In, Distinct
<1> QED
  BY Zenon, <1>1, <1>5, <1>6 DEF t

(* Taking the head off a sequence removes at most that member.             *)
LEMMA InTail ==
  ASSUME NEW S, NEW s \in Seq(S), s # <<>>
  PROVE  /\ Head(s) \in S /\ Tail(s) \in Seq(S)
         /\ \A y : In(s, y) <=> In(Tail(s), y) \/ y = Head(s)
         /\ Distinct(s) => Distinct(Tail(s)) /\ ~In(Tail(s), Head(s))
<1> DEFINE t == Tail(s)
           h == Head(s)
<1>1. /\ h \in S /\ h = s[1] /\ t \in Seq(S) /\ Len(s) \in Nat /\ Len(s) >= 1
      /\ Len(t) = Len(s) - 1 /\ \A i \in 1 .. Len(t) : t[i] = s[i + 1]
      /\ DOMAIN t = 1 .. Len(t) /\ DOMAIN s = 1 .. Len(s)
  BY HeadTailProperties, LenProperties, EmptySeq
<1> HIDE DEF t, h
<1>2. \A i \in DOMAIN t : i + 1 \in DOMAIN s /\ t[i] = s[i + 1] /\ i + 1 # 1
  BY <1>1
<1>3. \A i \in DOMAIN s : (i = 1 /\ s[i] = h) \/ \E j \in DOMAIN t : s[i] = t[j]
  <2> SUFFICES ASSUME NEW i \in DOMAIN s, i # 1 PROVE \E j \in DOMAIN t : s[i] = t[j]
    BY Zenon, <1>1
  <2>1. i - 1 \in DOMAIN t /\ (i - 1) + 1 = i
    BY <1>1
  <2> QED
    BY Zenon, <1>1, <2>1
<1>4. 1 \in DOMAIN s
  BY <1>1
<1>5. \A y : In(s, y) <=> In(t, y) \/ y = h
  <2>1. \A y : In(t, y) => In(s, y)
    BY <1>2, Zenon DEF In
  <2>2. In(s, h)
    BY <1>1, <1>4, Zenon DEF In
  <2>3. \A y : In(s, y) => In(t, y) \/ y = h
    BY <1>3, Zenon DEF In
  <2> QED
    BY Zenon, <2>1, <2>2, <2>3
<1>6. ASSUME Distinct(s) PROVE Distinct(t) /\ ~In(t, h)
  <2>1. \A i, j \in DOMAIN t : t[i] = t[j] => i + 1 = j + 1
    BY Zenon, <1>2, <1>6 DEF Distinct
  <2>2. \A i, j \in DOMAIN t : i + 1 = j + 1 => i = j
    BY <1>1
  <2>3. ~In(t, h)
    BY Zenon, <1>1, <1>2, <1>4, <1>6 DEF In, Distinct
  <2> QED
    BY Zenon, <2>1, <2>2, <2>3 DEF Distinct
<1> QED
  BY Zenon, <1>1, <1>5, <1>6 DEF t, h

(* Members of a sequence of one element, and of the empty one.             *)
LEMMA InOne == \A x, y : In(<<x>>, y) <=> x = y
BY DEF In

(* Nothing is in an empty queue.                                           *)
LEMMA InNone == \A y : ~In(<<>>, y)
BY DEF In

(* The constructors of messages build records of the type Message, and no  *)
(* two kinds of message are equal.                                         *)
LEMMA Messages ==
  /\ \A r \in Requests : Alloc(r) \in Message /\ Ready(r) \in Message
  /\ \A r, q \in Requests : /\ Alloc(r) # Ready(q)
                            /\ Alloc(r) = Alloc(q) => r = q
                            /\ Ready(r) = Ready(q) => r = q
  /\ \A m \in Message : /\ m.id \in Requests
                        /\ m.type = "ALLOC" => m = Alloc(m.id)
                        /\ m.type = "READY" => m = Ready(m.id)
                        /\ m.type \in {"ALLOC", "READY"}
BY DEF Message, Alloc, Ready

(* Where no message moves and the main thread does not, everybody stays    *)
(* where they are.                                                         *)
LEMMA NobodyMoves ==
  ASSUME UNCHANGED <<inbox, holding, queue, running, step>>
  PROVE  \A r \in Requests : /\ (InInbox(r)' <=> InInbox(r)) /\ (Queued(r)' <=> Queued(r))
                             /\ (Runs(r)' <=> Runs(r)) /\ (Arrived(r)' <=> Arrived(r))
BY Zenon DEF InInbox, Queued, Runs, Arrived, In

(* Outputs stay apart from incoming data when no output moves, no block of *)
(* one is freed, and no request is given a block that holds one.           *)
LEMMA OutputsStay ==
  ASSUME OwnDataInv, UNCHANGED <<staged, push>>,
         \A r \in Requests : staged[r] # NoSlot => staged[r] \in allocated',
         \A r \in Requests : status[r] = "done" => status'[r] = "done",
         \A q \in Requests : Uses(q)' /\ ~Runs(q)' =>
           \/ Uses(q) /\ ~Runs(q) /\ target'[q] = target[q]
           \/ \A r \in Requests : staged[r] # NoSlot => target'[q] # staged[r]
  PROVE  OutputsApart'
BY Zenon DEF OwnDataInv, OutputsApart

(* A step that moves messages between the threads and changes nothing else *)
LEMMA MessagesMove ==
  ASSUME OwnDataInv,
         UNCHANGED <<status, target, freePre, mem, allocated, receives, staged, push, running,
                     step, stage, copies, kernels, tensors, inputs>>,
         Types', OnePlace',
         \A q \in Requests : InInbox(q)' <=> InInbox(q),
         \A q \in Requests : Queued(q)' <=> Queued(q)
  PROVE  OwnDataInv'
<1> USE DEF OwnDataInv
<1>1. \A q \in Requests : (Runs(q)' <=> Runs(q)) /\ (Arrived(q)' <=> Arrived(q))
                          /\ (Uses(q)' <=> Uses(q))
  BY Zenon DEF Runs, Arrived, Uses
<1>2. /\ \A q \in Requests : LoadDone(q)' <=> LoadDone(q)
      /\ \A q : In(kernels, q)' <=> In(kernels, q)
      /\ StagingDone' <=> StagingDone
  BY Zenon DEF LoadDone, In, StagingDone
<1>3. SlotsHeld'
  BY Zenon, <1>1 DEF SlotsHeld
<1>31. OutputsApart'
  BY Zenon, <1>1 DEF OutputsApart
<1>4. DataKept'
  BY Zenon, <1>1, <1>2 DEF DataKept
<1>5. StreamsOrdered'
  BY Zenon, <1>1 DEF StreamsOrdered
<1>6. ComputedOnce'
  BY Zenon, <1>1, <1>2 DEF ComputedOnce
<1>7. ComputedOnOwnData'
  BY Zenon DEF ComputedOnOwnData
<1> QED
  BY Zenon, <1>3, <1>31, <1>4, <1>5, <1>6, <1>7

(* Appending to the transfer stream                                        *)
LEMMA CopyAppended ==
  ASSUME Types, NEW c \in CopyOp, copies' = Append(copies, c)
  PROVE  /\ copies' \in Seq(CopyOp)
         /\ \A q \in Requests : LoadDone(q)' <=> LoadDone(q) /\ ~(c.op = "load" /\ c.id = q)
         /\ \A k \in DOMAIN copies' :
              (k \in DOMAIN copies /\ copies'[k] = copies[k]) \/
              (k = Len(copies) + 1 /\ copies'[k] = c)
         /\ \A k \in DOMAIN copies : k \in Nat /\ k < Len(copies) + 1
         /\ \A k \in DOMAIN copies : k \in DOMAIN copies' /\ copies'[k] = copies[k]
         /\ Len(copies) + 1 \in DOMAIN copies' /\ copies'[Len(copies) + 1] = c
<1>1. /\ copies' \in Seq(CopyOp) /\ Len(copies) \in Nat /\ Len(copies') = Len(copies) + 1
      /\ copies'[Len(copies) + 1] = c
      /\ \A k \in 1 .. Len(copies) : copies'[k] = copies[k]
      /\ DOMAIN copies' = 1 .. Len(copies') /\ DOMAIN copies = 1 .. Len(copies)
  BY AppendProperties, LenProperties DEF Types
<1>2. \A k \in DOMAIN copies' : k \in DOMAIN copies \/ k = Len(copies) + 1
  BY <1>1
<1>3. \A k \in DOMAIN copies : k \in DOMAIN copies' /\ copies'[k] = copies[k]
  BY <1>1
<1>4. Len(copies) + 1 \in DOMAIN copies'
  BY <1>1
<1>5. \A k \in DOMAIN copies' :
         (k \in DOMAIN copies /\ copies'[k] = copies[k]) \/
         (k = Len(copies) + 1 /\ copies'[k] = c)
  BY <1>1, <1>2, <1>3, Zenon
<1>6. \A q \in Requests : LoadDone(q)' <=> LoadDone(q) /\ ~(c.op = "load" /\ c.id = q)
  BY <1>1, <1>3, <1>4, <1>5, Zenon DEF LoadDone
<1>7. \A k \in DOMAIN copies : k \in Nat /\ k < Len(copies) + 1
  BY <1>1
<1> QED
  BY Zenon, <1>1, <1>3, <1>4, <1>5, <1>6, <1>7

(* The environment writes data into a preallocated slot and announces it.  *)
LEMMA OfferPreallocStep ==
  ASSUME OwnDataInv, NEW r \in Requests, OfferPrealloc(r)
  PROVE  OwnDataInv'
<1> USE DEF OwnDataInv
<1> PICK s \in freePre :
      /\ status[r] = "new" /\ status' = [status EXCEPT ![r] = "offered"]
      /\ target' = [target EXCEPT ![r] = s] /\ freePre' = freePre \ {s}
  BY Zenon DEF OfferPrealloc
<1>1. UNCHANGED <<inbox, holding, queue, running, step, mem, allocated, receives, staged,
                  push, stage, copies, kernels, tensors, inputs>>
  BY Zenon DEF OfferPrealloc, output, main, device
<1>2. s \in PreSlots /\ s \in Slots /\ s \notin PoolSlots
  BY Zenon, ReceiverAssumption DEF SlotsHeld, Slots
<1>3. /\ status'[r] = "offered" /\ target'[r] = s
      /\ \A q \in Requests : q # r => status'[q] = status[q] /\ target'[q] = target[q]
  BY Zenon DEF Types
<1>4. /\ \A q \in Requests : LoadDone(q)' = LoadDone(q)
      /\ \A m : In(inbox, m)' = In(inbox, m) /\ In(holding, m)' = In(holding, m)
               /\ In(queue, m)' = In(queue, m)
      /\ \A q : In(kernels, q)' = In(kernels, q)
      /\ StagingDone' = StagingDone
  BY Zenon, <1>1 DEF LoadDone, In, StagingDone
<1>5. /\ ~Arrived(r) /\ ~Runs(r) /\ ~InInbox(r) /\ ~Queued(r) /\ ~Uses(r)
  BY Zenon DEF OnePlace, Arrived, Uses
<1>6. \A q \in Requests : /\ (InInbox(q)' <=> InInbox(q)) /\ (Queued(q)' <=> Queued(q))
                          /\ (Runs(q)' <=> Runs(q)) /\ (Arrived(q)' <=> Arrived(q))
  BY Zenon, <1>1, NobodyMoves
<1>7. \A q \in Requests : Uses(q)' <=> Uses(q) \/ q = r
  BY Zenon, <1>3, <1>6 DEF Uses
<1>8. Types'
  BY Zenon, <1>1, <1>2 DEF Types, Statuses
<1>9. OnePlace'
  BY <1>1, <1>3, <1>4, <1>5, <1>6, Zenon DEF OnePlace
<1>10. SlotsHeld'
  BY <1>1, <1>2, <1>3, <1>5, <1>6, <1>7 DEF SlotsHeld
<1>101. OutputsApart'
  <2>1. \A q \in Requests : staged[q] # NoSlot => staged[q] \in allocated' /\ staged[q] # s
    BY Zenon, <1>1, <1>2 DEF OutputsApart, Types
  <2>2. \A q \in Requests : status[q] = "done" => status'[q] = "done"
    BY <1>3, Zenon
  <2> QED
    BY Zenon, <1>1, <1>3, <1>6, <1>7, <2>1, <2>2, OutputsStay
<1>11. DataKept'
  BY Zenon, <1>1, <1>3, <1>4, <1>5, <1>6 DEF DataKept
<1>12. StreamsOrdered'
  BY <1>1, <1>2, <1>3, <1>7, SMTT(30) DEF StreamsOrdered, Types, CopyOp
<1>13. ComputedOnce'
  BY Zenon, <1>1, <1>3, <1>4, <1>6 DEF ComputedOnce
<1>14. ComputedOnOwnData'
  BY Zenon, <1>1, <1>3 DEF ComputedOnOwnData
<1> QED
  BY Zenon, <1>8, <1>9, <1>10, <1>101, <1>11, <1>12, <1>13, <1>14

(* The environment asks for a slot.                                        *)
LEMMA AskForSlotStep ==
  ASSUME OwnDataInv, NEW r \in Requests, AskForSlot(r)
  PROVE  OwnDataInv'
<1> USE DEF OwnDataInv
<1>1. /\ UNCHANGED <<target, freePre, holding, queue, running, step, mem, allocated,
                     receives, staged, push, stage, copies, kernels, tensors, inputs>>
      /\ status[r] = "new" /\ status' = [status EXCEPT ![r] = "asked"]
      /\ inbox' = Append(inbox, Alloc(r))
  BY Zenon DEF AskForSlot, output, main, device, Alloc
<1>2. status'[r] = "asked" /\ \A q \in Requests : q # r => status'[q] = status[q]
  BY Zenon, <1>1 DEF Types
<1>3. /\ \A q \in Requests : LoadDone(q)' = LoadDone(q)
      /\ \A m : In(holding, m)' = In(holding, m) /\ In(queue, m)' = In(queue, m)
      /\ \A q : In(kernels, q)' = In(kernels, q)
      /\ StagingDone' = StagingDone
  BY Zenon, <1>1 DEF LoadDone, In, StagingDone
<1>4. ~In(inbox, Alloc(r)) /\ ~In(holding, Alloc(r)) /\ ~In(queue, Alloc(r)) /\ ~Arrived(r)
  BY Zenon, <1>1 DEF OnePlace
<1>5. /\ inbox' \in Seq(Message) /\ Distinct(inbox')
      /\ \A m : In(inbox', m) <=> In(inbox, m) \/ m = Alloc(r)
  BY <1>1, <1>4, InAppend, Messages DEF Types, OnePlace
<1>6. \A q \in Requests : /\ (InInbox(q)' <=> InInbox(q)) /\ (Queued(q)' <=> Queued(q))
                          /\ (Runs(q)' <=> Runs(q)) /\ (Arrived(q)' <=> Arrived(q))
  BY Zenon, <1>1, <1>3, <1>5, Messages DEF InInbox, Queued, Runs, Arrived
<1>7. \A q \in Requests : (Uses(q)' <=> Uses(q))
  BY Zenon, <1>1, <1>2, <1>6 DEF Uses
<1>8. Types'
  BY Zenon, <1>1, <1>5 DEF Types, Statuses
<1>9. OnePlace'
  BY <1>1, <1>2, <1>3, <1>4, <1>5, <1>6, Messages, SMTT(30) DEF OnePlace
<1>10. SlotsHeld'
  BY Zenon, <1>1, <1>6, <1>7 DEF SlotsHeld
<1>101. OutputsApart'
  <2>1. \A q \in Requests : status[q] = "done" => status'[q] = "done"
    BY <1>1, <1>2, Zenon
  <2> QED
    BY Zenon, <1>1, <1>6, <1>7, <2>1 DEF OutputsApart
<1>11. DataKept'
  BY Zenon, <1>1, <1>3, <1>6 DEF DataKept
<1>12. StreamsOrdered'
  BY <1>1, <1>2, <1>7 DEF StreamsOrdered, Types, CopyOp
<1>13. ComputedOnce'
  BY <1>1, <1>2, <1>3, <1>6, Zenon DEF ComputedOnce
<1>14. ComputedOnOwnData'
  BY Zenon, <1>1, <1>2 DEF ComputedOnOwnData
<1> QED
  BY Zenon, <1>8, <1>9, <1>10, <1>101, <1>11, <1>12, <1>13, <1>14

(* The push overwrites a slot that no other request uses.                  *)
LEMMA PushArrivesStep ==
  ASSUME OwnDataInv, NEW r \in Requests, PushArrives(r)
  PROVE  OwnDataInv'
<1> USE DEF OwnDataInv
<1>1. /\ UNCHANGED <<target, freePre, holding, queue, running, step, allocated,
                     receives, staged, push, stage, copies, kernels, tensors, inputs>>
      /\ status[r] = "offered" /\ status' = [status EXCEPT ![r] = "sent"]
      /\ inbox' = Append(inbox, Ready(r)) /\ mem' = [mem EXCEPT ![target[r]] = r]
  BY Zenon DEF PushArrives, output, main, device, Ready
<1>2. status'[r] = "sent" /\ \A q \in Requests : q # r => status'[q] = status[q]
  BY Zenon, <1>1 DEF Types
<1>3. /\ \A q \in Requests : LoadDone(q)' = LoadDone(q)
      /\ \A m : In(holding, m)' = In(holding, m) /\ In(queue, m)' = In(queue, m)
      /\ \A q : In(kernels, q)' = In(kernels, q)
      /\ StagingDone' = StagingDone
  BY Zenon, <1>1 DEF LoadDone, In, StagingDone
<1>4. /\ ~Arrived(r) /\ ~InInbox(r) /\ ~Queued(r) /\ ~Runs(r) /\ Uses(r)
      /\ ~In(inbox, Ready(r)) /\ ~In(holding, Ready(r)) /\ ~In(queue, Ready(r))
  BY Zenon, <1>1 DEF OnePlace, Arrived, Uses, InInbox, Queued
<1>5. /\ inbox' \in Seq(Message) /\ Distinct(inbox')
      /\ \A m : In(inbox', m) <=> In(inbox, m) \/ m = Ready(r)
  BY <1>1, <1>4, InAppend, Messages, SMTT(30) DEF Types, OnePlace
<1>6. \A q \in Requests : /\ InInbox(q)' <=> InInbox(q) \/ q = r
                          /\ (Queued(q)' <=> Queued(q)) /\ (Runs(q)' <=> Runs(q))
                          /\ Arrived(q)' <=> Arrived(q) \/ q = r
  BY Zenon, <1>1, <1>3, <1>5, Messages DEF InInbox, Queued, Runs, Arrived
<1>7. \A q \in Requests : (Uses(q)' <=> Uses(q))
  BY <1>1, <1>2, <1>4, <1>6, SMTT(30) DEF Uses
<1>8. target[r] \in Slots /\ \A q \in Requests : q # r /\ Uses(q) => target[q] # target[r]
  BY Zenon, <1>4 DEF SlotsHeld
<1>9. Types'
  BY Zenon, <1>1, <1>5, <1>8 DEF Types, Statuses
<1>10. OnePlace'
  BY <1>1, <1>2, <1>3, <1>4, <1>5, <1>6, Messages, Zenon DEF OnePlace
<1>11. SlotsHeld'
  BY <1>1, <1>6, <1>7, Zenon DEF SlotsHeld
<1>111. OutputsApart'
  <2>1. \A q \in Requests : status[q] = "done" => status'[q] = "done"
    BY <1>1, <1>2, Zenon
  <2> QED
    BY Zenon, <1>1, <1>6, <1>7, <2>1 DEF OutputsApart
<1>12. DataKept'
  <2> SUFFICES ASSUME NEW q \in Requests, Arrived(q)'
               PROVE  IF InInbox(q)' \/ ~LoadDone(q) THEN mem'[target[q]] = q ELSE tensors[q] = q
    BY Zenon, <1>1, <1>3 DEF DataKept
  <2>1. CASE q = r
    BY <1>1, <1>6, <1>8, <2>1, SMTT(30) DEF Types
  <2>2. CASE q # r
    <3>1. Arrived(q) /\ (InInbox(q)' <=> InInbox(q)) /\ Uses(q)
      BY Zenon, <1>6, <2>2 DEF Uses
    <3>2. target[q] \in Slots /\ target[q] # target[r]
      BY Zenon, <1>8, <2>2, <3>1 DEF SlotsHeld
    <3>3. mem'[target[q]] = mem[target[q]]
      BY Zenon, <1>1, <3>2 DEF Types
    <3> QED
      BY Zenon, <3>1, <3>3 DEF DataKept
  <2> QED
    BY Zenon, <2>1, <2>2
<1>13. StreamsOrdered'
  BY <1>1, <1>2, <1>7, SMTT(30) DEF StreamsOrdered, Types, CopyOp
<1>14. ComputedOnce'
  BY Zenon, <1>1, <1>2, <1>3, <1>6 DEF ComputedOnce
<1>15. ComputedOnOwnData'
  BY Zenon, <1>1, <1>2 DEF ComputedOnOwnData
<1> QED
  BY Zenon, <1>9, <1>10, <1>11, <1>111, <1>12, <1>13, <1>14, <1>15

(* The recv thread takes a READY: it registers the slot and enqueues the   *)
(* load.                                                                   *)
LEMMA RecvReadyStep ==
  ASSUME OwnDataInv, Recv, Head(inbox).type = "READY"
  PROVE  OwnDataInv'
<1> USE DEF OwnDataInv
<1> DEFINE r == Head(inbox).id
           c == [op |-> "load", id |-> r, slot |-> target[r]]
<1>1. /\ Head(inbox) \in Message /\ inbox' \in Seq(Message) /\ Distinct(inbox')
      /\ \A m : In(inbox', m) <=> In(inbox, m) /\ m # Head(inbox)
      /\ In(inbox, Head(inbox))
  <2>1. inbox # <<>> /\ inbox' = Tail(inbox) /\ Distinct(inbox)
    BY Zenon DEF Recv, OnePlace
  <2> QED
    BY Zenon, <2>1, InTail DEF Types
<1>2. r \in Requests /\ Head(inbox) = Ready(r)
  BY Zenon, <1>1, Messages
<1>3. InInbox(r) /\ Uses(r) /\ ~Runs(r) /\ status[r] = "sent"
  BY Zenon, <1>1, <1>2 DEF InInbox, Uses, Arrived, OnePlace
<1>4. target[r] \in Slots /\ (target[r] \notin PreSlots => receives[r] = target[r])
  BY <1>2, <1>3, Zenon DEF SlotsHeld
<1>5. /\ UNCHANGED <<status, target, freePre, mem, queue, kernels, tensors, inputs, running,
                     step, stage, allocated, staged, push>>
      /\ holding = <<>> /\ holding' = <<Ready(r)>>
      /\ receives' = [receives EXCEPT ![r] = target[r]] /\ copies' = Append(copies, c)
  BY Zenon, <1>2, <1>4 DEF Recv, main, output, StartLoad, ReceiveSlot, IsPre, PoolAfterPrefetch
<1>6. c \in CopyOp /\ c.op = "load" /\ c.id = r /\ c.slot = target[r]
  BY <1>2, <1>4, Zenon DEF CopyOp
<1> HIDE DEF r, c
<1>7. /\ copies' \in Seq(CopyOp)
      /\ \A q \in Requests : LoadDone(q)' <=> LoadDone(q) /\ q # r
      /\ \A k \in DOMAIN copies' :
           (k \in DOMAIN copies /\ copies'[k] = copies[k]) \/
           (k = Len(copies) + 1 /\ copies'[k] = c)
      /\ \A k \in DOMAIN copies : k \in Nat /\ k < Len(copies) + 1
  BY ZenonT(60), <1>5, <1>6, CopyAppended
<1>8. /\ \A m : In(queue, m)' <=> In(queue, m)
      /\ \A m : In(holding', m) <=> m = Ready(r)
      /\ \A m : ~In(holding, m)
      /\ \A q : In(kernels, q)' <=> In(kernels, q)
  BY Zenon, <1>5, InOne, InNone DEF In
<1>9. ASSUME NEW q \in Requests
      PROVE  /\ InInbox(q)' <=> InInbox(q) /\ q # r
             /\ Queued(q)' <=> Queued(q) \/ q = r
             /\ Runs(q)' <=> Runs(q)
             /\ Arrived(q)' <=> Arrived(q)
             /\ Uses(q)' <=> Uses(q)
  <2>1. InInbox(q)' <=> InInbox(q) /\ q # r
    BY Zenon, <1>1, <1>2, Messages DEF InInbox
  <2>2. Queued(q)' <=> Queued(q) \/ q = r
    BY Zenon, <1>2, <1>8, Messages DEF Queued
  <2>3. Runs(q)' <=> Runs(q)
    BY Zenon, <1>5 DEF Runs
  <2>4. Arrived(q)' <=> Arrived(q)
    BY Zenon, <1>3, <2>1, <2>2, <2>3 DEF Arrived
  <2>5. Uses(q)' <=> Uses(q)
    BY Zenon, <1>5, <2>4 DEF Uses
  <2> QED
    BY Zenon, <2>1, <2>2, <2>3, <2>4, <2>5
<1>10. Types'
  BY <1>1, <1>2, <1>4, <1>5, <1>7, Messages, Zenon DEF Types
<1>11. OnePlace'
  <2>1. Ready(r) \in Message /\ ~In(inbox', Ready(r)) /\ ~In(queue', Ready(r))
    BY <1>1, <1>2, <1>8, Messages, Zenon DEF OnePlace
  <2>2. \A m \in Message : /\ ~(In(inbox', m) /\ In(holding', m))
                          /\ ~(In(inbox', m) /\ In(queue', m))
                          /\ ~(In(holding', m) /\ In(queue', m))
    BY Zenon, <1>1, <1>8, <2>1 DEF OnePlace
  <2>3. \A q \in Requests : /\ Runs(q)' => ~InInbox(q)' /\ ~Queued(q)'
                            /\ Arrived(q)' => status'[q] = "sent"
    BY <1>3, <1>5, <1>9, Zenon DEF OnePlace
  <2>4. \A q \in Requests : In(inbox', Alloc(q)) \/ In(holding', Alloc(q)) \/ In(queue', Alloc(q))
                            => status'[q] = "asked"
    BY <1>1, <1>2, <1>5, <1>8, Messages, Zenon DEF OnePlace
  <2> QED
    BY Zenon, <1>1, <1>5, <2>2, <2>3, <2>4 DEF OnePlace, Distinct
<1>12. SlotsHeld'
  <2>1. receives'[r] = target[r] /\ \A q \in Requests : q # r => receives'[q] = receives[q]
    BY Zenon, <1>2, <1>5 DEF Types
  <2> QED
    BY Zenon, <1>2, <1>5, <1>9, <2>1 DEF SlotsHeld
<1>121. OutputsApart'
  BY Zenon, <1>5, <1>9 DEF OutputsApart
<1>13. DataKept'
  <2> SUFFICES ASSUME NEW q \in Requests, Arrived(q)
               PROVE  IF InInbox(q)' \/ ~LoadDone(q)' THEN mem[target[q]] = q ELSE tensors[q] = q
    BY Zenon, <1>5, <1>9 DEF DataKept
  <2>1. CASE q = r
    BY <1>3, <1>7, <2>1, Zenon DEF DataKept
  <2>2. CASE q # r
    BY <1>7, <1>9, <2>2, Zenon DEF DataKept
  <2> QED
    BY <2>1, <2>2, Zenon
<1>14. StreamsOrdered'
  <2>1. ASSUME NEW k \in DOMAIN copies', copies'[k].op = "load"
        PROVE  /\ status[copies'[k].id] \in {"sent", "done", "failed"}
               /\ copies'[k].slot = target[copies'[k].id]
    BY <1>3, <1>6, <1>7, <2>1, Zenon DEF StreamsOrdered
  <2>2. ASSUME NEW k \in DOMAIN copies', copies'[k].op = "stage"
        PROVE  /\ step = "staging" /\ copies'[k].id = running /\ copies'[k].slot = stage
               /\ \A j \in DOMAIN copies' :
                    j > k /\ copies'[j].op = "load" => copies'[j].id # running
    <3>1. k \in DOMAIN copies /\ copies'[k] = copies[k]
      BY Zenon, <1>6, <1>7, <2>2
    <3>2. step = "staging" /\ copies[k].id = running /\ copies[k].slot = stage
      BY Zenon, <2>2, <3>1 DEF StreamsOrdered
    <3>3. r # running
      BY <1>3, <3>2, SMTT(30) DEF Runs
    <3> QED
      BY ZenonT(60), <1>6, <1>7, <2>2, <3>1, <3>2, <3>3 DEF StreamsOrdered
  <2>3. step = "staging" => /\ stage \in PoolSlots
                            /\ \A q \in Requests : Uses(q)' /\ q # running => target[q] # stage
    BY Zenon, <1>9 DEF StreamsOrdered
  <2> QED
    BY ZenonT(60), <1>5, <2>1, <2>2, <2>3 DEF StreamsOrdered
<1>15. ComputedOnce'
  <2>1. StagingDone' => StagingDone
    <3>1. running' = running
      BY <1>5, Zenon
    <3>2. \A k \in DOMAIN copies : k \in DOMAIN copies' /\ copies'[k] = copies[k]
      BY Zenon, <1>5, <1>6, CopyAppended
    <3> QED
      BY Zenon, <3>1, <3>2 DEF StagingDone
  <2> QED
    BY <1>5, <1>8, <1>9, <2>1, Zenon DEF ComputedOnce
<1>16. ComputedOnOwnData'
  BY Zenon, <1>5 DEF ComputedOnOwnData
<1> QED
  BY Zenon, <1>10, <1>11, <1>12, <1>121, <1>13, <1>14, <1>15, <1>16

(* The recv thread drops a READY: its request uses its slot no more.       *)
LEMMA PrefetchRaisesStep ==
  ASSUME OwnDataInv, PrefetchRaises
  PROVE  OwnDataInv'
<1> USE DEF OwnDataInv
<1> DEFINE r == Head(inbox).id
           c == [op |-> "load", id |-> r, slot |-> target[r]]
<1>1. /\ Head(inbox) \in Message /\ inbox' \in Seq(Message) /\ Distinct(inbox')
      /\ \A m : In(inbox', m) <=> In(inbox, m) /\ m # Head(inbox)
      /\ In(inbox, Head(inbox))
  <2>1. inbox # <<>> /\ inbox' = Tail(inbox) /\ Distinct(inbox)
    BY Zenon DEF PrefetchRaises, OnePlace
  <2> QED
    BY Zenon, <2>1, InTail DEF Types
<1>2. r \in Requests /\ Head(inbox) = Ready(r)
  BY Zenon, <1>1, Messages DEF PrefetchRaises
<1>3. InInbox(r) /\ Uses(r) /\ ~Runs(r) /\ ~Queued(r) /\ status[r] = "sent"
  BY Zenon, <1>1, <1>2, Messages DEF InInbox, Queued, Uses, Arrived, OnePlace
<1>4. target[r] \in Slots /\ (target[r] \notin PreSlots => receives[r] = target[r])
  BY <1>2, <1>3, Zenon DEF SlotsHeld
<1>5. /\ UNCHANGED <<status, target, freePre, mem, holding, queue, kernels, tensors, inputs,
                     running, step, stage, allocated, staged, push>>
      /\ receives' = [receives EXCEPT ![r] = target[r]]
      /\ copies' = copies \/ copies' = Append(copies, c)
  BY Zenon, <1>2, <1>4
     DEF PrefetchRaises, main, output, StartLoad, ReceiveSlot, IsPre, PoolAfterPrefetch
<1>6. c \in CopyOp /\ c.op = "load" /\ c.id = r /\ c.slot = target[r]
  BY <1>2, <1>4, Zenon DEF CopyOp
<1> HIDE DEF r, c
<1>7. /\ copies' \in Seq(CopyOp)
      /\ \A q \in Requests : q # r => (LoadDone(q)' <=> LoadDone(q))
      /\ \A k \in DOMAIN copies' :
           (k \in DOMAIN copies /\ copies'[k] = copies[k]) \/ copies'[k] = c
      /\ \A k \in DOMAIN copies : k \in DOMAIN copies' /\ copies'[k] = copies[k]
  <2>1. CASE copies' = copies
    BY Zenon, <2>1 DEF LoadDone, Types
  <2>2. CASE copies' = Append(copies, c)
    BY ZenonT(60), <1>6, <2>2, CopyAppended
  <2> QED
    BY Zenon, <1>5, <2>1, <2>2
<1>8. /\ \A m : (In(queue, m)' <=> In(queue, m)) /\ (In(holding, m)' <=> In(holding, m))
      /\ \A q : In(kernels, q)' <=> In(kernels, q)
  BY Zenon, <1>5 DEF In
<1>9. ASSUME NEW q \in Requests
      PROVE  /\ InInbox(q)' <=> InInbox(q) /\ q # r
             /\ Queued(q)' <=> Queued(q)
             /\ Runs(q)' <=> Runs(q)
             /\ Arrived(q)' <=> Arrived(q) /\ q # r
             /\ Uses(q)' <=> Uses(q) /\ q # r
  <2>1. InInbox(q)' <=> InInbox(q) /\ q # r
    BY Zenon, <1>1, <1>2, Messages DEF InInbox
  <2>2. Queued(q)' <=> Queued(q)
    BY Zenon, <1>8 DEF Queued
  <2>3. Runs(q)' <=> Runs(q)
    BY Zenon, <1>5 DEF Runs
  <2>4. Arrived(q)' <=> Arrived(q) /\ q # r
    BY Zenon, <1>3, <2>1, <2>2, <2>3 DEF Arrived
  <2>5. Uses(q)' <=> Uses(q) /\ q # r
    BY Zenon, <1>3, <1>5, <2>4 DEF Uses
  <2> QED
    BY Zenon, <2>1, <2>2, <2>3, <2>4, <2>5
<1>10. Types'
  BY <1>1, <1>2, <1>4, <1>5, <1>7, Zenon DEF Types
<1>11. OnePlace'
  <2>1. \A m \in Message : /\ ~(In(inbox', m) /\ In(holding', m))
                          /\ ~(In(inbox', m) /\ In(queue', m))
                          /\ ~(In(holding', m) /\ In(queue', m))
    BY Zenon, <1>1, <1>8 DEF OnePlace
  <2>2. \A q \in Requests : /\ Runs(q)' => ~InInbox(q)' /\ ~Queued(q)'
                            /\ Arrived(q)' => status'[q] = "sent"
    BY <1>5, <1>9, Zenon DEF OnePlace
  <2>3. \A q \in Requests : In(inbox', Alloc(q)) \/ In(holding', Alloc(q)) \/ In(queue', Alloc(q))
                            => status'[q] = "asked"
    BY <1>1, <1>5, <1>8, Zenon DEF OnePlace
  <2> QED
    BY Zenon, <1>1, <1>5, <2>1, <2>2, <2>3 DEF OnePlace, Distinct
<1>12. SlotsHeld'
  <2>1. \A q \in Requests : q # r => receives'[q] = receives[q]
    BY Zenon, <1>2, <1>5 DEF Types
  <2> QED
    BY Zenon, <1>3, <1>5, <1>9, <2>1 DEF SlotsHeld
<1>13. OutputsApart'
  BY Zenon, <1>5, <1>9 DEF OutputsApart
<1>14. DataKept'
  BY Zenon, <1>5, <1>7, <1>9 DEF DataKept
<1>15. StreamsOrdered'
  <2>1. ASSUME NEW k \in DOMAIN copies', copies'[k].op = "load"
        PROVE  /\ status[copies'[k].id] \in {"sent", "done", "failed"}
               /\ copies'[k].slot = target[copies'[k].id]
    BY <1>3, <1>6, <1>7, <2>1, Zenon DEF StreamsOrdered
  <2>2. ASSUME NEW k \in DOMAIN copies', copies'[k].op = "stage"
        PROVE  /\ step = "staging" /\ copies'[k].id = running /\ copies'[k].slot = stage
               /\ \A j \in DOMAIN copies' :
                    j > k /\ copies'[j].op = "load" => copies'[j].id # running
    <3>1. k \in DOMAIN copies /\ copies'[k] = copies[k]
      BY Zenon, <1>6, <1>7, <2>2
    <3>2. step = "staging" /\ copies[k].id = running /\ copies[k].slot = stage
      BY Zenon, <2>2, <3>1 DEF StreamsOrdered
    <3>3. r # running
      BY <1>3, <3>2, SMTT(30) DEF Runs
    <3> QED
      BY ZenonT(60), <1>6, <1>7, <2>2, <3>1, <3>2, <3>3 DEF StreamsOrdered
  <2>3. step = "staging" => /\ stage \in PoolSlots
                            /\ \A q \in Requests : Uses(q)' /\ q # running => target[q] # stage
    BY Zenon, <1>9 DEF StreamsOrdered
  <2> QED
    BY ZenonT(60), <1>5, <2>1, <2>2, <2>3 DEF StreamsOrdered
<1>16. ComputedOnce'
  <2>1. StagingDone' => StagingDone
    <3>1. running' = running
      BY <1>5, Zenon
    <3> QED
      BY Zenon, <1>7, <3>1 DEF StagingDone
  <2> QED
    BY <1>5, <1>8, <1>9, <2>1, Zenon DEF ComputedOnce
<1>17. ComputedOnOwnData'
  BY Zenon, <1>5 DEF ComputedOnOwnData
<1> QED
  BY Zenon, <1>10, <1>11, <1>12, <1>13, <1>14, <1>15, <1>16, <1>17

(* A step of an output on its way out of the instance: whoever waits for   *)
(* data keeps its block.                                                   *)
LEMMA OutputMoves ==
  ASSUME OwnDataInv, OutputsApart',
         UNCHANGED <<status, target, freePre, inbox, mem, receives, holding, queue, running,
                     step, stage, copies, kernels, tensors, inputs>>,
         staged' \in [Requests -> PoolSlots \cup {NoSlot}],
         push' \in [Requests -> {"none", "queued", "pushed", "failed"}],
         \A q \in Requests : Uses(q) /\ ~Runs(q) /\ target[q] \in allocated =>
                               target[q] \in allocated'
  PROVE  OwnDataInv'
<1> USE DEF OwnDataInv
<1>1. /\ \A m : (In(inbox', m) <=> In(inbox, m)) /\ (In(holding', m) <=> In(holding, m))
               /\ (In(queue', m) <=> In(queue, m))
      /\ \A q : In(kernels', q) <=> In(kernels, q)
  BY Zenon
<1>2. \A q \in Requests : (InInbox(q)' <=> InInbox(q)) /\ (Queued(q)' <=> Queued(q))
                          /\ (Runs(q)' <=> Runs(q)) /\ (Arrived(q)' <=> Arrived(q))
  BY Zenon, NobodyMoves
<1>3. \A q \in Requests : Uses(q)' <=> Uses(q)
  BY Zenon, <1>2 DEF Uses
<1>4. /\ \A q \in Requests : LoadDone(q)' <=> LoadDone(q)
      /\ StagingDone' <=> StagingDone
  BY Zenon DEF LoadDone, StagingDone
<1>5. Types'
  BY Zenon DEF Types
<1>6. OnePlace'
  BY Zenon, <1>1, <1>2 DEF OnePlace, Distinct
<1>7. SlotsHeld'
  BY Zenon, <1>2, <1>3 DEF SlotsHeld
<1>8. DataKept'
  BY Zenon, <1>2, <1>4 DEF DataKept
<1>9. StreamsOrdered'
  BY Zenon, <1>3 DEF StreamsOrdered
<1>10. ComputedOnce'
  BY Zenon, <1>1, <1>2, <1>4 DEF ComputedOnce
<1>11. ComputedOnOwnData'
  BY Zenon DEF ComputedOnOwnData
<1> QED
  BY Zenon, <1>5, <1>6, <1>7, <1>8, <1>9, <1>10, <1>11

(* The recv thread hands a PUSH on.                                        *)
LEMMA RecvPushStep ==
  ASSUME OwnDataInv, NEW r \in Requests, RecvPush(r)
  PROVE  OwnDataInv'
<1> USE DEF OwnDataInv
<1>1. /\ UNCHANGED <<status, target, freePre, inbox, mem, allocated, receives, holding, queue,
                     staged, running, step, stage, copies, kernels, tensors, inputs>>
      /\ status[r] = "done" /\ push' = [push EXCEPT ![r] = "queued"]
  BY Zenon DEF RecvPush, env, main, device
<1>2. /\ push' \in [Requests -> {"none", "queued", "pushed", "failed"}]
      /\ \A q \in Requests : q # r => push'[q] = push[q]
  BY Zenon, <1>1 DEF Types
<1>3. \A q \in Requests : (Runs(q)' <=> Runs(q)) /\ (Uses(q)' <=> Uses(q))
  BY Zenon, <1>1, NobodyMoves DEF Uses
<1>4. OutputsApart'
  BY Zenon, <1>1, <1>2, <1>3 DEF OutputsApart
<1>5. staged' \in [Requests -> PoolSlots \cup {NoSlot}]
  BY Zenon, <1>1 DEF Types
<1> QED
  BY Zenon, <1>1, <1>2, <1>4, <1>5, OutputMoves

(* The RDMA thread frees a block from which nobody will load.              *)
LEMMA RdmaPushStep ==
  ASSUME OwnDataInv, NEW r \in Requests, RdmaPush(r)
  PROVE  OwnDataInv'
<1> USE DEF OwnDataInv
<1>1. /\ UNCHANGED <<status, target, freePre, inbox, mem, receives, holding, queue,
                     running, step, stage, copies, kernels, tensors, inputs>>
      /\ push[r] = "queued"
      /\ \E o \in {"pushed", "failed"} : push' = [push EXCEPT ![r] = o]
      /\ \/ allocated' = allocated \ {staged[r]} /\ staged' = [staged EXCEPT ![r] = NoSlot]
         \/ UNCHANGED <<allocated, staged>>
  BY Zenon DEF RdmaPush, env, main, device
<1>2. /\ push' \in [Requests -> {"none", "queued", "pushed", "failed"}]
      /\ \A q \in Requests : q # r => push'[q] = push[q]
  BY Zenon, <1>1 DEF Types
<1>3. \A q \in Requests : (Runs(q)' <=> Runs(q)) /\ (Uses(q)' <=> Uses(q))
  BY Zenon, <1>1, NobodyMoves DEF Uses
<1>4. push[r] # "none"
  BY <1>1
<1>5. \A q \in Requests : push'[q] # "none" => status'[q] = "done"
  BY Zenon, <1>1, <1>2, <1>4 DEF OutputsApart
<1>6. CASE allocated' = allocated \ {staged[r]} /\ staged' = [staged EXCEPT ![r] = NoSlot]
  <2>1. /\ staged' \in [Requests -> PoolSlots \cup {NoSlot}] /\ staged'[r] = NoSlot
        /\ \A q \in Requests : q # r => staged'[q] = staged[q]
    BY Zenon, <1>6 DEF Types
  <2>2. \A q \in Requests : staged'[q] # NoSlot => /\ q # r /\ staged'[q] = staged[q]
                                                  /\ staged[q] # staged[r]
    BY Zenon, <2>1 DEF OutputsApart
  <2>3. ASSUME NEW q \in Requests, staged'[q] # NoSlot PROVE staged'[q] \in allocated'
    <3>1. staged[q] # NoSlot /\ staged'[q] = staged[q] /\ staged[q] # staged[r]
      BY Zenon, <2>2, <2>3
    <3>2. staged[q] \in allocated
      BY Zenon, <3>1 DEF OutputsApart
    <3>3. staged[q] \in allocated \ {staged[r]}
      BY Zenon, <3>1, <3>2
    <3> QED
      BY <1>6, <3>1, <3>3
  <2>4. OutputsApart'
    <3>1. \A q, p \in Requests : staged'[q] # NoSlot /\ staged'[q] = staged'[p] => q = p
      BY Zenon, <2>2 DEF OutputsApart
    <3>2. \A q, p \in Requests : staged'[q] # NoSlot /\ Uses(p)' /\ ~Runs(p)' =>
                                   target'[p] # staged'[q]
      BY Zenon, <1>1, <1>3, <2>2 DEF OutputsApart
    <3> QED
      BY Zenon, <1>5, <2>3, <3>1, <3>2 DEF OutputsApart
  <2>5. \A q \in Requests : Uses(q) /\ ~Runs(q) => target[q] # staged[r]
    <3>1. \A q \in Requests : Uses(q) => target[q] # NoSlot
      BY ReceiverAssumption, Zenon DEF SlotsHeld, Slots, NoSlot
    <3> QED
      BY Zenon, <3>1 DEF OutputsApart
  <2> QED
    BY Zenon, <1>1, <1>2, <1>6, <2>1, <2>4, <2>5, OutputMoves
<1>7. CASE UNCHANGED <<allocated, staged>>
  <2>1. OutputsApart'
    BY Zenon, <1>1, <1>3, <1>5, <1>7 DEF OutputsApart
  <2>2. staged' \in [Requests -> PoolSlots \cup {NoSlot}]
    BY Zenon, <1>7 DEF Types
  <2> QED
    BY Zenon, <1>1, <1>2, <1>7, <2>1, <2>2, OutputMoves
<1> QED
  BY Zenon, <1>1, <1>6, <1>7

(* The recv thread passes an ALLOC on to the main thread.                  *)
LEMMA RecvAllocStep ==
  ASSUME OwnDataInv, Recv, Head(inbox).type = "ALLOC"
  PROVE  OwnDataInv'
<1> USE DEF OwnDataInv
<1> DEFINE r == Head(inbox).id
<1>1. /\ Head(inbox) \in Message /\ inbox' \in Seq(Message) /\ Distinct(inbox')
      /\ \A m : In(inbox', m) <=> In(inbox, m) /\ m # Head(inbox)
      /\ In(inbox, Head(inbox))
  <2>1. inbox # <<>> /\ inbox' = Tail(inbox) /\ Distinct(inbox)
    BY Zenon DEF Recv, OnePlace
  <2> QED
    BY Zenon, <2>1, InTail DEF Types
<1>2. r \in Requests /\ Head(inbox) = Alloc(r) /\ Alloc(r) \in Message
  BY Zenon, <1>1, Messages
<1>3. /\ UNCHANGED <<status, target, freePre, mem, queue, kernels, tensors, inputs, running,
                     step, stage, allocated, receives, staged, push, copies>>
      /\ holding = <<>> /\ holding' = <<Alloc(r)>>
  BY <1>2, Zenon DEF Recv, output, main
<1> HIDE DEF r
<1>4. /\ \A m : In(queue, m)' <=> In(queue, m)
      /\ \A m : In(holding', m) <=> m = Alloc(r)
      /\ \A m : ~In(holding, m)
  BY Zenon, <1>3, InOne, InNone DEF In
<1>5. ASSUME NEW q \in Requests
      PROVE  /\ InInbox(q)' <=> InInbox(q)
             /\ Queued(q)' <=> Queued(q)
             /\ Runs(q)' <=> Runs(q)
             /\ Arrived(q)' <=> Arrived(q)
  <2>1. InInbox(q)' <=> InInbox(q)
    BY Zenon, <1>1, <1>2, Messages DEF InInbox
  <2>2. Queued(q)' <=> Queued(q)
    BY Zenon, <1>2, <1>4, Messages DEF Queued
  <2>3. Runs(q)' <=> Runs(q)
    BY Zenon, <1>3 DEF Runs
  <2> QED
    BY Zenon, <2>1, <2>2, <2>3 DEF Arrived
<1>6. Types'
  BY Zenon, <1>1, <1>2, <1>3 DEF Types
<1>7. OnePlace'
  <2>1. \A m \in Message : /\ ~(In(inbox', m) /\ In(holding', m))
                          /\ ~(In(inbox', m) /\ In(queue', m))
                          /\ ~(In(holding', m) /\ In(queue', m))
    BY Zenon, <1>1, <1>2, <1>4 DEF OnePlace
  <2>2. \A q \in Requests : /\ Runs(q)' => ~InInbox(q)' /\ ~Queued(q)'
                            /\ Arrived(q)' => status'[q] = "sent"
    BY Zenon, <1>3, <1>5 DEF OnePlace
  <2>3. \A q \in Requests : In(inbox', Alloc(q)) \/ In(holding', Alloc(q)) \/ In(queue', Alloc(q))
                            => status'[q] = "asked"
    BY <1>1, <1>2, <1>3, <1>4, Messages, Zenon DEF OnePlace
  <2> QED
    BY Zenon, <1>1, <1>3, <2>1, <2>2, <2>3 DEF OnePlace, Distinct
<1> QED
  BY Zenon, <1>3, <1>5, <1>6, <1>7, MessagesMove

(* The recv thread puts its item on the queue.                             *)
LEMMA PutStep == OwnDataInv /\ Put => OwnDataInv'
<1> SUFFICES ASSUME OwnDataInv, Put PROVE OwnDataInv'
  BY Zenon
<1> USE DEF OwnDataInv
<1>1. PICK m \in Message : holding = <<m>>
  BY Zenon DEF Put, QueuePut, Types
<1>2. /\ UNCHANGED <<status, target, freePre, inbox, mem, kernels, tensors, inputs, running,
                     step, stage, allocated, receives, staged, push, copies>>
      /\ holding' = <<>> /\ queue' = Append(queue, m)
  BY Zenon, <1>1 DEF Put, QueuePut, env, output, main, device
<1>3. /\ \A x : In(inbox, x)' <=> In(inbox, x)
      /\ \A x : In(holding, x) <=> x = m
      /\ \A x : ~In(holding', x)
  BY Zenon, <1>1, <1>2, InOne, InNone DEF In
<1>4. /\ queue' \in Seq(Message) /\ Distinct(queue')
      /\ \A x : In(queue', x) <=> In(queue, x) \/ x = m
  <2>1. queue \in Seq(Message) /\ Distinct(queue) /\ ~In(queue, m)
    BY Zenon, <1>3 DEF Types, OnePlace
  <2>2. /\ Append(queue, m) \in Seq(Message) /\ Distinct(Append(queue, m))
        /\ \A x : In(Append(queue, m), x) <=> In(queue, x) \/ x = m
    BY ZenonT(60), <2>1, InAppend
  <2>3. QED  BY Zenon, <1>2, <2>2
<1>5. ASSUME NEW q \in Requests
      PROVE  /\ InInbox(q)' <=> InInbox(q)
             /\ Queued(q)' <=> Queued(q)
             /\ Runs(q)' <=> Runs(q)
             /\ Arrived(q)' <=> Arrived(q)
  <2>1. InInbox(q)' <=> InInbox(q)
    BY Zenon, <1>3 DEF InInbox
  <2>2. Queued(q)' <=> Queued(q)
    BY Zenon, <1>3, <1>4 DEF Queued
  <2>3. Runs(q)' <=> Runs(q)
    BY Zenon, <1>2 DEF Runs
  <2> QED
    BY Zenon, <2>1, <2>2, <2>3 DEF Arrived
<1>6. Types'
  BY <1>2, <1>4, SMTT(30) DEF Types
<1>7. OnePlace'
  <2>1. \A x \in Message : /\ ~(In(inbox', x) /\ In(holding', x))
                          /\ ~(In(inbox', x) /\ In(queue', x))
                          /\ ~(In(holding', x) /\ In(queue', x))
    BY Zenon, <1>3, <1>4 DEF OnePlace
  <2>2. \A q \in Requests : /\ Runs(q)' => ~InInbox(q)' /\ ~Queued(q)'
                            /\ Arrived(q)' => status'[q] = "sent"
    BY Zenon, <1>2, <1>5 DEF OnePlace
  <2>3. \A q \in Requests : In(inbox', Alloc(q)) \/ In(holding', Alloc(q)) \/ In(queue', Alloc(q))
                            => status'[q] = "asked"
    BY Zenon, <1>2, <1>3, <1>4 DEF OnePlace
  <2> QED
    BY Zenon, <1>2, <1>4, <2>1, <2>2, <2>3 DEF OnePlace, Distinct
<1> QED
  BY Zenon, <1>2, <1>5, <1>6, <1>7, MessagesMove

-------------------------------------------------------------------------------
(* Taking the head of the queue                                            *)
LEMMA QueueTail ==
  ASSUME OwnDataInv, queue # <<>>, queue' = Tail(queue)
  PROVE  /\ Head(queue) \in Message /\ In(queue, Head(queue))
         /\ queue' \in Seq(Message) /\ Distinct(queue')
         /\ \A m : In(queue', m) <=> In(queue, m) /\ m # Head(queue)
BY Zenon, InTail DEF OwnDataInv, Types, OnePlace

(* A block is granted while nobody runs, so it is not the freed block of a *)
(* request whose load may be pending.                                      *)
LEMMA HandleAllocStep == OwnDataInv /\ HandleAlloc => OwnDataInv'
<1> SUFFICES ASSUME OwnDataInv, HandleAlloc PROVE OwnDataInv'
  BY Zenon
<1> USE DEF OwnDataInv
<1> DEFINE r == Head(queue).id
<1>1. /\ UNCHANGED <<freePre, inbox, mem, holding, staged, push, running, step, stage,
                     copies, kernels, tensors, inputs>>
      /\ step = "idle" /\ queue # <<>> /\ queue' = Tail(queue) /\ Head(queue).type = "ALLOC"
  BY Zenon DEF HandleAlloc, Idle, output, device
<1>2. /\ Head(queue) \in Message /\ In(queue, Head(queue))
      /\ queue' \in Seq(Message) /\ Distinct(queue')
      /\ \A m : In(queue', m) <=> In(queue, m) /\ m # Head(queue)
  BY ZenonT(60), <1>1, QueueTail
<1>3. r \in Requests /\ Head(queue) = Alloc(r) /\ status[r] = "asked"
  BY <1>1, <1>2, Messages DEF OnePlace
<1>4. CASE UNCHANGED <<allocated, receives, target, status>>
  <2> HIDE DEF r
  <2>1. \A m : (In(inbox, m)' <=> In(inbox, m)) /\ (In(holding, m)' <=> In(holding, m))
    BY Zenon, <1>1 DEF In
  <2>2. \A q \in Requests : /\ InInbox(q)' <=> InInbox(q)
                            /\ Queued(q)' <=> Queued(q)
    BY Zenon, <1>2, <1>3, <2>1, Messages DEF InInbox, Queued
  <2>3. \A q \in Requests : /\ Runs(q)' <=> Runs(q)
                            /\ Arrived(q)' <=> Arrived(q)
    BY Zenon, <1>1, <2>2 DEF Runs, Arrived
  <2>4. Types'
    BY Zenon, <1>1, <1>2, <1>4 DEF Types
  <2>5. OnePlace'
    BY Zenon, <1>1, <1>2, <1>4, <2>1, <2>2, <2>3 DEF OnePlace, Distinct
  <2> QED
    BY Zenon, <1>1, <1>4, <2>2, <2>4, <2>5, MessagesMove
<1>5. CASE \E s \in PoolSlots \ allocated :
             /\ allocated' = allocated \cup {s}
             /\ receives' = [receives EXCEPT ![r] = s]
             /\ target' = [target EXCEPT ![r] = s]
             /\ status' = [status EXCEPT ![r] = "offered"]
  <2> HIDE DEF r
  <2>1. PICK s \in PoolSlots \ allocated :
             /\ allocated' = allocated \cup {s}
             /\ receives' = [receives EXCEPT ![r] = s]
             /\ target' = [target EXCEPT ![r] = s]
             /\ status' = [status EXCEPT ![r] = "offered"]
    BY <1>5, Zenon
  <2>2. s \in Slots /\ s \notin PreSlots
    BY Zenon, ReceiverAssumption DEF Slots
  <2>3. /\ status'[r] = "offered" /\ target'[r] = s /\ receives'[r] = s
        /\ \A q \in Requests : q # r => /\ status'[q] = status[q] /\ target'[q] = target[q]
                                       /\ receives'[q] = receives[q]
    BY Zenon, <1>3, <2>1 DEF Types
  <2>4. /\ \A m : (In(inbox, m)' <=> In(inbox, m)) /\ (In(holding, m)' <=> In(holding, m))
        /\ \A q \in Requests : LoadDone(q)' <=> LoadDone(q)
        /\ \A q : In(kernels, q)' <=> In(kernels, q)
    BY Zenon, <1>1 DEF In, LoadDone
  <2>5. \A q \in Requests : /\ InInbox(q)' <=> InInbox(q)
                            /\ Queued(q)' <=> Queued(q)
    BY Zenon, <1>2, <1>3, <2>4, Messages DEF InInbox, Queued
  <2>6. \A q \in Requests : /\ ~Runs(q) /\ ~Runs(q)'
                            /\ Arrived(q)' <=> Arrived(q)
    BY Zenon, <1>1, <2>5 DEF Runs, Arrived
  <2>7. ~Arrived(r) /\ ~Uses(r) /\ ~Queued(r)
    BY Zenon, <1>3 DEF OnePlace, Uses, Arrived
  <2>8. \A q \in Requests : Uses(q)' <=> Uses(q) \/ q = r
    BY Zenon, <2>3, <2>6 DEF Uses
  <2>9. Types'
    BY ZenonT(60), <1>1, <1>2, <1>3, <2>1, <2>2 DEF Types, Statuses
  <2>10. OnePlace'
    <3>1. \A q \in Requests : Arrived(q)' => status'[q] = "sent"
      BY Zenon, <2>3, <2>6, <2>7 DEF OnePlace
    <3>2. ~In(inbox, Alloc(r)) /\ ~In(holding, Alloc(r)) /\ ~In(queue', Alloc(r))
      BY Zenon, <1>2, <1>3 DEF OnePlace
    <3>3. \A q \in Requests : In(inbox', Alloc(q)) \/ In(holding', Alloc(q)) \/ In(queue', Alloc(q))
                              => status'[q] = "asked"
      BY Zenon, <1>2, <2>3, <2>4, <3>2 DEF OnePlace
    <3> QED
      BY <1>1, <1>2, <2>4, <2>6, <3>1, <3>3, SMTT(30) DEF OnePlace, Distinct
  <2>11. SlotsHeld'
    <3>1. \A q \in Requests : Uses(q) => target[q] # s
      BY Zenon, <1>1, <2>2, <2>6 DEF SlotsHeld, Slots
    <3>2. \A q \in Requests : Uses(q)' => target'[q] \in Slots \ freePre'
      BY Zenon, <1>1, <2>2, <2>3, <2>8 DEF SlotsHeld
    <3>3. \A p, q \in Requests : Uses(p)' /\ Uses(q)' /\ p # q => target'[p] # target'[q]
      <4>1. SUFFICES ASSUME NEW p \in Requests, NEW q \in Requests, Uses(p)', Uses(q)', p # q
                     PROVE  target'[p] # target'[q]
        BY Zenon
      <4>2. CASE p = r
        BY Zenon, <2>3, <2>8, <3>1, <4>1, <4>2
      <4>3. CASE q = r
        BY Zenon, <2>3, <2>8, <3>1, <4>1, <4>3
      <4>4. CASE p # r /\ q # r
        BY Zenon, <2>3, <2>8, <4>1, <4>4 DEF SlotsHeld
      <4> QED
        BY Zenon, <4>2, <4>3, <4>4
    <3>4. \A q \in Requests : Uses(q)' /\ target'[q] \in PoolSlots => target'[q] \in allocated'
      BY <2>1, <2>3, <2>6, <2>8 DEF SlotsHeld
    <3>5. \A q \in Requests : Queued(q)' => receives'[q] = target'[q]
      BY Zenon, <2>3, <2>5, <2>7 DEF SlotsHeld
    <3>6. \A q \in Requests : Uses(q)' /\ target'[q] \notin PreSlots => receives'[q] = target'[q]
      BY Zenon, <2>3, <2>6, <2>8 DEF SlotsHeld
    <3>7. freePre' \subseteq PreSlots
      BY Zenon, <1>1 DEF SlotsHeld
    <3> QED
      BY <3>2, <3>3, <3>4, <3>5, <3>6, <3>7, Zenon DEF SlotsHeld
  <2>111. OutputsApart'
    <3>1. \A q \in Requests : staged[q] # NoSlot => staged[q] \in allocated' /\ staged[q] # s
      BY <2>1, Zenon DEF OutputsApart
    <3>2. \A q \in Requests : status[q] = "done" => status'[q] = "done"
      BY <1>3, <2>3, Zenon
    <3> QED
      BY Zenon, <1>1, <2>3, <2>6, <2>8, <3>1, <3>2, OutputsStay
  <2>12. DataKept'
    BY Zenon, <1>1, <2>3, <2>4, <2>5, <2>6, <2>7 DEF DataKept
  <2>13. StreamsOrdered'
    <3>0. \A k \in DOMAIN copies : copies[k] \in CopyOp
      BY DEF Types
    <3>1. \A k \in DOMAIN copies : copies[k].op # "stage" /\ copies[k].id \in Requests
      BY Zenon, <1>1, <3>0 DEF StreamsOrdered, CopyOp
    <3>2. \A k \in DOMAIN copies : copies[k].op = "load" => copies[k].id # r
      BY Zenon, <1>3 DEF StreamsOrdered
    <3> QED
      BY ZenonT(60), <1>1, <2>3, <3>1, <3>2 DEF StreamsOrdered
  <2>14. ComputedOnce'
    BY Zenon, <1>1, <1>3, <2>3, <2>4, <2>6 DEF ComputedOnce
  <2>15. ComputedOnOwnData'
    BY Zenon, <1>1, <2>3 DEF ComputedOnOwnData
  <2> QED
    BY Zenon, <2>9, <2>10, <2>11, <2>111, <2>12, <2>13, <2>14, <2>15
<1> QED
  BY Zenon, <1>4, <1>5 DEF HandleAlloc

(* The request goes on using the slot that is freed here.                  *)
LEMMA StartComputeStep ==
  ASSUME OwnDataInv, NEW r \in Requests, StartCompute(r)
  PROVE  OwnDataInv'
<1> USE DEF OwnDataInv
<1>0. /\ step = "idle" /\ queue # <<>> /\ queue' = Tail(queue) /\ Head(queue) = Ready(r)
      /\ Head(queue) \in Message
  BY Zenon, QueueTail DEF StartCompute, TakeLoaded, Idle, Ready
<1>1. /\ UNCHANGED <<status, target, freePre, inbox, mem, holding, staged, push, stage, copies,
                     tensors, inputs>>
      /\ allocated' = allocated \ ({receives[r]} \cap PoolSlots)
      /\ receives' = [receives EXCEPT ![r] = NoSlot]
      /\ kernels' = Append(kernels, r) /\ running' = r /\ step' = "forward"
  BY Zenon DEF StartCompute, TakeLoaded, env, output, PoolAfterRelease
<1>2. /\ Head(queue) \in Message /\ In(queue, Head(queue))
      /\ queue' \in Seq(Message) /\ Distinct(queue')
      /\ \A m : In(queue', m) <=> In(queue, m) /\ m # Head(queue)
  BY Zenon, <1>0, QueueTail
<1>3. Head(queue) = Ready(r) /\ Queued(r) /\ Arrived(r) /\ Uses(r)
  BY Zenon, <1>0, <1>2, Messages DEF Queued, Arrived, Uses
<1>4. /\ \A m : (In(inbox, m)' <=> In(inbox, m)) /\ (In(holding, m)' <=> In(holding, m))
      /\ \A q \in Requests : LoadDone(q)' <=> LoadDone(q)
  BY Zenon, <1>1 DEF In, LoadDone
<1>5. kernels' \in Seq(Requests) /\ \A q : In(kernels', q) <=> In(kernels, q) \/ q = r
  BY <1>1, <1>3, InAppend, SMTT(30) DEF Types
<1>6. ~InInbox(r) /\ ~Queued(r)' /\ status[r] = "sent"
  BY ZenonT(60), <1>2, <1>3, <1>4, Messages DEF OnePlace, InInbox, Queued
<1>7. ASSUME NEW q \in Requests
      PROVE  /\ InInbox(q)' <=> InInbox(q)
             /\ Queued(q)' <=> Queued(q) /\ q # r
             /\ ~Runs(q)
             /\ Runs(q)' <=> q = r
             /\ Arrived(q)' <=> Arrived(q)
             /\ Uses(q)' <=> Uses(q)
  <2>1. InInbox(q)' <=> InInbox(q)
    BY Zenon, <1>4 DEF InInbox
  <2>2. Queued(q)' <=> Queued(q) /\ q # r
    <3>1. q = r => ~Queued(q)'
      BY Zenon, <1>6
    <3>2. q # r => (Queued(q)' <=> Queued(q))
      BY Zenon, <1>2, <1>3, <1>4, Messages DEF Queued
    <3> QED
      BY Zenon, <3>1, <3>2
  <2>3. ~Runs(q) /\ (Runs(q)' <=> q = r)
    BY Zenon, <1>0, <1>1 DEF Runs
  <2>4. Arrived(q)' <=> Arrived(q)
    BY Zenon, <1>3, <2>1, <2>2, <2>3 DEF Arrived
  <2>5. Uses(q)' <=> Uses(q)
    BY Zenon, <1>1, <2>4 DEF Uses
  <2> QED
    BY Zenon, <2>1, <2>2, <2>3, <2>4, <2>5
<1>8. Types'
  BY <1>1, <1>2, <1>3, <1>5, Zenon DEF Types
<1>9. OnePlace'
  <2>1. \A m \in Message : /\ ~(In(inbox', m) /\ In(holding', m))
                          /\ ~(In(inbox', m) /\ In(queue', m))
                          /\ ~(In(holding', m) /\ In(queue', m))
    BY Zenon, <1>2, <1>4 DEF OnePlace
  <2>2. \A q \in Requests : /\ Runs(q)' => ~InInbox(q)' /\ ~Queued(q)'
                            /\ Arrived(q)' => status'[q] = "sent"
    BY <1>1, <1>6, <1>7, Zenon DEF OnePlace
  <2>3. \A q \in Requests : In(inbox', Alloc(q)) \/ In(holding', Alloc(q)) \/ In(queue', Alloc(q))
                            => status'[q] = "asked"
    BY <1>1, <1>2, <1>4, Zenon DEF OnePlace
  <2> QED
    BY <1>1, <1>2, <2>1, <2>2, <2>3, Zenon DEF OnePlace, Distinct
<1>10. SlotsHeld'
  <2>1. receives[r] = target[r] /\ \A q \in Requests : q # r => receives'[q] = receives[q]
    BY Zenon, <1>1, <1>3 DEF SlotsHeld, Types
  <2>2. \A q \in Requests : Uses(q) /\ q # r /\ target[q] \in allocated => target[q] \in allocated'
    BY Zenon, <1>1, <1>3, <2>1 DEF SlotsHeld
  <2> QED
    BY <1>1, <1>7, <2>1, <2>2, Zenon DEF SlotsHeld
<1>101. OutputsApart'
  <2>1. receives[r] = target[r]
    BY Zenon, <1>3 DEF SlotsHeld
  <2>2. \A q \in Requests : staged[q] # NoSlot => staged[q] # target[r] /\ staged[q] \in allocated
    BY Zenon, <1>3, <1>7 DEF OutputsApart
  <2>3. \A q \in Requests : staged[q] # NoSlot => staged[q] \in allocated'
    BY Zenon, <1>1, <2>1, <2>2
  <2> QED
    BY Zenon, <1>1, <1>7, <2>3, OutputsStay
<1>11. DataKept'
  BY Zenon, <1>1, <1>4, <1>7 DEF DataKept
<1>12. StreamsOrdered'
  BY <1>0, <1>1, Zenon DEF StreamsOrdered
<1>13. ComputedOnce'
  BY Zenon, <1>1, <1>5, <1>6, <1>7 DEF ComputedOnce
<1>14. ComputedOnOwnData'
  BY Zenon, <1>1 DEF ComputedOnOwnData
<1> QED
  BY Zenon, <1>8, <1>9, <1>10, <1>101, <1>11, <1>12, <1>13, <1>14

(* The request gives up its slot, and nobody else is affected.             *)
LEMMA SetupRaisesStep ==
  ASSUME OwnDataInv, NEW r \in Requests, SetupRaises(r)
  PROVE  OwnDataInv'
<1> USE DEF OwnDataInv
<1>0. /\ step = "idle" /\ queue # <<>> /\ queue' = Tail(queue) /\ Head(queue) = Ready(r)
  BY Zenon DEF SetupRaises, TakeLoaded, Idle, Ready
<1>1. /\ UNCHANGED <<status, target, freePre, inbox, mem, holding, staged, push, running, stage,
                     copies, kernels, tensors, inputs>>
      /\ allocated' = allocated \ ({receives[r]} \cap PoolSlots)
      /\ receives' = [receives EXCEPT ![r] = NoSlot]
      /\ step' \in {"idle", "ended"}
  BY Zenon DEF SetupRaises, TakeLoaded, CountError, env, output, device, PoolAfterRelease
<1>2. /\ In(queue, Ready(r)) /\ queue' \in Seq(Message) /\ Distinct(queue')
      /\ \A m : In(queue', m) <=> In(queue, m) /\ m # Ready(r)
  BY Zenon, <1>0, QueueTail
<1>3. Queued(r) /\ Arrived(r) /\ Uses(r)
  BY Zenon, <1>2 DEF Queued, Arrived, Uses
<1>4. /\ \A m : (In(inbox, m)' <=> In(inbox, m)) /\ (In(holding, m)' <=> In(holding, m))
      /\ \A q \in Requests : LoadDone(q)' <=> LoadDone(q)
  BY <1>1, SMTT(30) DEF In, LoadDone
<1>5. ~InInbox(r) /\ ~Queued(r)' /\ status[r] = "sent"
  BY Zenon, <1>2, <1>3, <1>4, Messages DEF OnePlace, InInbox, Queued
<1>6. ASSUME NEW q \in Requests
      PROVE  /\ InInbox(q)' <=> InInbox(q)
             /\ Queued(q)' <=> Queued(q) /\ q # r
             /\ ~Runs(q) /\ ~Runs(q)'
             /\ Arrived(q)' <=> Arrived(q) /\ q # r
             /\ Uses(q)' <=> Uses(q) /\ q # r
  <2>1. InInbox(q)' <=> InInbox(q)
    BY Zenon, <1>4 DEF InInbox
  <2>2. Queued(q)' <=> Queued(q) /\ q # r
    <3>1. q = r => ~Queued(q)'
      BY Zenon, <1>5
    <3>2. q # r => (Queued(q)' <=> Queued(q))
      BY Zenon, <1>2, <1>4, Messages DEF Queued
    <3> QED
      BY Zenon, <3>1, <3>2
  <2>3. ~Runs(q) /\ ~Runs(q)'
    BY Zenon, <1>0, <1>1 DEF Runs
  <2>4. Arrived(q)' <=> Arrived(q) /\ q # r
    BY <1>5, <2>1, <2>2, <2>3, Zenon DEF Arrived
  <2>5. Uses(q)' <=> Uses(q) /\ q # r
    BY Zenon, <1>1, <1>5, <2>4 DEF Uses
  <2> QED
    BY Zenon, <2>1, <2>2, <2>3, <2>4, <2>5
<1>7. Types'
  BY <1>1, <1>2, Zenon DEF Types
<1>8. OnePlace'
  <2>1. \A m \in Message : /\ ~(In(inbox', m) /\ In(holding', m))
                          /\ ~(In(inbox', m) /\ In(queue', m))
                          /\ ~(In(holding', m) /\ In(queue', m))
    BY Zenon, <1>2, <1>4 DEF OnePlace
  <2>2. \A q \in Requests : /\ Runs(q)' => ~InInbox(q)' /\ ~Queued(q)'
                            /\ Arrived(q)' => status'[q] = "sent"
    BY <1>1, <1>6, Zenon DEF OnePlace
  <2>3. \A q \in Requests : In(inbox', Alloc(q)) \/ In(holding', Alloc(q)) \/ In(queue', Alloc(q))
                            => status'[q] = "asked"
    BY <1>1, <1>2, <1>4, Zenon DEF OnePlace
  <2> QED
    BY <1>1, <1>2, <2>1, <2>2, <2>3, Zenon DEF OnePlace, Distinct
<1>9. SlotsHeld'
  <2>1. receives[r] = target[r] /\ \A q \in Requests : q # r => receives'[q] = receives[q]
    BY Zenon, <1>1, <1>3 DEF SlotsHeld, Types
  <2>2. \A q \in Requests : Uses(q) /\ q # r /\ target[q] \in allocated => target[q] \in allocated'
    BY <1>1, <1>3, <2>1, SMTT(30) DEF SlotsHeld
  <2> QED
    BY <1>1, <1>6, <2>1, <2>2, Zenon DEF SlotsHeld
<1>91. OutputsApart'
  <2>1. receives[r] = target[r]
    BY Zenon, <1>3 DEF SlotsHeld
  <2>2. \A q \in Requests : staged[q] # NoSlot => staged[q] # target[r] /\ staged[q] \in allocated
    BY Zenon, <1>3, <1>6 DEF OutputsApart
  <2>3. \A q \in Requests : staged[q] # NoSlot => staged[q] \in allocated'
    BY Zenon, <1>1, <2>1, <2>2
  <2> QED
    BY Zenon, <1>1, <1>6, <2>3, OutputsStay
<1>10. DataKept'
  BY Zenon, <1>1, <1>4, <1>6 DEF DataKept
<1>11. StreamsOrdered'
  BY <1>0, <1>1, Zenon DEF StreamsOrdered
<1>12. ComputedOnce'
  BY <1>1, <1>6, Zenon DEF ComputedOnce
<1>13. ComputedOnOwnData'
  BY Zenon, <1>1 DEF ComputedOnOwnData
<1> QED
  BY Zenon, <1>7, <1>8, <1>9, <1>91, <1>10, <1>11, <1>12, <1>13

(* The main thread takes a block for the output and enqueues its staging.  *)
LEMMA StartStagingStep == OwnDataInv /\ StartStaging => OwnDataInv'
<1> SUFFICES ASSUME OwnDataInv, StartStaging PROVE OwnDataInv'
  BY Zenon
<1> USE DEF OwnDataInv
<1>1. /\ UNCHANGED <<status, target, freePre, inbox, mem, receives, holding, queue, push, running,
                     kernels, tensors, inputs>>
      /\ step = "forward" /\ step' = "staging"
  BY Zenon DEF StartStaging, env
<1>2. PICK s \in PoolSlots \ allocated :
        /\ allocated' = allocated \cup {s} /\ stage' = s
        /\ staged' = [staged EXCEPT ![running] = s]
        /\ copies' = Append(copies, [op |-> "stage", id |-> running, slot |-> s])
  BY Zenon DEF StartStaging
<1>3. PICK r \in Requests : running = r
  BY Zenon, <1>1 DEF Types
<1>4. PICK c \in CopyOp : c = [op |-> "stage", id |-> r, slot |-> s]
  BY Zenon DEF CopyOp, Slots
<1>5. c.op = "stage" /\ c.id = r /\ c.slot = s
  BY Zenon, <1>4
<1>6. /\ copies' \in Seq(CopyOp)
      /\ \A q \in Requests : LoadDone(q)' <=> LoadDone(q)
      /\ \A k \in DOMAIN copies' :
           (k \in DOMAIN copies /\ copies'[k] = copies[k]) \/
           (k = Len(copies) + 1 /\ copies'[k] = c)
      /\ \A k \in DOMAIN copies : k \in Nat /\ k < Len(copies) + 1
      /\ Len(copies) + 1 \in DOMAIN copies' /\ copies'[Len(copies) + 1] = c
  <2>1. copies' = Append(copies, c)
    BY Zenon, <1>2, <1>3, <1>4
  <2> QED
    BY Zenon, <1>5, <2>1, CopyAppended
<1>7. /\ \A m : (In(inbox', m) <=> In(inbox, m)) /\ (In(holding', m) <=> In(holding, m))
               /\ (In(queue', m) <=> In(queue, m))
      /\ \A q : In(kernels', q) <=> In(kernels, q)
  BY Zenon, <1>1
<1>8. \A q \in Requests : /\ InInbox(q)' <=> InInbox(q)
                          /\ Queued(q)' <=> Queued(q)
                          /\ Runs(q)' <=> Runs(q)
                          /\ Runs(q) <=> q = r
  BY Zenon, <1>1, <1>3, <1>7 DEF InInbox, Queued, Runs
<1>9. \A q \in Requests : Arrived(q)' <=> Arrived(q)
  BY Zenon, <1>8 DEF Arrived
<1>10. \A q \in Requests : Uses(q)' <=> Uses(q)
  BY Zenon, <1>1, <1>9 DEF Uses
<1>101. /\ staged' \in [Requests -> PoolSlots \cup {NoSlot}] /\ staged'[r] = s
       /\ \A q \in Requests : q # r => staged'[q] = staged[q]
  BY Zenon, <1>2, <1>3 DEF Types
<1>11. Types'
  BY Zenon, <1>1, <1>3, <1>6, <1>101 DEF Types
<1>12. OnePlace'
  BY Zenon, <1>1, <1>7, <1>8, <1>9 DEF OnePlace
<1>13. SlotsHeld'
  <2>1. \A q \in Requests : target[q] \in allocated => target[q] \in allocated'
    BY Zenon, <1>2
  <2> QED
    BY <1>1, <1>8, <1>10, <2>1, Zenon DEF SlotsHeld
<1>131. OutputsApart'
  <2>1. \A q \in Requests : staged'[q] # NoSlot => q = r \/ (q # r /\ staged[q] # NoSlot)
    BY Zenon, <1>101
  <2>2. \A q \in Requests : q # r /\ staged[q] # NoSlot =>
          staged'[q] = staged[q] /\ staged[q] \in allocated /\ staged[q] # s
    BY Zenon, <1>2, <1>101 DEF OutputsApart
  <2>3. \A q \in Requests : Uses(q) /\ ~Runs(q) => target[q] # s
    BY Zenon, <1>2, ReceiverAssumption DEF SlotsHeld, Slots
  <2>4. \A q \in Requests : staged'[q] # NoSlot => staged'[q] \in allocated'
    BY Zenon, <1>2, <1>101, <2>1, <2>2
  <2>5. \A p, q \in Requests : staged'[p] # NoSlot /\ staged'[p] = staged'[q] => p = q
    BY Zenon, <1>101, <2>1, <2>2 DEF OutputsApart
  <2>6. \A p, q \in Requests : staged'[p] # NoSlot /\ Uses(q)' /\ ~Runs(q)' =>
          target'[q] # staged'[p]
    BY Zenon, <1>1, <1>8, <1>10, <1>101, <2>1, <2>2, <2>3 DEF OutputsApart
  <2>7. \A q \in Requests : push'[q] # "none" => status'[q] = "done"
    BY Zenon, <1>1 DEF OutputsApart
  <2> QED
    BY Zenon, <2>4, <2>5, <2>6, <2>7 DEF OutputsApart
<1>14. DataKept'
  BY <1>1, <1>6, <1>8, <1>9, Zenon DEF DataKept
<1>15. StreamsOrdered'
  <2>1. \A k \in DOMAIN copies : copies[k].op # "stage"
    BY Zenon, <1>1 DEF StreamsOrdered
  <2>2. \A k \in DOMAIN copies' : copies'[k].op = "stage" => k = Len(copies) + 1 /\ copies'[k] = c
    BY Zenon, <1>6, <2>1
  <2>3. \A k \in DOMAIN copies' : copies'[k].op = "load" =>
          k \in DOMAIN copies /\ copies'[k] = copies[k]
    BY Zenon, <1>5, <1>6
  <2>4. \A k \in DOMAIN copies : ~(k > Len(copies) + 1)
    <3>1. Len(copies) \in Nat
      BY Zenon, LenProperties DEF Types
    <3> QED
      BY <1>6, <3>1
  <2>5. \A q \in Requests : Uses(q) /\ q # r => target[q] # s
    BY <1>2, <1>8, ReceiverAssumption, Zenon DEF SlotsHeld, Slots
  <2>6. \A k \in DOMAIN copies' : copies'[k].op = "load" =>
          /\ status[copies'[k].id] \in {"sent", "done", "failed"}
          /\ copies'[k].slot = target[copies'[k].id]
    BY Zenon, <2>3 DEF StreamsOrdered
  <2>7. \A k \in DOMAIN copies' : copies'[k].op = "stage" =>
          /\ copies'[k].id = r /\ copies'[k].slot = s
          /\ \A j \in DOMAIN copies' : ~(j > k /\ copies'[j].op = "load")
    BY Zenon, <1>5, <2>2, <2>3, <2>4
  <2>8. \A k \in DOMAIN copies' : copies'[k].op = "load" =>
          /\ status'[copies'[k].id] \in {"sent", "done", "failed"}
          /\ copies'[k].slot = target'[copies'[k].id]
    BY Zenon, <1>1, <2>6
  <2>9. \A k \in DOMAIN copies' : copies'[k].op = "stage" =>
          /\ step' = "staging" /\ copies'[k].id = running' /\ copies'[k].slot = stage'
          /\ \A j \in DOMAIN copies' :
               j > k /\ copies'[j].op = "load" => copies'[j].id # running'
    BY <1>1, <1>2, <1>3, <2>7, SMTT(30)
  <2>10. stage' \in PoolSlots /\ \A q \in Requests : Uses(q)' /\ q # running' => target'[q] # stage'
    BY Zenon, <1>1, <1>2, <1>3, <1>10, <2>5
  <2> QED
    BY <2>8, <2>9, <2>10, ZenonT(30) DEF StreamsOrdered
<1>16. ComputedOnce'
  <2>1. ~StagingDone'
    BY Zenon, <1>1, <1>3, <1>5, <1>6 DEF StagingDone
  <2> QED
    BY <1>1, <1>7, <1>8, <2>1, Zenon DEF ComputedOnce
<1>17. ComputedOnOwnData'
  BY Zenon, <1>1 DEF ComputedOnOwnData
<1> QED
  BY Zenon, <1>11, <1>12, <1>13, <1>131, <1>14, <1>15, <1>16, <1>17

(* However a computation ends, it leaves the others as they are.           *)
LEMMA RunEnds ==
  ASSUME OwnDataInv, NEW r \in Requests, Runs(r),
         NEW o \in {"sent", "done", "failed"},
         o = "done" => inputs[r] = r /\ ~In(kernels, r),
         UNCHANGED <<target, inbox, mem, receives, holding, queue, staged, push, copies,
                     kernels, tensors, inputs>>,
         step' \in {"idle", "ended"}, status' = [status EXCEPT ![r] = o],
         freePre' = freePre \/ (target[r] \in PreSlots /\ freePre' = freePre \cup {target[r]}),
         allocated \subseteq allocated',
         \A k \in DOMAIN copies : copies[k].op # "stage"
  PROVE  OwnDataInv'
<1> USE DEF OwnDataInv
<1>1. status'[r] = o /\ \A q \in Requests : q # r => status'[q] = status[q]
  BY Zenon DEF Types
<1>2. /\ \A m : (In(inbox', m) <=> In(inbox, m)) /\ (In(holding', m) <=> In(holding, m))
               /\ (In(queue', m) <=> In(queue, m))
      /\ \A q : In(kernels', q) <=> In(kernels, q)
      /\ \A q \in Requests : LoadDone(q)' <=> LoadDone(q)
  <2>1. \A q \in Requests : LoadDone(q)' <=> LoadDone(q)
    BY Zenon DEF LoadDone
  <2> QED
    BY <2>1, Zenon
<1>3. /\ ~InInbox(r) /\ ~Queued(r) /\ status[r] = "sent" /\ Uses(r)
      /\ \A q \in Requests : Runs(q) <=> q = r
  BY Zenon DEF OnePlace, Arrived, Uses, Runs
<1>4. ASSUME NEW q \in Requests
      PROVE  /\ InInbox(q)' <=> InInbox(q)
             /\ Queued(q)' <=> Queued(q)
             /\ ~Runs(q)'
             /\ Arrived(q)' <=> Arrived(q) /\ q # r
             /\ Uses(q)' <=> Uses(q) /\ q # r
  <2>1. (InInbox(q)' <=> InInbox(q)) /\ (Queued(q)' <=> Queued(q))
    BY Zenon, <1>2 DEF InInbox, Queued
  <2>2. ~Runs(q)'
    BY Zenon DEF Runs
  <2>3. Arrived(q)' <=> Arrived(q) /\ q # r
    BY <1>3, <2>1, <2>2, Zenon DEF Arrived
  <2>4. Uses(q)' <=> Uses(q) /\ q # r
    BY <1>1, <1>3, <2>3, Zenon DEF Uses
  <2> QED
    BY <2>1, <2>2, <2>3, <2>4, Zenon
<1>5. Types'
  BY Zenon DEF Types, Statuses
<1>6. OnePlace'
  <2>1. ~In(inbox, Alloc(r)) /\ ~In(holding, Alloc(r)) /\ ~In(queue, Alloc(r))
    BY <1>3, Zenon DEF OnePlace
  <2>2. \A q \in Requests : In(inbox', Alloc(q)) \/ In(holding', Alloc(q)) \/ In(queue', Alloc(q))
                            => status'[q] = "asked"
    BY <1>1, <1>2, <2>1, Zenon DEF OnePlace
  <2>3. \A q \in Requests : Arrived(q)' => status'[q] = "sent"
    BY <1>1, <1>4, Zenon DEF OnePlace
  <2> QED
    BY <1>2, <1>4, <2>2, <2>3, Zenon DEF OnePlace, Distinct
<1>7. SlotsHeld'
  <2>1. \A q \in Requests : Uses(q) /\ q # r => target[q] \in Slots \ freePre'
    BY <1>3, SMTT(30) DEF SlotsHeld
  <2>2. freePre' \subseteq PreSlots
    BY Zenon DEF SlotsHeld
  <2> QED
    BY <1>3, <1>4, <2>1, <2>2, ZenonT(30) DEF SlotsHeld
<1>71. OutputsApart'
  <2>1. \A q \in Requests : staged[q] # NoSlot => staged[q] \in allocated'
    BY Zenon DEF OutputsApart
  <2>2. \A q \in Requests : status[q] = "done" => status'[q] = "done"
    BY Zenon, <1>1, <1>3
  <2> QED
    BY Zenon, <1>3, <1>4, <2>1, <2>2, OutputsStay
<1>8. DataKept'
  BY <1>2, <1>4, Zenon DEF DataKept
<1>9. StreamsOrdered'
  <2>1. \A k \in DOMAIN copies : copies[k] \in CopyOp
    BY SMTT(30) DEF Types
  <2>2. \A k \in DOMAIN copies : copies[k].id \in Requests
    BY <2>1, SMTT(30) DEF CopyOp
  <2>3. \A q \in Requests : status[q] \in {"sent", "done", "failed"}
                           => status'[q] \in {"sent", "done", "failed"}
    BY Zenon, <1>1
  <2>4. \A k \in DOMAIN copies : copies[k].op = "load" =>
          /\ status'[copies[k].id] \in {"sent", "done", "failed"}
          /\ copies[k].slot = target[copies[k].id]
    BY <2>2, <2>3, Zenon DEF StreamsOrdered
  <2>5. step' # "staging" /\ copies' = copies /\ target' = target
    BY Zenon
  <2> QED
    BY <2>4, <2>5, Zenon DEF StreamsOrdered
<1>10. ComputedOnce'
  BY <1>1, <1>2, <1>4, Zenon DEF ComputedOnce
<1>11. ComputedOnOwnData'
  BY Zenon, <1>1 DEF ComputedOnOwnData
<1> QED
  BY <1>5, <1>6, <1>7, <1>71, <1>8, <1>9, <1>10, <1>11, Zenon

(* The output is staged, so the load and the model are past.               *)
LEMMA FinishStagingStep == OwnDataInv /\ FinishStaging => OwnDataInv'
<1> SUFFICES ASSUME OwnDataInv, FinishStaging PROVE OwnDataInv'
  BY Zenon
<1> USE DEF OwnDataInv
<1>1. PICK r \in Requests : running = r
  BY Zenon DEF FinishStaging, Types
<1>2. /\ UNCHANGED <<target, inbox, mem, allocated, receives, holding, queue, staged, push, copies,
                     kernels, tensors, inputs>>
      /\ step = "staging" /\ StagingDone /\ step' = "idle"
      /\ status' = [status EXCEPT ![r] = "done"]
      /\ freePre' = freePre \/ (target[r] \in PreSlots /\ freePre' = freePre \cup {target[r]})
  BY Zenon, <1>1 DEF FinishStaging, Report, IsPre, output, device
<1>3. Runs(r)
  BY Zenon, <1>1, <1>2 DEF Runs
<1>4. ~In(kernels, r) /\ inputs[r] = r
  BY <1>1, <1>2, <1>3, SMTT(30) DEF ComputedOnce
<1>5. \A k \in DOMAIN copies : copies[k].op # "stage"
  BY Zenon, <1>2 DEF StreamsOrdered, StagingDone
<1> QED
  BY <1>2, <1>3, <1>4, <1>5, RunEnds, Zenon

(* The main thread reports that the model returned an error.               *)
LEMMA ReportErrorStep == OwnDataInv /\ ReportError => OwnDataInv'
<1> SUFFICES ASSUME OwnDataInv, ReportError PROVE OwnDataInv'
  BY Zenon
<1> USE DEF OwnDataInv
<1>1. PICK r \in Requests : running = r
  BY Zenon DEF ReportError, Types
<1>2. /\ UNCHANGED <<target, inbox, mem, allocated, receives, holding, queue, staged, push, copies,
                     kernels, tensors, inputs>>
      /\ step = "forward" /\ step' = "idle" /\ status' = [status EXCEPT ![r] = "failed"]
      /\ freePre' = freePre \/ (target[r] \in PreSlots /\ freePre' = freePre \cup {target[r]})
  BY Zenon, <1>1 DEF ReportError, Report, IsPre, output, device
<1>3. Runs(r)
  BY Zenon, <1>1, <1>2 DEF Runs
<1>4. \A k \in DOMAIN copies : copies[k].op # "stage"
  BY Zenon, <1>2 DEF StreamsOrdered
<1> QED
  BY <1>2, <1>3, <1>4, RunEnds, Zenon

(* An exception costs the running request, and no other.                   *)
LEMMA RaiseStep == OwnDataInv /\ Raise => OwnDataInv'
<1> SUFFICES ASSUME OwnDataInv, Raise PROVE OwnDataInv'
  BY Zenon
<1> USE DEF OwnDataInv
<1>1. PICK r \in Requests : running = r
  BY Zenon DEF Raise, Types
<1>2. /\ UNCHANGED <<status, target, freePre, inbox, mem, receives, holding, queue,
                     staged, push, copies, kernels, tensors, inputs>>
      /\ step = "forward" /\ step' \in {"idle", "ended"} /\ allocated \subseteq allocated'
  BY Zenon DEF Raise, CountError, env, device
<1>3. Runs(r)
  BY <1>1, <1>2, SMTT(30) DEF Runs
<1>4. \A k \in DOMAIN copies : copies[k].op # "stage"
  BY Zenon, <1>2 DEF StreamsOrdered
<1>5. status[r] = "sent"
  BY Zenon, <1>3 DEF OnePlace, Arrived
<1>6. status' = [status EXCEPT ![r] = "sent"]
  BY Zenon, <1>2, <1>5 DEF Types
<1> QED
  BY <1>2, <1>3, <1>4, <1>6, RunEnds, Zenon

-------------------------------------------------------------------------------
(* The invariant holds before anything has arrived.                        *)
LEMMA InitOwnData == ThreadsInit => OwnDataInv
<1> SUFFICES ASSUME ThreadsInit PROVE OwnDataInv
  BY Zenon
<1>1. /\ <<>> \in Seq(Message) /\ <<>> \in Seq(CopyOp) /\ <<>> \in Seq(Requests)
      /\ DOMAIN <<>> = {}
  OBVIOUS
<1>2. Types
  BY Zenon, <1>1 DEF ThreadsInit, Types, Statuses
<1>3. \A r \in Requests : ~Uses(r) /\ ~Arrived(r) /\ ~Runs(r) /\ ~Queued(r)
  BY Zenon, InNone DEF ThreadsInit, Uses, Arrived, InInbox, Queued, Runs
<1>4. OnePlace
  BY <1>3, InNone DEF ThreadsInit, OnePlace, Distinct
<1>5. SlotsHeld
  BY Zenon, <1>3 DEF ThreadsInit, SlotsHeld
<1>51. OutputsApart
  BY Zenon, <1>3 DEF ThreadsInit, OutputsApart
<1>6. DataKept
  BY Zenon, <1>3 DEF DataKept
<1>7. StreamsOrdered
  BY Zenon, <1>1 DEF ThreadsInit, StreamsOrdered
<1>8. ComputedOnce
  BY Zenon, <1>3, InNone DEF ThreadsInit, ComputedOnce
<1>9. ComputedOnOwnData
  BY Zenon DEF ThreadsInit, ComputedOnOwnData
<1> QED
  BY Zenon, <1>2, <1>4, <1>5, <1>51, <1>6, <1>7, <1>8, <1>9 DEF OwnDataInv

(* The device executes a step of a stream: nothing moves on the host.      *)
LEMMA DeviceFrame ==
  ASSUME OwnDataInv,
         UNCHANGED <<status, target, freePre, inbox, allocated, receives, holding, queue,
                     staged, push, running, step, stage>>
  PROVE  /\ OnePlace' /\ SlotsHeld' /\ OutputsApart'
         /\ \A q \in Requests : (InInbox(q)' <=> InInbox(q)) /\ (Runs(q)' <=> Runs(q))
                                /\ (Arrived(q)' <=> Arrived(q)) /\ (Uses(q)' <=> Uses(q))
<1> USE DEF OwnDataInv
<1>1. \A m : (In(inbox', m) <=> In(inbox, m)) /\ (In(holding', m) <=> In(holding, m))
           /\ (In(queue', m) <=> In(queue, m))
  BY Zenon
<1>2. \A q \in Requests : (InInbox(q)' <=> InInbox(q)) /\ (Queued(q)' <=> Queued(q))
                          /\ (Runs(q)' <=> Runs(q)) /\ (Arrived(q)' <=> Arrived(q))
  BY Zenon, NobodyMoves
<1>3. \A q \in Requests : Uses(q)' <=> Uses(q)
  BY Zenon, <1>2 DEF Uses
<1>4. OnePlace'
  BY Zenon, <1>1, <1>2 DEF OnePlace, Distinct
<1>5. SlotsHeld'
  BY Zenon, <1>2, <1>3 DEF SlotsHeld
<1>6. OutputsApart'
  BY Zenon, <1>2, <1>3 DEF OutputsApart
<1> QED
  BY Zenon, <1>2, <1>3, <1>4, <1>5, <1>6

(* Removing the head of the transfer stream                                *)
LEMMA CopyRemoved ==
  ASSUME OwnDataInv, copies # <<>>, copies' = Tail(copies), UNCHANGED <<running, status, target>>
  PROVE  /\ Head(copies) \in CopyOp /\ copies' \in Seq(CopyOp)
         /\ 1 \in DOMAIN copies /\ Head(copies) = copies[1]
         /\ \A k \in DOMAIN copies' : k + 1 \in DOMAIN copies /\ copies'[k] = copies[k + 1]
                                      /\ k \in Nat /\ k + 1 > 1
         /\ \A k \in DOMAIN copies : k = 1 \/ \E j \in DOMAIN copies' : copies'[j] = copies[k]
<1>1. /\ Head(copies) \in CopyOp /\ Head(copies) = copies[1] /\ copies' \in Seq(CopyOp)
      /\ Len(copies) \in Nat /\ Len(copies) >= 1 /\ Len(copies') = Len(copies) - 1
      /\ \A k \in 1 .. Len(copies') : copies'[k] = copies[k + 1]
      /\ DOMAIN copies' = 1 .. Len(copies') /\ DOMAIN copies = 1 .. Len(copies)
  BY HeadTailProperties, LenProperties, EmptySeq DEF OwnDataInv, Types
<1>2. 1 \in DOMAIN copies
  BY <1>1
<1>3. \A k \in DOMAIN copies' : k + 1 \in DOMAIN copies /\ copies'[k] = copies[k + 1]
                                /\ k \in Nat /\ k + 1 > 1
  BY <1>1
<1>4. ASSUME NEW k \in DOMAIN copies, k # 1
      PROVE  \E j \in DOMAIN copies' : copies'[j] = copies[k]
  <2>1. k - 1 \in DOMAIN copies' /\ (k - 1) + 1 = k
    BY <1>1, <1>4
  <2> QED
    BY Zenon, <1>1, <2>1
<1> QED
  BY Zenon, <1>1, <1>2, <1>3, <1>4

(* What is enqueued behind the first operation of a stream keeps its order *)
(* when that operation has run.                                            *)
LEMMA ShiftedStreams ==
  ASSUME OwnDataInv, copies # <<>>, copies' = Tail(copies),
         UNCHANGED <<status, target, freePre, inbox, allocated, receives, holding, queue,
                     staged, push, running, step, stage>>
  PROVE  StreamsOrdered'
<1> USE DEF OwnDataInv
<1>1. \A k \in DOMAIN copies' : k + 1 \in DOMAIN copies /\ copies'[k] = copies[k + 1] /\ k \in Nat
  BY Zenon, CopyRemoved
<1>2. ASSUME NEW k \in DOMAIN copies', copies'[k].op = "load"
      PROVE  /\ status[copies'[k].id] \in {"sent", "done", "failed"}
             /\ copies'[k].slot = target[copies'[k].id]
  BY Zenon, <1>1, <1>2 DEF StreamsOrdered
<1>3. ASSUME NEW k \in DOMAIN copies', copies'[k].op = "stage"
      PROVE  /\ step = "staging" /\ copies'[k].id = running /\ copies'[k].slot = stage
             /\ \A j \in DOMAIN copies' :
                  j > k /\ copies'[j].op = "load" => copies'[j].id # running
  <2>1. \A j \in DOMAIN copies' : j > k => j + 1 > k + 1
    BY <1>1
  <2> QED
    BY <1>1, <1>3, <2>1 DEF StreamsOrdered
<1>4. \A q \in Requests : Uses(q)' <=> Uses(q)
  BY Zenon, DeviceFrame
<1> QED
  BY ZenonT(60), <1>2, <1>3, <1>4 DEF StreamsOrdered

(* A load of a request that still counts reads that request's data.        *)
LEMMA CopyLoadStep ==
  ASSUME OwnDataInv, Copy, Head(copies).op = "load"
  PROVE  OwnDataInv'
<1> USE DEF OwnDataInv
<1>1. PICK c \in CopyOp : c = Head(copies)
  BY Zenon, CopyRemoved DEF Copy, output, main
<1>2. /\ UNCHANGED <<status, target, freePre, inbox, allocated, receives, holding, queue,
                     staged, push, running, step, stage, mem, kernels, inputs>>
      /\ copies # <<>> /\ copies' = Tail(copies) /\ c.op = "load"
      /\ tensors' = [tensors EXCEPT ![c.id] = mem[c.slot]]
  BY Zenon, <1>1 DEF Copy, output, main
<1>3. /\ copies' \in Seq(CopyOp) /\ 1 \in DOMAIN copies /\ c = copies[1]
      /\ \A k \in DOMAIN copies' : k + 1 \in DOMAIN copies /\ copies'[k] = copies[k + 1]
      /\ \A k \in DOMAIN copies : k = 1 \/ \E j \in DOMAIN copies' : copies'[j] = copies[k]
  BY Zenon, <1>1, <1>2, CopyRemoved
<1>4. c.id \in Requests /\ c.slot \in Slots /\ c.slot = target[c.id] /\ ~LoadDone(c.id)
  BY Zenon, <1>2, <1>3 DEF CopyOp, StreamsOrdered, LoadDone
<1>5. \A q \in Requests : q # c.id => (LoadDone(q)' <=> LoadDone(q))
  BY <1>3 DEF LoadDone
<1>6. /\ OnePlace' /\ SlotsHeld' /\ OutputsApart' /\ StreamsOrdered'
      /\ \A q \in Requests : (InInbox(q)' <=> InInbox(q)) /\ (Runs(q)' <=> Runs(q))
                             /\ (Arrived(q)' <=> Arrived(q)) /\ (Uses(q)' <=> Uses(q))
  BY Zenon, <1>2, DeviceFrame, ShiftedStreams
<1>7. Types'
  BY Zenon, <1>2, <1>3, <1>4 DEF Types
<1>8. DataKept'
  <2> SUFFICES ASSUME NEW q \in Requests, Arrived(q)
               PROVE  IF InInbox(q) \/ ~LoadDone(q)' THEN mem[target[q]] = q ELSE tensors'[q] = q
    BY Zenon, <1>2, <1>6 DEF DataKept
  <2>1. CASE q = c.id
    <3>1. mem[target[q]] = q
      BY Zenon, <1>4, <2>1 DEF DataKept
    <3>2. tensors'[q] = mem[target[q]]
      BY Zenon, <1>2, <1>4, <2>1 DEF Types
    <3> QED
      BY Zenon, <3>1, <3>2
  <2>2. CASE q # c.id
    <3>1. tensors'[q] = tensors[q]
      BY <1>2, <2>2, SMTT(30) DEF Types
    <3> QED
      BY Zenon, <1>5, <2>2, <3>1 DEF DataKept
  <2> QED
    BY Zenon, <2>1, <2>2
<1>9. ComputedOnce'
  <2>1. StagingDone' => StagingDone
    BY <1>2, <1>3 DEF StagingDone
  <2>2. \A q : In(kernels', q) <=> In(kernels, q)
    BY Zenon, <1>2
  <2> QED
    BY Zenon, <1>2, <1>6, <2>1, <2>2 DEF ComputedOnce
<1>10. ComputedOnOwnData'
  BY Zenon, <1>2 DEF ComputedOnOwnData
<1> QED
  BY Zenon, <1>6, <1>7, <1>8, <1>9, <1>10

(* A staging overwrites a slot whose data, if anybody's, is loaded.        *)
LEMMA CopyStageStep ==
  ASSUME OwnDataInv, Copy, Head(copies).op = "stage"
  PROVE  OwnDataInv'
<1> USE DEF OwnDataInv
<1>1. PICK c \in CopyOp : c = Head(copies)
  BY Zenon, CopyRemoved DEF Copy, output, main
<1>2. /\ UNCHANGED <<status, target, freePre, inbox, allocated, receives, holding, queue,
                     staged, push, running, step, stage, kernels, inputs, tensors>>
      /\ copies # <<>> /\ copies' = Tail(copies) /\ c.op = "stage"
      /\ mem' = [mem EXCEPT ![c.slot] = NoReq] /\ ~In(kernels, c.id)
  BY Zenon, <1>1 DEF Copy, output, main, In
<1>3. /\ copies' \in Seq(CopyOp) /\ 1 \in DOMAIN copies /\ c = copies[1]
      /\ \A k \in DOMAIN copies' : /\ k + 1 \in DOMAIN copies /\ copies'[k] = copies[k + 1]
                                   /\ k + 1 > 1
      /\ \A k \in DOMAIN copies : k = 1 \/ \E j \in DOMAIN copies' : copies'[j] = copies[k]
  BY Zenon, <1>1, <1>2, CopyRemoved
<1>4. /\ step = "staging" /\ c.id = running /\ c.slot = stage
      /\ \A j \in DOMAIN copies : j > 1 /\ copies[j].op = "load" => copies[j].id # running
  BY Zenon, <1>2, <1>3 DEF StreamsOrdered
<1>5. \A q \in Requests : LoadDone(q)' <=> LoadDone(q)
  BY <1>2, <1>3 DEF LoadDone
<1>6. /\ OnePlace' /\ SlotsHeld' /\ OutputsApart' /\ StreamsOrdered'
      /\ \A q \in Requests : (InInbox(q)' <=> InInbox(q)) /\ (Runs(q)' <=> Runs(q))
                             /\ (Arrived(q)' <=> Arrived(q)) /\ (Uses(q)' <=> Uses(q))
  BY Zenon, <1>2, DeviceFrame, ShiftedStreams
<1>7. Types'
  BY <1>2, <1>3, Zenon DEF Types
<1>8. DataKept'
  <2> SUFFICES ASSUME NEW q \in Requests, Arrived(q), InInbox(q) \/ ~LoadDone(q)
               PROVE  mem'[target[q]] = q
    BY Zenon, <1>2, <1>5, <1>6 DEF DataKept
  <2>1. q # running
    <3> SUFFICES ASSUME q = running PROVE FALSE
      BY Zenon
    <3>1. Runs(q)
      BY Zenon, <1>4 DEF Runs
    <3>2. ~LoadDone(q)
      BY Zenon, <3>1 DEF OnePlace
    <3>3. PICK k \in DOMAIN copies : copies[k].op = "load" /\ copies[k].id = q
      BY Zenon, <3>2 DEF LoadDone
    <3>4. k # 1 /\ ~(k > 1)
      BY Zenon, <1>2, <1>3, <1>4, <3>3
    <3>5. DOMAIN copies = 1 .. Len(copies) /\ Len(copies) \in Nat
      BY Zenon, LenProperties DEF Types
    <3> QED
      BY <3>4, <3>5
  <2>2. Uses(q) /\ target[q] # stage /\ target[q] \in Slots
    BY <1>4, <2>1, Zenon DEF StreamsOrdered, SlotsHeld, Uses
  <2>3. mem'[target[q]] = mem[target[q]]
    BY <1>2, <1>4, <2>2, ZenonT(30) DEF Types
  <2> QED
    BY <2>3, Zenon DEF DataKept
<1>9. ComputedOnce'
  <2>1. \A q : In(kernels', q) <=> In(kernels, q)
    BY Zenon, <1>2
  <2> QED
    BY Zenon, <1>2, <1>4, <1>6, <2>1 DEF ComputedOnce
<1>10. ComputedOnOwnData'
  BY Zenon, <1>2 DEF ComputedOnOwnData
<1> QED
  BY Zenon, <1>6, <1>7, <1>8, <1>9, <1>10

(* The model of a request that still counts runs after its load.           *)
LEMMA ComputeStep == OwnDataInv /\ Compute => OwnDataInv'
<1> SUFFICES ASSUME OwnDataInv, Compute PROVE OwnDataInv'
  BY Zenon
<1> USE DEF OwnDataInv
<1>1. /\ kernels # <<>> /\ kernels' = Tail(kernels)
      /\ UNCHANGED <<status, target, freePre, inbox, mem, allocated, receives, holding, queue,
                     staged, push, running, step, stage, copies, tensors>>
  BY Zenon DEF Compute, env, output, main
<1>2. /\ Head(kernels) \in Requests /\ kernels' \in Seq(Requests)
      /\ \A q : In(kernels, q) <=> In(kernels', q) \/ q = Head(kernels)
  BY Zenon, <1>1, InTail DEF Types
<1>3. PICK r \in Requests : r = Head(kernels)
  BY Zenon, <1>2
<1>4. LoadDone(r) /\ inputs' = [inputs EXCEPT ![r] = tensors[r]] /\ In(kernels, r)
  BY Zenon, <1>2, <1>3 DEF Compute, LoadEventSeen
<1>5. inputs'[r] = tensors[r] /\ \A q \in Requests : q # r => inputs'[q] = inputs[q]
  BY Zenon, <1>4 DEF Types
<1>6. /\ OnePlace' /\ SlotsHeld' /\ OutputsApart'
      /\ \A q \in Requests : (InInbox(q)' <=> InInbox(q)) /\ (Runs(q)' <=> Runs(q))
                             /\ (Arrived(q)' <=> Arrived(q)) /\ (Uses(q)' <=> Uses(q))
  BY Zenon, <1>1, DeviceFrame
<1>7. /\ \A q \in Requests : LoadDone(q)' <=> LoadDone(q)
      /\ StagingDone' <=> StagingDone
  BY Zenon, <1>1 DEF LoadDone, StagingDone
<1>8. Types'
  BY <1>1, <1>2, <1>4, Zenon DEF Types
<1>9. DataKept'
  BY <1>1, <1>6, <1>7, Zenon DEF DataKept
<1>10. StreamsOrdered'
  BY ZenonT(60), <1>1, <1>6 DEF StreamsOrdered
<1>11. ComputedOnce'
  <2>1. Runs(r) => tensors[r] = r
    BY Zenon, <1>4 DEF OnePlace, DataKept, Arrived
  <2>2. \A q \in Requests : Runs(q) => In(kernels', q) \/ inputs'[q] = q
    BY Zenon, <1>2, <1>3, <1>5, <2>1 DEF ComputedOnce
  <2> QED
    BY <1>1, <1>2, <1>6, <1>7, <2>2, Zenon DEF ComputedOnce
<1>12. ComputedOnOwnData'
  BY Zenon, <1>1, <1>4, <1>5 DEF ComputedOnOwnData, ComputedOnce
<1> QED
  BY Zenon, <1>6, <1>8, <1>9, <1>10, <1>11, <1>12

(* The invariant of the threads is inductive: it holds in every reachable  *)
(* state of them.                                                          *)
THEOREM OwnDataHolds == ThreadsSpec => []OwnDataInv
<1>1. OwnDataInv /\ [ThreadsNext]_threadVars => OwnDataInv'
  <2> SUFFICES ASSUME OwnDataInv, [ThreadsNext]_threadVars PROVE OwnDataInv'
    BY Zenon
  <2>1. CASE \E r \in Requests : OfferPrealloc(r) \/ AskForSlot(r) \/ PushArrives(r)
    BY Zenon, <2>1, OfferPreallocStep, AskForSlotStep, PushArrivesStep
  <2>2. CASE Recv
    BY <2>2, RecvReadyStep, RecvAllocStep, Zenon DEF Recv
  <2>21. CASE PrefetchRaises
    BY Zenon, <2>21, PrefetchRaisesStep
  <2>3. CASE Put
    BY Zenon, <2>3, PutStep
  <2>4. CASE HandleAlloc
    BY Zenon, <2>4, HandleAllocStep
  <2>5. CASE \E r \in Requests : StartCompute(r) \/ SetupRaises(r)
    BY Zenon, <2>5, StartComputeStep, SetupRaisesStep
  <2>51. CASE \E r \in Requests : RecvPush(r) \/ RdmaPush(r)
    BY Zenon, <2>51, RecvPushStep, RdmaPushStep
  <2>6. CASE StartStaging
    BY Zenon, <2>6, StartStagingStep
  <2>7. CASE FinishStaging
    BY Zenon, <2>7, FinishStagingStep
  <2>8. CASE ReportError
    BY Zenon, <2>8, ReportErrorStep
  <2>9. CASE Raise
    BY Zenon, <2>9, RaiseStep
  <2>10. CASE Copy
    BY Zenon, <2>10, CopyLoadStep, CopyStageStep DEF Copy
  <2>11. CASE Compute
    BY Zenon, <2>11, ComputeStep
  <2>12. CASE UNCHANGED threadVars
    <3>1. UNCHANGED <<status, target, freePre, inbox, mem, allocated, receives, holding, queue,
                      staged, push, running, step, stage, copies, kernels, tensors, inputs>>
      BY Zenon, <2>12 DEF threadVars
    <3>2. Types' /\ OnePlace'
      BY Zenon, <3>1, DeviceFrame DEF OwnDataInv, Types
    <3>3. \A q \in Requests : (InInbox(q)' <=> InInbox(q)) /\ (Queued(q)' <=> Queued(q))
      BY Zenon, <3>1, NobodyMoves
    <3> QED
      BY Zenon, <3>1, <3>2, <3>3, MessagesMove
  <2> QED
    BY Zenon, <2>1, <2>2, <2>21, <2>3, <2>4, <2>5, <2>51, <2>6, <2>7, <2>8, <2>9, <2>10, <2>11,
       <2>12 DEF ThreadsNext, HostNext
<1> QED
  BY InitOwnData, <1>1, PTL DEF ThreadsSpec

(* A request reported as done was computed on its own data, for every      *)
(* number of requests, preallocated slots and blocks, whatever fails.      *)
THEOREM AlwaysOwnData == ThreadsSpec => []ComputedOnOwnData
<1>1. OwnDataInv => ComputedOnOwnData
  BY Zenon DEF OwnDataInv
<1> QED
  BY <1>1, OwnDataHolds, PTL

-------------------------------------------------------------------------------
(* The pool: where every block that is taken is.                           *)

(* No slot is none, and no slot belongs to both pools.                     *)
LEMMA NoSlotIsNone == NoSlot \notin Slots /\ PreSlots \cap PoolSlots = {}
BY ReceiverAssumption DEF NoSlot, Slots

(* A request that was lost stays lost: no thread has its message.          *)
LEMMA LostStays ==
  ASSUME OwnDataInv, [ThreadsNext]_threadVars, NEW r \in Requests, Lost(r)
  PROVE  Lost(r)'
<1> USE DEF OwnDataInv
<1>1. status[r] = "sent" /\ ~InInbox(r) /\ ~Queued(r) /\ ~Runs(r)
  BY Zenon DEF Lost, Arrived
<1>2. ~In(inbox, Ready(r)) /\ ~In(holding, Ready(r)) /\ ~In(queue, Ready(r))
  BY Zenon, <1>1 DEF InInbox, Queued
<1>3. SUFFICES /\ status'[r] = "sent" /\ ~In(inbox', Ready(r)) /\ ~In(holding', Ready(r))
               /\ ~In(queue', Ready(r)) /\ ~Runs(r)'
  BY Zenon DEF Lost, Arrived, InInbox, Queued
<1>4. ASSUME NEW q \in Requests, OfferPrealloc(q) \/ AskForSlot(q) \/ PushArrives(q)
      PROVE  /\ status'[r] = "sent" /\ ~In(inbox', Ready(r)) /\ ~In(holding', Ready(r))
             /\ ~In(queue', Ready(r)) /\ ~Runs(r)'
  <2>1. /\ status[q] \in {"new", "offered"} /\ UNCHANGED <<holding, queue, running, step>>
        /\ \E o \in Statuses : status' = [status EXCEPT ![q] = o]
        /\ inbox' = inbox \/ inbox' = Append(inbox, Alloc(q)) \/ inbox' = Append(inbox, Ready(q))
    BY Zenon, <1>4 DEF OfferPrealloc, AskForSlot, PushArrives, output, main, Alloc, Ready, Statuses
  <2>2. q # r
    BY <1>1, <2>1
  <2>3. status'[r] = "sent"
    BY Zenon, <1>1, <2>1, <2>2 DEF Types
  <2>4. Ready(q) # Ready(r) /\ Alloc(q) # Ready(r)
    BY Zenon, <2>2, Messages
  <2>5. ~In(inbox', Ready(r))
    <3>1. \A m \in Message : In(Append(inbox, m), Ready(r)) <=> In(inbox, Ready(r)) \/ Ready(r) = m
      BY Zenon, InAppend DEF Types
    <3>2. Alloc(q) \in Message /\ Ready(q) \in Message
      BY Zenon, Messages
    <3>3. QED  BY Zenon, <1>2, <2>1, <2>4, <3>1, <3>2
  <2>6. QED  BY Zenon, <1>1, <1>2, <2>1, <2>3, <2>5 DEF Runs
<1>5. CASE Recv
  <2>1. /\ inbox # <<>> /\ inbox' = Tail(inbox) /\ holding' = <<Head(inbox)>>
        /\ UNCHANGED <<status, queue, running, step>>
    BY Zenon, <1>5 DEF Recv, main
  <2>2. ~In(inbox', Ready(r)) /\ Head(inbox) # Ready(r)
    BY Zenon, <1>2, <2>1, InTail DEF Types
  <2>3. ~In(holding', Ready(r))
    BY Zenon, <2>1, <2>2, InOne
  <2>4. QED  BY Zenon, <1>1, <1>2, <2>1, <2>2, <2>3 DEF Runs
<1>51. CASE PrefetchRaises
  <2>1. inbox # <<>> /\ inbox' = Tail(inbox) /\ UNCHANGED <<status, holding, queue, running, step>>
    BY Zenon, <1>51 DEF PrefetchRaises, main
  <2>2. ~In(inbox', Ready(r))
    BY Zenon, <1>2, <2>1, InTail DEF Types
  <2>3. QED  BY Zenon, <1>1, <1>2, <2>1, <2>2 DEF Runs
<1>6. CASE Put
  <2>1. /\ holding # <<>> /\ queue' = Append(queue, holding[1]) /\ holding' = <<>>
        /\ UNCHANGED <<status, inbox, running, step>>
    BY Zenon, <1>6 DEF Put, QueuePut, env, main
  <2>2. PICK m \in Message : holding = <<m>>
    BY Zenon, <2>1 DEF Types
  <2>3. holding[1] = m
    BY <2>2
  <2>4. m # Ready(r)
    BY Zenon, <1>2, <2>2, InOne
  <2>5. ~In(queue', Ready(r)) /\ ~In(holding', Ready(r))
    <3>1. In(Append(queue, m), Ready(r)) <=> In(queue, Ready(r)) \/ Ready(r) = m
      BY Zenon, InAppend DEF Types
    <3>2. queue' = Append(queue, m)
      BY Zenon, <2>1, <2>3
    <3>3. QED  BY Zenon, <1>2, <2>1, <2>4, <3>1, <3>2, InNone
  <2>6. QED  BY Zenon, <1>1, <1>2, <2>1, <2>5 DEF Runs
<1>7. CASE HandleAlloc
  <2>1. /\ queue # <<>> /\ queue' = Tail(queue) /\ Head(queue).type = "ALLOC"
        /\ UNCHANGED <<inbox, holding, running, step>>
        /\ status' = status \/ status' = [status EXCEPT ![Head(queue).id] = "offered"]
    BY Zenon, <1>7 DEF HandleAlloc, Idle
  <2>2. Head(queue) \in Message /\ In(queue, Head(queue)) /\ ~In(queue', Ready(r))
    BY Zenon, <1>2, <2>1, InTail DEF Types
  <2>3. Head(queue).id \in Requests /\ status[Head(queue).id] = "asked"
    BY Zenon, <2>1, <2>2, Messages DEF OnePlace
  <2>4. Head(queue).id # r
    BY <1>1, <2>3
  <2>5. status'[r] = "sent"
    BY Zenon, <1>1, <2>1, <2>4 DEF Types
  <2>6. QED  BY Zenon, <1>1, <1>2, <2>1, <2>2, <2>5 DEF Runs
<1>8. ASSUME NEW q \in Requests, StartCompute(q) \/ SetupRaises(q)
      PROVE  /\ status'[r] = "sent" /\ ~In(inbox', Ready(r)) /\ ~In(holding', Ready(r))
             /\ ~In(queue', Ready(r)) /\ ~Runs(r)'
  <2>1. /\ queue # <<>> /\ queue' = Tail(queue) /\ Head(queue) = Ready(q)
        /\ UNCHANGED <<status, inbox, holding>>
        /\ running' = q \/ step' \in {"idle", "ended"}
    BY Zenon, <1>8 DEF StartCompute, SetupRaises, TakeLoaded, Idle, CountError, env, Ready
  <2>2. ~In(queue', Ready(r)) /\ In(queue, Ready(q))
    BY Zenon, <1>2, <2>1, InTail DEF Types
  <2>3. q # r
    BY Zenon, <1>2, <2>2
  <2>4. ~Runs(r)'
    BY <2>1, <2>3 DEF Runs
  <2>5. QED  BY Zenon, <1>1, <1>2, <2>1, <2>2, <2>4
<1>9. CASE StartStaging \/ FinishStaging \/ ReportError \/ Raise
  <2>1. /\ UNCHANGED <<inbox, holding, queue>> /\ step \in {"forward", "staging"}
        /\ running' = running \/ step' \in {"idle", "ended"}
        /\ \/ status' = status
           \/ \E o \in Statuses : status' = [status EXCEPT ![running] = o]
    BY Zenon, <1>9 DEF StartStaging, FinishStaging, ReportError, Raise, Report, CountError, env,
                       Statuses
  <2>2. running \in Requests /\ running # r
    BY Zenon, <1>1, <2>1 DEF Types, Runs
  <2>3. status'[r] = "sent"
    BY Zenon, <1>1, <2>1, <2>2 DEF Types
  <2>4. ~Runs(r)'
    BY <2>1, <2>2 DEF Runs
  <2>5. QED  BY Zenon, <1>2, <2>1, <2>3, <2>4
<1>10. CASE \/ Copy \/ Compute \/ UNCHANGED threadVars
            \/ \E q \in Requests : RecvPush(q) \/ RdmaPush(q)
  <2>1. UNCHANGED <<status, inbox, holding, queue, running, step>>
    BY Zenon, <1>10 DEF Copy, Compute, RecvPush, RdmaPush, threadVars, env, main
  <2>2. QED  BY Zenon, <1>1, <1>2, <2>1 DEF Runs
<1>11. QED
  BY Zenon, <1>4, <1>5, <1>51, <1>6, <1>7, <1>8, <1>9, <1>10 DEF ThreadsNext, HostNext

(* The blocks stay accounted for when one request gives up what it held    *)
(* and takes blocks that are free.                                         *)
LEMMA HeldChanges ==
  ASSUME BlocksHeld, NEW r \in Requests, \A q \in Requests : q # r => Held(q)' = Held(q),
         NEW old, NEW new, Held(r) = old, Held(r)' = new,
         allocated' = (allocated \ old) \cup new, new \cap allocated \subseteq old
  PROVE  BlocksHeld'
<1>1. \A q \in Requests : Held(q) \subseteq PoolSlots
  BY Zenon DEF Held
<1>2. new \subseteq PoolSlots
  BY Zenon DEF Held
<1>3. PreSlots \subseteq allocated' /\ allocated' \subseteq Slots
  BY Zenon, <1>1, <1>2, NoSlotIsNone DEF BlocksHeld, Slots
<1>4. \A s \in allocated' \ PreSlots : \E q \in Requests : s \in Held(q)'
  <2> SUFFICES ASSUME NEW s \in allocated' \ PreSlots, s \notin new
               PROVE  \E q \in Requests : s \in Held(q)'
    BY Zenon
  <2>1. PICK q \in Requests : s \in Held(q)
    BY Zenon DEF BlocksHeld
  <2>2. q # r
    BY Zenon, <2>1
  <2> QED
    BY Zenon, <2>1, <2>2
<1>5. \A q \in Requests : q # r => Held(q) \subseteq allocated' /\ Held(q) \cap new = {}
  BY Zenon DEF BlocksHeld
<1>6. \A q \in Requests : Held(q)' \subseteq allocated'
  BY Zenon, <1>5
<1>7. ASSUME NEW p \in Requests, NEW q \in Requests, p # q
      PROVE  Held(p)' \cap Held(q)' = {}
  <2>1. CASE p = r
    BY Zenon, <1>5, <1>7, <2>1
  <2>2. CASE q = r
    BY Zenon, <1>5, <1>7, <2>2
  <2>3. CASE p # r /\ q # r
    <3>1. Held(p)' = Held(p) /\ Held(q)' = Held(q) /\ Held(p) \cap Held(q) = {}
      BY Zenon, <1>7, <2>3 DEF BlocksHeld
    <3> QED
      BY Zenon, <3>1
  <2> QED
    BY Zenon, <2>1, <2>2, <2>3
<1> QED
  BY Zenon, <1>3, <1>4, <1>6, <1>7 DEF BlocksHeld

(* Nor does a step matter in which no request takes or gives up a block.   *)
LEMMA HeldStays ==
  ASSUME BlocksHeld, allocated' = allocated, \A r \in Requests : Held(r)' = Held(r)
  PROVE  BlocksHeld'
<1>1. PreSlots \subseteq allocated' /\ allocated' \subseteq Slots
  BY Zenon DEF BlocksHeld
<1>2. ASSUME NEW s \in allocated' \ PreSlots PROVE \E r \in Requests : s \in Held(r)'
  <2>1. s \in allocated \ PreSlots
    BY <1>2
  <2>2. PICK r \in Requests : s \in Held(r)
    BY Zenon, <2>1 DEF BlocksHeld
  <2>3. s \in Held(r)'
    BY <2>2
  <2> QED
    BY Zenon, <2>3
<1>3. ASSUME NEW r \in Requests PROVE Held(r)' \subseteq allocated'
  <2>1. Held(r) \subseteq allocated /\ Held(r)' = Held(r)
    BY Zenon DEF BlocksHeld
  <2> QED
    BY <2>1
<1>4. ASSUME NEW r \in Requests, NEW q \in Requests, r # q
      PROVE  Held(r)' \cap Held(q)' = {}
  <2>1. Held(r)' = Held(r) /\ Held(q)' = Held(q) /\ Held(r) \cap Held(q) = {}
    BY Zenon, <1>4 DEF BlocksHeld
  <2> QED
    BY Zenon, <2>1
<1> QED
  BY Zenon, <1>1, <1>2, <1>3, <1>4 DEF BlocksHeld

(* Which block a request holds, by its progress                            *)
LEMMA HeldByProgress ==
  ASSUME OwnDataInv, PoolInv, NEW r \in Requests
  PROVE  /\ status[r] \in {"new", "asked"} =>
              receives[r] = NoSlot /\ staged[r] = NoSlot /\ leaked[r] = NoSlot
         /\ InInbox(r) \/ Queued(r) => staged[r] = NoSlot /\ leaked[r] = NoSlot
         /\ Runs(r) => /\ receives[r] = NoSlot /\ leaked[r] = NoSlot
                       /\ step = "forward" => staged[r] = NoSlot
         /\ status[r] = "done" => receives[r] = NoSlot /\ leaked[r] = NoSlot
<1>1. /\ Runs(r) => Arrived(r) /\ ~InInbox(r) /\ ~Queued(r)
      /\ InInbox(r) \/ Queued(r) => Arrived(r)
      /\ Arrived(r) => status[r] = "sent" /\ ~Lost(r)
      /\ Lost(r) => status[r] = "sent"
      /\ step = "staging" /\ running = r => Runs(r)
  BY Zenon DEF OwnDataInv, OnePlace, Arrived, Lost, Runs
<1>2. status[r] # "sent" /\ status[r] # "offered" => receives[r] = NoSlot /\ leaked[r] = NoSlot
  BY Zenon, <1>1 DEF PoolInv, InFlight
<1>3. status[r] # "done" /\ ~Runs(r) => staged[r] = NoSlot
  BY Zenon, <1>1 DEF PoolInv
<1>4. Arrived(r) => leaked[r] = NoSlot
  BY Zenon, <1>1 DEF PoolInv
<1>5. Runs(r) => receives[r] = NoSlot
  BY Zenon DEF PoolInv
<1>6. Runs(r) /\ step = "forward" => staged[r] = NoSlot
  <2>1. "forward" # "staging" /\ "sent" # "done"
    OBVIOUS
  <2> QED
    BY Zenon, <1>1, <2>1 DEF PoolInv
<1>7. /\ status[r] \in {"new", "asked"} => status[r] # "sent" /\ status[r] # "offered" /\ status[r] # "done"
      /\ status[r] = "done" => status[r] # "sent" /\ status[r] # "offered"
      /\ status[r] = "sent" => status[r] # "done"
  OBVIOUS
<1>8. status[r] \in {"new", "asked"} \/ InInbox(r) \/ Queued(r) => ~Runs(r)
  BY Zenon, <1>1, <1>7
<1> QED
  BY Zenon, <1>1, <1>2, <1>3, <1>4, <1>5, <1>6, <1>7, <1>8

(* A step that moves no slot and brings no request back                    *)
LEMMA PoolFrame ==
  ASSUME PoolInv, UNCHANGED <<target, freePre, allocated, receives, staged, push, leaked,
                              running, step>>,
         \A r \in Requests : InFlight(r)' <=> InFlight(r),
         \A r \in Requests : status[r] = "done" => status'[r] = "done",
         \A r \in Requests : Lost(r) => Lost(r)'
  PROVE  PoolInv'
<1>1. \A r \in Requests : Held(r)' = Held(r)
  BY Zenon DEF Held
<1>2. BlocksHeld'
  BY Zenon, <1>1, HeldStays DEF PoolInv
<1>3. \A r \in Requests : Runs(r)' <=> Runs(r)
  BY Zenon DEF Runs
<1> QED
  BY Zenon, <1>2, <1>3 DEF PoolInv

(* The server offers a preallocated slot.                                  *)
LEMMA OfferPreallocPool ==
  ASSUME OwnDataInv, PoolInv, NEW r \in Requests, OfferPrealloc(r),
         \A q \in Requests : Lost(q) => Lost(q)'
  PROVE  PoolInv'
<1>1. PICK s \in freePre :
        /\ status[r] = "new" /\ status' = [status EXCEPT ![r] = "offered"]
        /\ target' = [target EXCEPT ![r] = s] /\ freePre' = freePre \ {s}
        /\ UNCHANGED <<allocated, receives, staged, push, leaked, running, step>>
  BY Zenon DEF OfferPrealloc, output, main
<1>2. /\ ~InFlight(r) /\ InFlight(r)' /\ target'[r] = s /\ status[r] # "done"
      /\ \A q \in Requests \ {r} : /\ InFlight(q)' <=> InFlight(q)
                                   /\ target'[q] = target[q] /\ status'[q] = status[q]
      /\ \A q \in Requests : Runs(q)' <=> Runs(q)
  BY <1>1 DEF OwnDataInv, Types, InFlight, Runs
<1>3. receives[r] = NoSlot
  BY Zenon, <1>2 DEF PoolInv
<1>4. BlocksHeld'
  BY Zenon, <1>1 DEF PoolInv, BlocksHeld, Held
<1>5. ASSUME NEW x \in PreSlots \ freePre'
      PROVE  \E q \in Requests : InFlight(q)' /\ target'[q] = x
  <2>1. CASE x = s
    BY Zenon, <1>2, <2>1
  <2>2. CASE x # s
    <3>1. PICK q \in Requests : InFlight(q) /\ target[q] = x
      BY Zenon, <1>1, <2>2 DEF PoolInv
    <3>2. q \in Requests \ {r}
      BY Zenon, <1>2, <3>1
    <3> QED
      BY Zenon, <1>2, <3>1, <3>2
  <2> QED
    BY Zenon, <2>1, <2>2
<1>6. \A q \in Requests : receives'[q] # NoSlot => InFlight(q)' /\ ~Runs(q)' /\ receives'[q] = target'[q]
  BY Zenon, <1>1, <1>2, <1>3 DEF PoolInv
<1>7. \A q \in Requests : staged'[q] # NoSlot => \/ status'[q] = "done" /\ push'[q] # "pushed"
                                                 \/ step' = "staging" /\ running' = q
  BY Zenon, <1>1, <1>2 DEF PoolInv
<1>8. \A q \in Requests : leaked'[q] # NoSlot => Lost(q)' /\ receives'[q] = NoSlot
  BY Zenon, <1>1 DEF PoolInv
<1>9. leaked' \in [Requests -> PoolSlots \cup {NoSlot}]
  BY Zenon, <1>1 DEF PoolInv
<1> QED
  BY Zenon, <1>4, <1>5, <1>6, <1>7, <1>8, <1>9 DEF PoolInv

(* A READY is received: the receive slot is the target of the request,     *)
(* also when its load could not be started.                                *)
LEMMA ReceiveSlotPool ==
  ASSUME OwnDataInv, PoolInv, NEW r \in Requests, InInbox(r),
         receives' = [receives EXCEPT ![r] = ReceiveSlot(r)],
         UNCHANGED <<status, target, freePre, allocated, staged, push, leaked, running, step>>,
         \A q \in Requests : Lost(q) => Lost(q)'
  PROVE  PoolInv'
<1>1. ~Runs(r) /\ status[r] = "sent" /\ Uses(r)
  BY Zenon DEF OwnDataInv, OnePlace, Arrived, Uses
<1>2. target[r] \in Slots /\ (target[r] \notin PreSlots => receives[r] = target[r])
  BY Zenon, <1>1 DEF OwnDataInv, SlotsHeld
<1>3. receives' = [receives EXCEPT ![r] = target[r]]
  BY Zenon, <1>2 DEF ReceiveSlot, IsPre
<1>4. receives'[r] = target[r] /\ \A q \in Requests \ {r} : receives'[q] = receives[q]
  BY <1>3 DEF OwnDataInv, Types
<1>5. receives[r] = target[r] \/ (receives[r] = NoSlot /\ target[r] \in PreSlots)
  BY Zenon, <1>2 DEF PoolInv
<1>6. \A q \in Requests : Held(q)' = Held(q)
  <2>1. Held(r)' = Held(r)
    BY Zenon, <1>4, <1>5, NoSlotIsNone DEF Held, Slots
  <2>2. \A q \in Requests \ {r} : Held(q)' = Held(q)
    BY Zenon, <1>4 DEF Held
  <2> QED
    BY Zenon, <2>1, <2>2
<1>7. BlocksHeld'
  BY Zenon, <1>6, HeldStays DEF PoolInv
<1>8. InFlight(r) /\ \A q \in Requests : (InFlight(q)' <=> InFlight(q)) /\ (Runs(q)' <=> Runs(q))
  BY Zenon, <1>1 DEF InFlight, Runs
<1>9. \A q \in Requests :
        receives'[q] # NoSlot => InFlight(q)' /\ ~Runs(q)' /\ receives'[q] = target[q]
  BY Zenon, <1>1, <1>4, <1>8 DEF PoolInv
<1>10. leaked[r] = NoSlot
  BY Zenon, HeldByProgress
<1>11. \A q \in Requests : leaked[q] # NoSlot => Lost(q)' /\ receives'[q] = NoSlot
  BY Zenon, <1>4, <1>10 DEF PoolInv
<1>12. \A s \in PreSlots \ freePre : \E q \in Requests : InFlight(q)' /\ target[q] = s
  BY Zenon, <1>8 DEF PoolInv
<1> QED
  BY Zenon, <1>7, <1>9, <1>11, <1>12 DEF PoolInv

(* The recv thread takes a message, or drops a READY.                      *)
LEMMA RecvPool ==
  ASSUME OwnDataInv, PoolInv, Recv \/ PrefetchRaises, \A q \in Requests : Lost(q) => Lost(q)'
  PROVE  PoolInv'
<1>1. /\ inbox # <<>>
      /\ UNCHANGED <<status, target, freePre, staged, push, leaked, running, step, allocated>>
      /\ \/ receives' = receives
         \/ /\ Head(inbox).type = "READY"
            /\ receives' = [receives EXCEPT ![Head(inbox).id] = ReceiveSlot(Head(inbox).id)]
  BY Zenon DEF Recv, PrefetchRaises, StartLoad, output, main, PoolAfterPrefetch
<1>2. CASE receives' = receives
  BY Zenon, <1>1, <1>2, PoolFrame DEF InFlight
<1>3. ASSUME Head(inbox).type = "READY",
             receives' = [receives EXCEPT ![Head(inbox).id] = ReceiveSlot(Head(inbox).id)]
      PROVE  PoolInv'
  <2>1. Head(inbox) \in Message /\ In(inbox, Head(inbox))
    BY Zenon, <1>1, InTail DEF OwnDataInv, Types
  <2>2. Head(inbox).id \in Requests /\ Head(inbox) = Ready(Head(inbox).id)
    BY Zenon, <1>3, <2>1, Messages
  <2>3. InInbox(Head(inbox).id)
    BY Zenon, <2>1, <2>2 DEF InInbox
  <2> QED
    BY Zenon, <1>1, <1>3, <2>2, <2>3, ReceiveSlotPool
<1> QED
  BY Zenon, <1>1, <1>2, <1>3

(* The main thread takes a block for a request that asked for one.         *)
LEMMA HandleAllocPool ==
  ASSUME OwnDataInv, PoolInv, HandleAlloc, \A q \in Requests : Lost(q) => Lost(q)'
  PROVE  PoolInv'
<1>1. PICK r \in Requests : r = Head(queue).id /\ status[r] = "asked"
  <2>1. queue # <<>> /\ Head(queue).type = "ALLOC"
    BY Zenon DEF HandleAlloc, Idle
  <2>2. Head(queue) \in Message /\ In(queue, Head(queue))
    BY Zenon, <2>1, InTail DEF OwnDataInv, Types
  <2>3. QED  BY Zenon, <2>1, <2>2, Messages DEF OwnDataInv, OnePlace
<1>2. UNCHANGED <<freePre, staged, push, leaked, running, step>>
  BY Zenon DEF HandleAlloc, output
<1>3. CASE UNCHANGED <<allocated, receives, target, status>>
  BY Zenon, <1>2, <1>3, PoolFrame DEF InFlight
<1>4. ASSUME NEW s \in PoolSlots \ allocated,
             allocated' = allocated \cup {s}, receives' = [receives EXCEPT ![r] = s],
             target' = [target EXCEPT ![r] = s], status' = [status EXCEPT ![r] = "offered"]
      PROVE  PoolInv'
  <2>1. /\ receives'[r] = s /\ target'[r] = s /\ status'[r] = "offered"
        /\ \A q \in Requests \ {r} : /\ receives'[q] = receives[q] /\ target'[q] = target[q]
                                     /\ status'[q] = status[q]
    BY <1>4 DEF OwnDataInv, Types
  <2>2. /\ ~InFlight(r) /\ InFlight(r)' /\ status[r] # "done"
        /\ \A q \in Requests \ {r} : InFlight(q)' <=> InFlight(q)
    BY Zenon, <1>1, <2>1 DEF InFlight
  <2>3. /\ \A q \in Requests : Runs(q)' <=> Runs(q)
        /\ ~Runs(r)
    BY Zenon, <1>1, <1>2 DEF Runs, OwnDataInv, OnePlace, Arrived
  <2>4. receives[r] = NoSlot /\ staged[r] = NoSlot /\ leaked[r] = NoSlot
    BY <1>1, HeldByProgress, Zenon
  <2>5. BlocksHeld'
    <3>1. Held(r) = {} /\ Held(r)' = {s}
      BY Zenon, <1>2, <2>1, <2>4, NoSlotIsNone DEF Held, Slots
    <3>2. \A q \in Requests : q # r => Held(q)' = Held(q)
      BY Zenon, <1>2, <2>1 DEF Held
    <3>3. allocated' = (allocated \ {}) \cup {s} /\ {s} \cap allocated \subseteq {}
      BY Zenon, <1>4
    <3> QED
      BY Zenon, <3>1, <3>2, <3>3, HeldChanges DEF PoolInv
  <2>6. \A x \in PreSlots \ freePre : \E q \in Requests : InFlight(q)' /\ target'[q] = x
    BY Zenon, <2>1, <2>2 DEF PoolInv
  <2>7. \A q \in Requests :
          receives'[q] # NoSlot => InFlight(q)' /\ ~Runs(q)' /\ receives'[q] = target'[q]
    BY Zenon, <2>1, <2>2, <2>3 DEF PoolInv
  <2>8. \A q \in Requests : leaked[q] # NoSlot => Lost(q)' /\ receives'[q] = NoSlot
    BY Zenon, <2>1, <2>4 DEF PoolInv
  <2>9. \A q \in Requests : staged[q] # NoSlot => \/ status'[q] = "done" /\ push[q] # "pushed"
                                                  \/ step = "staging" /\ running = q
    BY Zenon, <2>1, <2>4 DEF PoolInv
  <2> QED
    BY Zenon, <1>2, <2>5, <2>6, <2>7, <2>8, <2>9 DEF PoolInv
<1>5. QED  BY Zenon, <1>1, <1>3, <1>4 DEF HandleAlloc

(* A loaded request is taken: its block goes back to the pool.             *)
LEMMA TakeLoadedPool ==
  ASSUME OwnDataInv, PoolInv, NEW r \in Requests, TakeLoaded(r),
         UNCHANGED <<status, target, freePre, staged, push, leaked>>,
         step # "staging", \A q \in Requests : Runs(q)' => q = r,
         \A q \in Requests : Lost(q) => Lost(q)'
  PROVE  PoolInv'
<1>1. /\ allocated' = allocated \ ({receives[r]} \cap PoolSlots)
      /\ receives' = [receives EXCEPT ![r] = NoSlot]
      /\ queue # <<>> /\ Head(queue) = Ready(r)
  BY Zenon DEF TakeLoaded, PoolAfterRelease, Idle, Ready
<1>2. receives'[r] = NoSlot /\ \A q \in Requests \ {r} : receives'[q] = receives[q]
  BY <1>1 DEF OwnDataInv, Types
<1>3. Queued(r)
  BY Zenon, <1>1, InTail DEF OwnDataInv, Types, Queued
<1>4. staged[r] = NoSlot /\ leaked[r] = NoSlot
  BY Zenon, <1>3, HeldByProgress
<1>5. BlocksHeld'
  <2>1. Held(r) = {receives[r]} \cap PoolSlots /\ Held(r)' = {}
    BY Zenon, <1>2, <1>4, NoSlotIsNone DEF Held, Slots
  <2>2. \A q \in Requests : q # r => Held(q)' = Held(q)
    BY Zenon, <1>2 DEF Held
  <2>3. /\ allocated' = (allocated \ ({receives[r]} \cap PoolSlots)) \cup {}
        /\ {} \cap allocated \subseteq {receives[r]} \cap PoolSlots
    BY Zenon, <1>1
  <2> QED
    BY Zenon, <2>1, <2>2, <2>3, HeldChanges DEF PoolInv
<1>6. \A q \in Requests : InFlight(q)' <=> InFlight(q)
  BY Zenon DEF InFlight
<1>7. \A s \in PreSlots \ freePre : \E q \in Requests : InFlight(q)' /\ target[q] = s
  BY Zenon, <1>6 DEF PoolInv
<1>8. \A q \in Requests :
        receives'[q] # NoSlot => InFlight(q)' /\ ~Runs(q)' /\ receives'[q] = target[q]
  BY Zenon, <1>2, <1>6 DEF PoolInv
<1>9. \A q \in Requests : leaked[q] # NoSlot => Lost(q)' /\ receives'[q] = NoSlot
  BY Zenon, <1>2 DEF PoolInv
<1>10. \A q \in Requests : staged[q] # NoSlot => status[q] = "done" /\ push[q] # "pushed"
  BY Zenon DEF PoolInv
<1> QED
  BY Zenon, <1>5, <1>7, <1>8, <1>9, <1>10 DEF PoolInv

(* The main thread starts the model on a loaded request, or cannot set the *)
(* scheduler up for it.                                                    *)
LEMMA StartComputePool ==
  ASSUME OwnDataInv, PoolInv, NEW r \in Requests, StartCompute(r) \/ SetupRaises(r),
         \A q \in Requests : Lost(q) => Lost(q)'
  PROVE  PoolInv'
<1>1. /\ TakeLoaded(r) /\ step = "idle"
      /\ running' = r \/ step' \in {"idle", "ended"}
      /\ UNCHANGED <<status, target, freePre, staged, push, leaked>>
  BY Zenon DEF StartCompute, SetupRaises, TakeLoaded, CountError, Idle, env, output
<1>2. step # "staging" /\ \A q \in Requests : Runs(q)' => q = r
  BY <1>1 DEF Runs
<1> QED
  BY Zenon, <1>1, <1>2, TakeLoadedPool

(* The output is staged in a block of its own, or that block is left       *)
(* behind because the staging raised.                                      *)
LEMMA OutputBlockPool ==
  ASSUME OwnDataInv, PoolInv, NEW r \in Requests, step = "forward", running = r,
         NEW s \in PoolSlots \ allocated, allocated' = allocated \cup {s},
         UNCHANGED <<status, target, freePre, receives, push>>,
         \A q \in Requests : Lost(q) => Lost(q)',
         \/ /\ staged' = [staged EXCEPT ![r] = s] /\ leaked' = leaked
            /\ step' = "staging" /\ running' = r
         \/ /\ leaked' = [leaked EXCEPT ![r] = s] /\ staged' = staged
            /\ step' \in {"idle", "ended"} /\ Lost(r)'
  PROVE  PoolInv'
<1>1. Runs(r) /\ receives[r] = NoSlot /\ staged[r] = NoSlot /\ leaked[r] = NoSlot
  BY Zenon, HeldByProgress DEF Runs
<1>2. /\ \A q \in Requests \ {r} : staged'[q] = staged[q] /\ leaked'[q] = leaked[q]
      /\ \/ staged'[r] = s /\ leaked'[r] = NoSlot /\ step' = "staging" /\ running' = r
         \/ leaked'[r] = s /\ staged'[r] = NoSlot /\ Lost(r)'
      /\ leaked' \in [Requests -> PoolSlots \cup {NoSlot}]
  <2>1. /\ staged \in [Requests -> PoolSlots \cup {NoSlot}]
        /\ leaked \in [Requests -> PoolSlots \cup {NoSlot}]
    BY Zenon DEF OwnDataInv, Types, PoolInv
  <2>2. CASE staged' = [staged EXCEPT ![r] = s] /\ leaked' = leaked /\ step' = "staging" /\ running' = r
    BY Zenon, <1>1, <2>1, <2>2
  <2>3. CASE leaked' = [leaked EXCEPT ![r] = s] /\ staged' = staged /\ Lost(r)'
    BY Zenon, <1>1, <2>1, <2>3
  <2> QED
    BY Zenon, <2>2, <2>3
<1>3. BlocksHeld'
  <2>1. Held(r) = {}
    BY Zenon, <1>1, NoSlotIsNone DEF Held, Slots
  <2>2. Held(r)' = {s}
    <3>1. NoSlot \notin PoolSlots /\ receives'[r] = NoSlot
      BY Zenon, <1>1, NoSlotIsNone DEF Slots
    <3>2. \/ staged'[r] = s /\ leaked'[r] = NoSlot
          \/ leaked'[r] = s /\ staged'[r] = NoSlot
      BY Zenon, <1>2
    <3> QED
      BY <3>1, <3>2 DEF Held
  <2>3. \A q \in Requests : q # r => Held(q)' = Held(q)
    BY Zenon, <1>2 DEF Held
  <2>4. allocated' = (allocated \ {}) \cup {s} /\ {s} \cap allocated \subseteq {}
    BY Zenon
  <2> QED
    BY Zenon, <2>1, <2>2, <2>3, <2>4, HeldChanges DEF PoolInv
<1>4. \A q \in Requests : (InFlight(q)' <=> InFlight(q)) /\ (Runs(q)' => Runs(q))
  <2>1. \A q \in Requests : InFlight(q)' <=> InFlight(q)
    BY Zenon DEF InFlight
  <2>2. \A q \in Requests : Runs(q)' => Runs(q)
    BY DEF Runs
  <2> QED
    BY Zenon, <2>1, <2>2
<1>5. \A q \in Requests :
        receives[q] # NoSlot => InFlight(q)' /\ ~Runs(q)' /\ receives[q] = target[q]
  BY Zenon, <1>4 DEF PoolInv
<1>6. \A x \in PreSlots \ freePre : \E q \in Requests : InFlight(q)' /\ target[q] = x
  BY Zenon, <1>4 DEF PoolInv
<1>7. \A q \in Requests : leaked'[q] # NoSlot => Lost(q)' /\ receives[q] = NoSlot
  BY Zenon, <1>1, <1>2 DEF PoolInv
<1>8. \A q \in Requests : staged'[q] # NoSlot => \/ status[q] = "done" /\ push[q] # "pushed"
                                                 \/ step' = "staging" /\ running' = q
  <2>1. step # "staging"
    OBVIOUS
  <2> QED
    BY Zenon, <1>2, <2>1 DEF PoolInv
<1> QED
  BY Zenon, <1>2, <1>3, <1>5, <1>6, <1>7, <1>8 DEF PoolInv

(* The running request is lost when its pass ends without an answer.       *)
LEMMA RunningIsLost ==
  ASSUME OwnDataInv, NEW r \in Requests, Runs(r), step' \in {"idle", "ended"},
         UNCHANGED <<status, inbox, holding, queue>>
  PROVE  Lost(r)'
<1>1. status[r] = "sent" /\ ~InInbox(r) /\ ~Queued(r)
  BY Zenon DEF OwnDataInv, OnePlace, Arrived
<1>2. ~Runs(r)'
  BY DEF Runs
<1>3. status'[r] = "sent" /\ ~InInbox(r)' /\ ~Queued(r)'
  BY Zenon, <1>1 DEF InInbox, Queued
<1> QED
  BY Zenon, <1>2, <1>3 DEF Lost, Arrived

(* Rank 0 takes a block for the output, or raises.                         *)
LEMMA StartStagingPool ==
  ASSUME OwnDataInv, PoolInv, StartStaging \/ Raise, \A q \in Requests : Lost(q) => Lost(q)'
  PROVE  PoolInv'
<1>1. PICK r \in Requests : running = r
  BY Zenon DEF OwnDataInv, Types, StartStaging, Raise
<1>2. step = "forward" /\ UNCHANGED <<status, target, freePre, receives, push>>
  BY Zenon DEF StartStaging, Raise, env
<1>3. Runs(r)
  BY Zenon, <1>1, <1>2 DEF Runs
<1>4. CASE StartStaging
  BY Zenon, <1>1, <1>2, <1>4, OutputBlockPool DEF StartStaging
<1>5. CASE Raise
  <2>1. /\ step' \in {"idle", "ended"} /\ staged' = staged
        /\ UNCHANGED <<status, inbox, holding, queue>>
    BY Zenon, <1>5 DEF Raise, CountError, env
  <2>2. Lost(r)'
    BY Zenon, <1>3, <2>1, RunningIsLost
  <2>3. CASE \E s \in PoolSlots \ allocated :
               allocated' = allocated \cup {s} /\ leaked' = [leaked EXCEPT ![running] = s]
    BY Zenon, <1>1, <1>2, <2>1, <2>2, <2>3, OutputBlockPool
  <2>4. CASE UNCHANGED <<allocated, leaked>>
    <3>1. BlocksHeld'
      BY Zenon, <1>2, <2>1, <2>4 DEF PoolInv, BlocksHeld, Held
    <3>2. \A q \in Requests : (InFlight(q)' <=> InFlight(q)) /\ ~Runs(q)'
      BY <1>2, <2>1 DEF InFlight, Runs
    <3>3. step # "staging"
      BY <1>2
    <3> QED
      BY Zenon, <1>2, <2>1, <2>4, <3>1, <3>2, <3>3 DEF PoolInv
  <2> QED
    BY Zenon, <1>5, <2>3, <2>4 DEF Raise
<1> QED
  BY Zenon, <1>4, <1>5

(* The outcome of the running request is reported: it holds no receive     *)
(* slot any more, and a preallocated slot goes back to the server.         *)
LEMMA FinishStagingPool ==
  ASSUME OwnDataInv, PoolInv, FinishStaging \/ ReportError, \A q \in Requests : Lost(q) => Lost(q)'
  PROVE  PoolInv'
<1>1. PICK r \in Requests : running = r
  BY Zenon DEF OwnDataInv, Types, FinishStaging, ReportError
<1>2. /\ step' = "idle" /\ UNCHANGED <<target, allocated, receives, staged, push, leaked>>
      /\ freePre' = IF target[r] \in PreSlots THEN freePre \cup {target[r]} ELSE freePre
      /\ \/ step = "staging" /\ status' = [status EXCEPT ![r] = "done"]
         \/ step = "forward" /\ status' = [status EXCEPT ![r] = "failed"]
  BY Zenon, <1>1 DEF FinishStaging, ReportError, Report, IsPre, output
<1>3. Runs(r) /\ status[r] = "sent"
  BY Zenon, <1>1, <1>2 DEF Runs, OwnDataInv, OnePlace, Arrived
<1>4. /\ ~InFlight(r)' /\ \A q \in Requests \ {r} : InFlight(q)' <=> InFlight(q)
      /\ \A q \in Requests : ~Runs(q)'
      /\ step = "staging" => status'[r] = "done"
      /\ \A q \in Requests \ {r} : status'[q] = status[q]
  BY <1>2 DEF InFlight, Runs, OwnDataInv, Types
<1>5. receives[r] = NoSlot /\ (step = "forward" => staged[r] = NoSlot)
  BY Zenon, <1>3, HeldByProgress
<1>6. push[r] # "pushed"
  <2>1. push[r] = "none"
    BY <1>3, Zenon DEF OwnDataInv, OutputsApart
  <2> QED
    BY <2>1
<1>7. BlocksHeld'
  BY Zenon, <1>2 DEF PoolInv, BlocksHeld, Held
<1>8. \A q \in Requests :
        receives[q] # NoSlot => InFlight(q)' /\ ~Runs(q)' /\ receives[q] = target[q]
  BY Zenon, <1>4, <1>5 DEF PoolInv
<1>9. \A q \in Requests : staged[q] # NoSlot => status'[q] = "done" /\ push[q] # "pushed"
  BY Zenon, <1>1, <1>2, <1>4, <1>5, <1>6 DEF PoolInv
<1>10. \A x \in PreSlots \ freePre' : \E q \in Requests : InFlight(q)' /\ target[q] = x
  <2>1. \A x \in PreSlots \ freePre' : x \in PreSlots \ freePre /\ x # target[r]
    BY Zenon, <1>2
  <2>2. QED  BY Zenon, <1>4, <2>1 DEF PoolInv
<1>11. \A q \in Requests : leaked[q] # NoSlot => Lost(q)' /\ receives[q] = NoSlot
  BY Zenon DEF PoolInv
<1> QED
  BY Zenon, <1>2, <1>7, <1>8, <1>9, <1>10, <1>11 DEF PoolInv

(* The RDMA thread frees the block of an output it has pushed.             *)
LEMMA RdmaPushPool ==
  ASSUME OwnDataInv, PoolInv, NEW r \in Requests, RecvPush(r) \/ RdmaPush(r),
         \A q \in Requests : Lost(q) => Lost(q)'
  PROVE  PoolInv'
<1>1. /\ UNCHANGED <<status, target, freePre, receives, leaked, running, step>>
      /\ \/ /\ push' = [push EXCEPT ![r] = "pushed"]
            /\ allocated' = allocated \ {staged[r]} /\ staged' = [staged EXCEPT ![r] = NoSlot]
         \/ /\ \E o \in {"queued", "failed"} : push' = [push EXCEPT ![r] = o]
            /\ UNCHANGED <<allocated, staged>>
  BY Zenon DEF RecvPush, RdmaPush, env, main
<1>2. status[r] = "done"
  <2>1. CASE RecvPush(r)
    BY Zenon, <2>1 DEF RecvPush
  <2>2. CASE RdmaPush(r)
    <3>1. push[r] # "none"
      BY <2>2 DEF RdmaPush
    <3> QED
      BY Zenon, <3>1 DEF OwnDataInv, OutputsApart
  <2> QED
    BY Zenon, <2>1, <2>2
<1>3. receives[r] = NoSlot /\ leaked[r] = NoSlot
  BY Zenon, <1>2, HeldByProgress
<1>4. \A q \in Requests : (InFlight(q)' <=> InFlight(q)) /\ (Runs(q)' <=> Runs(q))
  BY Zenon, <1>1 DEF InFlight, Runs
<1>5. \A q \in Requests \ {r} : push'[q] = push[q] /\ staged'[q] = staged[q]
  BY Zenon, <1>1 DEF OwnDataInv, Types
<1>6. BlocksHeld' /\ (staged'[r] # NoSlot => push'[r] # "pushed")
  <2>1. CASE allocated' = allocated \ {staged[r]} /\ staged' = [staged EXCEPT ![r] = NoSlot]
    <3>1. staged'[r] = NoSlot /\ staged[r] \in PoolSlots \cup {NoSlot}
      BY Zenon, <2>1 DEF OwnDataInv, Types
    <3>2. Held(r) = {staged[r]} \cap PoolSlots /\ Held(r)' = {}
      <4>1. /\ NoSlot \notin PoolSlots /\ receives'[r] = NoSlot /\ leaked'[r] = NoSlot
            /\ receives[r] = NoSlot /\ leaked[r] = NoSlot /\ staged'[r] = NoSlot
        BY Zenon, <1>1, <1>3, <3>1, NoSlotIsNone DEF Slots
      <4> QED
        BY <4>1 DEF Held
    <3>3. \A q \in Requests : q # r => Held(q)' = Held(q)
      BY Zenon, <1>1, <1>5 DEF Held
    <3>4. /\ allocated' = (allocated \ ({staged[r]} \cap PoolSlots)) \cup {}
          /\ {} \cap allocated \subseteq {staged[r]} \cap PoolSlots
      <4>1. NoSlot \notin allocated
        BY Zenon, NoSlotIsNone DEF PoolInv, BlocksHeld
      <4> QED
        BY <2>1, <3>1, <4>1
    <3> QED
      BY Zenon, <3>1, <3>2, <3>3, <3>4, HeldChanges DEF PoolInv
  <2>2. CASE /\ \E o \in {"queued", "failed"} : push' = [push EXCEPT ![r] = o]
             /\ UNCHANGED <<allocated, staged>>
    <3>1. BlocksHeld'
      BY Zenon, <1>1, <2>2 DEF PoolInv, BlocksHeld, Held
    <3>2. push'[r] # "pushed"
      BY <2>2 DEF OwnDataInv, Types
    <3> QED
      BY Zenon, <3>1, <3>2
  <2> QED
    BY Zenon, <1>1, <2>1, <2>2
<1>7. \A q \in Requests : staged'[q] # NoSlot => \/ status[q] = "done" /\ push'[q] # "pushed"
                                                 \/ step = "staging" /\ running = q
  BY Zenon, <1>2, <1>5, <1>6 DEF PoolInv
<1> QED
  BY Zenon, <1>1, <1>4, <1>6, <1>7 DEF PoolInv

(* All blocks are free when the instance starts.                           *)
LEMMA InitPool ==
  ASSUME ThreadsInit
  PROVE  PoolInv
<1>1. /\ allocated = PreSlots /\ freePre = PreSlots
      /\ \A r \in Requests : receives[r] = NoSlot /\ staged[r] = NoSlot /\ leaked[r] = NoSlot
      /\ leaked \in [Requests -> PoolSlots \cup {NoSlot}]
  BY Zenon DEF ThreadsInit
<1>2. \A r \in Requests : Held(r) = {}
  BY Zenon, <1>1, NoSlotIsNone DEF Held, Slots
<1>3. BlocksHeld
  BY Zenon, <1>1, <1>2 DEF BlocksHeld, Slots
<1> QED
  BY Zenon, <1>1, <1>3 DEF PoolInv

(* Which request holds which block, in every reachable state               *)
THEOREM PoolHolds == ThreadsSpec => []PoolInv
<1>1. OwnDataInv /\ PoolInv /\ [ThreadsNext]_threadVars => PoolInv'
  <2> SUFFICES ASSUME OwnDataInv, PoolInv, [ThreadsNext]_threadVars PROVE PoolInv'
    BY Zenon
  <2>0. \A q \in Requests : Lost(q) => Lost(q)'
    BY Zenon, LostStays
  <2>1. CASE \E r \in Requests : OfferPrealloc(r)
    BY Zenon, <2>0, <2>1, OfferPreallocPool
  <2>2. CASE \E r \in Requests : AskForSlot(r) \/ PushArrives(r)
    <3>1. UNCHANGED <<target, freePre, allocated, receives, staged, push, leaked, running, step>>
      BY Zenon, <2>2 DEF AskForSlot, PushArrives, output, main
    <3>2. \A q \in Requests : /\ InFlight(q)' <=> InFlight(q)
                              /\ status[q] = "done" => status'[q] = "done"
      BY <2>2 DEF AskForSlot, PushArrives, InFlight, OwnDataInv, Types
    <3>3. QED  BY Zenon, <2>0, <3>1, <3>2, PoolFrame
  <2>3. CASE Recv \/ PrefetchRaises
    BY Zenon, <2>0, <2>3, RecvPool
  <2>4. CASE Put \/ Copy \/ Compute \/ UNCHANGED threadVars
    <3>1. UNCHANGED <<status, target, freePre, allocated, receives, staged, push, leaked,
                      running, step>>
      BY Zenon, <2>4 DEF Put, Copy, Compute, threadVars, env, output, main
    <3>2. QED  BY Zenon, <2>0, <3>1, PoolFrame DEF InFlight
  <2>5. CASE HandleAlloc
    BY Zenon, <2>0, <2>5, HandleAllocPool
  <2>6. CASE \E r \in Requests : StartCompute(r) \/ SetupRaises(r)
    BY Zenon, <2>0, <2>6, StartComputePool
  <2>7. CASE StartStaging \/ Raise
    BY Zenon, <2>0, <2>7, StartStagingPool
  <2>8. CASE FinishStaging \/ ReportError
    BY Zenon, <2>0, <2>8, FinishStagingPool
  <2>9. CASE \E r \in Requests : RecvPush(r) \/ RdmaPush(r)
    BY Zenon, <2>0, <2>9, RdmaPushPool
  <2> QED
    BY Zenon, <2>1, <2>2, <2>3, <2>4, <2>5, <2>6, <2>7, <2>8, <2>9 DEF ThreadsNext, HostNext
<1> QED
  BY InitPool, OwnDataHolds, <1>1, PTL DEF ThreadsSpec

(* Every block that is missing from the pool belongs to exactly one        *)
(* request, which is under way or has paid with it for an exception or a   *)
(* failed push (free_slot and free_staged of the transfer manager), for    *)
(* every number of requests and slots.                                     *)
THEOREM BlocksAlwaysAccountedFor == ThreadsSpec => []BlocksAccountedFor
<1>1. OwnDataInv /\ PoolInv => BlocksAccountedFor
  <2> SUFFICES ASSUME OwnDataInv, PoolInv PROVE BlocksAccountedFor
    BY Zenon
  <2>1. allocated = PreSlots \cup UNION {Held(r) : r \in Requests}
    BY DEF PoolInv, BlocksHeld
  <2>2. ASSUME NEW r \in Requests
        PROVE  /\ Lost(r) \/ Runs(r) => status[r] = "sent"
               /\ status[r] = "done" \/ Runs(r) => receives[r] = NoSlot /\ leaked[r] = NoSlot
               /\ staged[r] # NoSlot => (status[r] = "done" /\ push[r] # "pushed") \/ Runs(r)
               /\ receives[r] # NoSlot => InFlight(r)
    BY Zenon, HeldByProgress DEF OwnDataInv, OnePlace, Arrived, Lost, Runs, PoolInv
  <2>3. ASSUME NEW r \in Requests
        PROVE  /\ receives[r] # NoSlot => staged[r] = NoSlot /\ leaked[r] = NoSlot
               /\ leaked[r] # NoSlot => staged[r] = NoSlot /\ Lost(r)
    BY Zenon, <2>2 DEF PoolInv
  <2>4. \A r \in Requests : \A s, t \in Held(r) : s = t
    BY Zenon, <2>3, NoSlotIsNone DEF Held, Slots
  <2>5. \A r, q \in Requests : \A s \in Held(r), t \in Held(q) : r # q => s # t
    BY Zenon DEF PoolInv, BlocksHeld
  <2>6. \A r, q \in Requests : \A s \in Held(r), t \in Held(q) : (r = q) = (s = t)
    BY Zenon, <2>4, <2>5
  <2>7. ASSUME NEW r \in Requests, Held(r) # {}
        PROVE  status[r] \in {"offered", "sent"} \/ (status[r] = "done" /\ push[r] # "pushed")
    <3>1. receives[r] # NoSlot \/ staged[r] # NoSlot \/ leaked[r] # NoSlot
      BY Zenon, <2>7, NoSlotIsNone DEF Held, Slots
    <3> QED
      BY Zenon, <2>2, <2>3, <3>1 DEF InFlight
  <2>8. \A s \in PreSlots \ freePre :
          \E r \in Requests : status[r] \in {"offered", "sent"} /\ target[r] = s
    BY Zenon DEF PoolInv, InFlight
  <2> QED
    BY Zenon, <2>1, <2>6, <2>7, <2>8 DEF BlocksAccountedFor
<1> QED
  BY <1>1, OwnDataHolds, PoolHolds, PTL

-------------------------------------------------------------------------------
(* The ranks, for every number of them and every bound on errors, requests *)
(* and broadcasts.  RanksInStep speaks of ranks that wait in a collective; *)
(* what it rests on is what the ranks have not received yet.               *)

(* A broadcast appends its message to what every rank has to receive.      *)
LEMMA BroadcastAppends ==
  ASSUME RankTypes, NEW m \in RankMessage, Broadcast(m), NEW k \in Others
  PROVE  /\ broadcasts' \in [Others -> Seq(RankMessage)]
         /\ Len(broadcasts'[k]) = Len(broadcasts[k]) + 1
         /\ broadcasts'[k][Len(broadcasts[k]) + 1] = m
         /\ \A j \in 1 .. Len(broadcasts[k]) : broadcasts'[k][j] = broadcasts[k][j]
<1>1. \A l \in Others : broadcasts[l] \in Seq(RankMessage)
  BY Zenon DEF RankTypes
<1>2. broadcasts' = [l \in Others |-> Append(broadcasts[l], m)]
  BY Zenon DEF Broadcast
<1>3. \A l \in Others : Append(broadcasts[l], m) \in Seq(RankMessage)
  BY Zenon, <1>1, AppendProperties
<1>4. broadcasts' \in [Others -> Seq(RankMessage)]
  BY Zenon, <1>2, <1>3
<1>5. broadcasts'[k] = Append(broadcasts[k], m)
  BY Zenon, <1>2
<1> QED
  BY <1>1, <1>4, <1>5, AppendProperties

(* The same for the rank type alone, also when there are no other ranks    *)
LEMMA BroadcastType ==
  ASSUME RankTypes, NEW m \in RankMessage, Broadcast(m)
  PROVE  broadcasts' \in [Others -> Seq(RankMessage)]
<1>1. CASE Others = {}
  BY Zenon, <1>1 DEF Broadcast
<1>2. CASE Others # {}
  BY Zenon, <1>2, BroadcastAppends
<1> QED
  BY Zenon, <1>1, <1>2

(* While rank 0 is out of its passes no rank has joined one, or will by    *)
(* what it has still to receive.                                           *)
LEMMA NothingPending ==
  ASSUME StepInv, ~apart, pc0 = "loop", NEW k \in Others
  PROVE  /\ ~(InPass(k) /\ Joins(req[k], k))
         /\ \A j \in 1 .. Len(broadcasts[k]) : ~MakesJoin(broadcasts[k][j], k)
<1>1. ~InPass0
  BY DEF InPass0
<1> QED
  BY Zenon, <1>1 DEF StepInv, JoiningIsLast, JoinedInStep

(* The request of no rank                                                  *)
LEMMA NoRequest == NoRankReq \in Request
BY DEF NoRankReq, Request, Fates

(* A step in which rank 0 stays out of passes and broadcasts a message     *)
(* that makes nobody join one                                              *)
LEMMA QuietBroadcast ==
  ASSUME StepInv, pc0 = "loop", NEW m \in RankMessage, \A k \in Others : ~MakesJoin(m, k),
         Broadcast(m), taken' \in Nat, pc0' \in {"loop", "ended"}, req0' \in Request,
         UNCHANGED <<pc, req, apart>>
  PROVE  StepInv'
<1>1. RankTypes
  BY Zenon DEF StepInv
<1>2. RankTypes'
  BY Zenon, <1>1, BroadcastType DEF RankTypes
<1>3. ASSUME ~apart', NEW k \in Others
      PROVE  JoiningIsLast(k)' /\ JoinedInStep(k)'
  <2>1. ~apart
    BY Zenon, <1>3
  <2>2. JoinedInStep(k)'
    BY Zenon, <2>1, NothingPending DEF JoinedInStep, InPass, Joins, EntersForward, FailsInPass
  <2>3. ASSUME NEW j \in 1 .. Len(broadcasts'[k])
        PROVE  ~MakesJoin(broadcasts'[k][j], k)
    <3>1. broadcasts[k] \in Seq(RankMessage)
      BY Zenon, <1>1 DEF RankTypes
    <3>2. Len(broadcasts[k]) \in Nat
      BY <3>1
    <3>3. CASE j \in 1 .. Len(broadcasts[k])
      BY Zenon, <1>1, <2>1, <3>3, BroadcastAppends, NothingPending
    <3>4. CASE j = Len(broadcasts[k]) + 1
      BY Zenon, <1>1, <3>4, BroadcastAppends
    <3> QED
      BY <1>1, <3>2, <3>3, <3>4, BroadcastAppends
  <2>4. JoiningIsLast(k)'
    BY Zenon, <2>3 DEF JoiningIsLast, MakesJoin, Joins, EntersForward, FailsInPass
  <2> QED
    BY Zenon, <2>2, <2>4
<1>4. \A k \in Others : InPass(k)' =>
        EntersForward(req[k])' /\ (pc'[k] = "waiting" => Joins(req[k], k)')
  BY Zenon DEF StepInv, InPass, Joins, EntersForward, FailsInPass
<1> QED
  BY Zenon, <1>2, <1>3, <1>4 DEF StepInv

(* A skip makes no rank join a pass.                                       *)
LEMMA SkipQuiet == Skip \in RankMessage /\ \A k \in Others : ~MakesJoin(Skip, k)
BY DEF RankMessage, Skip, MakesJoin

(* No rank is in a pass when the loops start.                              *)
LEMMA StepInit == RankInit => StepInv
<1> SUFFICES ASSUME RankInit PROVE StepInv
  BY Zenon
<1>1. <<>> \in Seq(RankMessage) /\ Len(<<>>) = 0
  OBVIOUS
<1>2. RankTypes
  BY Zenon, <1>1, NoRequest DEF RankInit, RankTypes
<1>3. \A k \in Others : ~InPass(k)
  BY DEF RankInit, InPass
<1>4. \A k \in Others : JoiningIsLast(k)
  BY <1>1 DEF RankInit, JoiningIsLast
<1> QED
  BY Zenon, <1>2, <1>3, <1>4 DEF StepInv, JoinedInStep

(* An empty queue or a control item broadcasts a skip.                     *)
LEMMA SkipStep ==
  ASSUME StepInv, QueueEmpty \/ Control
  PROVE  StepInv'
<1>1. /\ Broadcast(Skip) /\ pc0 = "loop"
      /\ UNCHANGED <<taken, pc0, req0, pc, req, apart>>
  BY Zenon DEF QueueEmpty, Control
<1>2. taken' \in Nat /\ req0' \in Request /\ pc0' \in {"loop", "ended"}
  BY <1>1, Zenon DEF StepInv, RankTypes
<1> QED
  BY Zenon, <1>1, <1>2, SkipQuiet, QuietBroadcast

(* A request rank 0 cannot set up is broadcast too, and no rank enters a   *)
(* pass for it.  Any other one is announced to ranks that have no pass to  *)
(* join pending.                                                           *)
LEMMA TakeRequestStep ==
  ASSUME StepInv, NEW fate \in Fates, TakeRequest(fate)
  PROVE  StepInv'
<1> DEFINE r == [n |-> taken + 1, fate |-> fate]
           m == ComputeMsg(r)
<1>1. /\ RankTypes /\ taken \in Nat /\ pc0 = "loop" /\ taken' = taken + 1
      /\ UNCHANGED <<pc, req, apart>> /\ Broadcast(m)
  BY Zenon DEF TakeRequest, StepInv, RankTypes
<1>2. m \in RankMessage /\ m.type = "compute" /\ m.req = r /\ r \in Request /\ r.fate = fate
  BY <1>1 DEF ComputeMsg, RankMessage, Request
<1> HIDE DEF m, r
<1>3. CASE fate.where = "setup"
  <2>1. \A k \in Others : ~MakesJoin(m, k)
    BY Zenon, <1>2, <1>3 DEF MakesJoin, Joins, EntersForward
  <2>2. pc0' \in {"loop", "ended"} /\ req0' = NoRankReq
    BY Zenon, <1>3 DEF TakeRequest, Raise0
  <2>3. taken' \in Nat
    BY <1>1
  <2> QED
    BY Zenon, <1>1, <1>2, <2>1, <2>2, <2>3, NoRequest, QuietBroadcast
<1>4. CASE fate.where # "setup"
  <2>1. pc0' = "forward" /\ req0' = r
    BY Zenon, <1>4 DEF TakeRequest, r
  <2>2. RankTypes'
    <3>1. taken' \in Nat
      BY <1>1
    <3> QED
      BY Zenon, <1>1, <1>2, <2>1, <3>1, BroadcastType DEF RankTypes
  <2>3. ASSUME ~apart', NEW k \in Others
        PROVE  JoiningIsLast(k)' /\ JoinedInStep(k)'
    <3>1. ~apart /\ InPass0'
      BY <1>1, <2>1, <2>3 DEF InPass0
    <3>2. ~(InPass(k) /\ Joins(req[k], k)) /\ InPass(k)' = InPass(k) /\ req'[k] = req[k]
      BY Zenon, <1>1, <3>1, NothingPending DEF InPass
    <3>3. JoinedInStep(k)'
      BY Zenon, <3>2 DEF JoinedInStep, Joins, EntersForward, FailsInPass
    <3>4. ASSUME NEW j \in 1 .. Len(broadcasts'[k]), MakesJoin(broadcasts'[k][j], k)
          PROVE  j = Len(broadcasts'[k]) /\ broadcasts'[k][j].req = r
      <4>1. Len(broadcasts[k]) \in Nat
        BY <1>1 DEF RankTypes
      <4>2. ~(j \in 1 .. Len(broadcasts[k]))
        BY Zenon, <1>1, <1>2, <3>1, <3>4, BroadcastAppends, NothingPending
      <4>3. j = Len(broadcasts[k]) + 1
        BY <1>1, <1>2, <4>1, <4>2, BroadcastAppends
      <4> QED
        BY Zenon, <1>1, <1>2, <4>3, BroadcastAppends
    <3>5. JoiningIsLast(k)'
      BY Zenon, <2>1, <3>1, <3>2, <3>4
         DEF JoiningIsLast, MakesJoin, Joins, EntersForward, FailsInPass
    <3> QED
      BY Zenon, <3>3, <3>5
  <2>4. \A k \in Others : InPass(k)' =>
          EntersForward(req[k])' /\ (pc'[k] = "waiting" => Joins(req[k], k)')
    BY Zenon, <1>1 DEF StepInv, InPass, Joins, EntersForward, FailsInPass
  <2> QED
    BY Zenon, <2>2, <2>3, <2>4 DEF StepInv
<1> QED
  BY Zenon, <1>3, <1>4

(* Receiving shortens what is pending.  The message that makes a rank join *)
(* a pass was its last one, so nothing is pending afterwards.              *)
LEMMA ReceiveStep ==
  ASSUME StepInv, NEW k \in Others, Receive(k)
  PROVE  StepInv'
<1> DEFINE s == broadcasts[k]
           m == Head(s)
<1>1. RankTypes /\ s \in Seq(RankMessage) /\ s # <<>> /\ pc[k] = "loop"
  BY Zenon DEF StepInv, RankTypes, Receive
<1>2. /\ m = s[1] /\ m \in RankMessage /\ Tail(s) \in Seq(RankMessage)
      /\ Len(s) \in Nat /\ Len(s) >= 1 /\ Len(Tail(s)) = Len(s) - 1
      /\ \A j \in 1 .. Len(Tail(s)) : Tail(s)[j] = s[j + 1]
  BY <1>1, HeadTailProperties, EmptySeq
<1>3. /\ broadcasts' = [broadcasts EXCEPT ![k] = Tail(s)]
      /\ UNCHANGED <<taken, pc0, req0, apart>>
  BY Zenon DEF Receive
<1>4. broadcasts' \in [Others -> Seq(RankMessage)]
  BY Zenon, <1>1, <1>2, <1>3 DEF RankTypes
<1>5. broadcasts'[k] = Tail(s) /\ \A l \in Others : l # k => broadcasts'[l] = broadcasts[l]
  BY Zenon, <1>1, <1>3 DEF RankTypes
<1>6. \/ /\ req' = req /\ \E c \in {"loop", "ended"} : pc' = [pc EXCEPT ![k] = c]
         /\ ~MakesJoin(m, k)
      \/ /\ pc' = [pc EXCEPT ![k] = "forward"] /\ req' = [req EXCEPT ![k] = m.req]
         /\ EntersForward(m.req) /\ m.type = "compute"
  <2>1. CASE m.type = "skip"
    <3>1. pc = [pc EXCEPT ![k] = "loop"]
      BY Zenon, <1>1 DEF RankTypes
    <3>2. ~MakesJoin(m, k) /\ m.type # "compute"
      BY <2>1 DEF MakesJoin
    <3> QED
      BY Zenon, <2>1, <3>1, <3>2 DEF Receive
  <2>2. CASE m.type = "compute"
    <3>1. m.type # "skip"
      BY <2>2
    <3> QED
      BY Zenon, <2>2, <3>1 DEF Receive, MakesJoin, Joins
  <2>3. m.type = "skip" \/ m.type = "compute"
    <3> HIDE DEF m
    <3> QED
      BY <1>2 DEF RankMessage, Skip
  <2> QED
    BY Zenon, <2>1, <2>2, <2>3
<1>7. RankTypes'
  <2>1. m.type = "compute" => m.req \in Request
    <3> HIDE DEF m
    <3> QED
      BY <1>2 DEF RankMessage, Skip
  <2>2. pc' \in [Others -> {"loop", "forward", "waiting", "ended"}] /\ req' \in [Others -> Request]
    BY Zenon, <1>1, <1>6, <2>1 DEF RankTypes
  <2> QED
    BY Zenon, <1>1, <1>3, <1>4, <2>2 DEF RankTypes
<1>8. \A l \in Others : l # k => /\ broadcasts'[l] = broadcasts[l]
                                 /\ pc'[l] = pc[l] /\ req'[l] = req[l]
  BY Zenon, <1>1, <1>5, <1>6 DEF RankTypes
<1>9. \/ ~InPass(k)' /\ ~MakesJoin(m, k)
      \/ pc'[k] = "forward" /\ req'[k] = m.req /\ EntersForward(m.req) /\ m.type = "compute"
  BY <1>1, <1>6 DEF RankTypes, InPass
<1>10. \A l \in Others : InPass(l)' =>
         EntersForward(req[l])' /\ (pc'[l] = "waiting" => Joins(req[l], l)')
  <2>1. InPass(k)' => EntersForward(req[k])' /\ pc'[k] # "waiting"
    BY <1>9 DEF EntersForward
  <2>2. ASSUME NEW l \in Others, l # k, InPass(l)'
        PROVE  EntersForward(req[l])' /\ (pc'[l] = "waiting" => Joins(req[l], l)')
    BY Zenon, <1>8, <2>2 DEF StepInv, InPass, Joins, EntersForward, FailsInPass
  <2> QED
    BY Zenon, <2>1, <2>2
<1>11. ASSUME ~apart', NEW l \in Others, l # k
       PROVE  JoiningIsLast(l)' /\ JoinedInStep(l)'
  <2>1. JoiningIsLast(l) /\ JoinedInStep(l)
    BY Zenon, <1>3, <1>11 DEF StepInv
  <2>2. JoiningIsLast(l)'
    BY Zenon, <1>3, <1>8, <1>11, <2>1
       DEF JoiningIsLast, MakesJoin, Joins, EntersForward, FailsInPass, InPass, InPass0
  <2>3. JoinedInStep(l)'
    BY Zenon, <1>3, <1>8, <1>11, <2>1
       DEF JoinedInStep, Joins, EntersForward, FailsInPass, InPass, InPass0
  <2> QED
    BY Zenon, <2>2, <2>3
<1>12. ASSUME ~apart'
       PROVE  JoiningIsLast(k)' /\ JoinedInStep(k)'
  <2>1. JoiningIsLast(k)
    BY Zenon, <1>3, <1>12 DEF StepInv
  <2>2. MakesJoin(m, k) => Len(s) = 1 /\ InPass0 /\ m.req = req0
    <3>1. 1 \in 1 .. Len(s)
      BY <1>2
    <3> QED
      BY Zenon, <1>2, <2>1, <3>1 DEF JoiningIsLast
  <2>3. JoinedInStep(k)'
    <3>1. InPass(k)' /\ Joins(req[k], k)' => MakesJoin(m, k) /\ req'[k] = m.req
      BY Zenon, <1>9 DEF MakesJoin, Joins, EntersForward, FailsInPass
    <3> QED
      BY Zenon, <1>3, <2>2, <3>1 DEF JoinedInStep, InPass0
  <2>4. ASSUME NEW j \in 1 .. Len(Tail(s)), MakesJoin(Tail(s)[j], k)
        PROVE  /\ j = Len(Tail(s)) /\ InPass0 /\ Tail(s)[j].req = req0
               /\ ~(InPass(k)' /\ Joins(req[k], k)')
    <3>1. j + 1 \in 1 .. Len(s) /\ Tail(s)[j] = s[j + 1] /\ Len(s) # 1
      BY <1>2
    <3>2. j + 1 = Len(s) /\ InPass0 /\ Tail(s)[j].req = req0
      BY Zenon, <2>1, <2>4, <3>1 DEF JoiningIsLast
    <3>3. j = Len(Tail(s))
      BY <1>2, <3>2
    <3>4. ~(InPass(k)' /\ Joins(req[k], k)')
      BY Zenon, <1>9, <2>2, <3>1 DEF MakesJoin, Joins, EntersForward, FailsInPass
    <3> QED
      BY Zenon, <3>2, <3>3, <3>4
  <2>5. JoiningIsLast(k)'
    BY Zenon, <1>3, <1>5, <2>4
       DEF JoiningIsLast, MakesJoin, Joins, EntersForward, FailsInPass, InPass0, InPass
  <2> QED
    BY Zenon, <2>3, <2>5
<1> QED
  BY Zenon, <1>7, <1>10, <1>11, <1>12 DEF StepInv

(* A rank comes to a collective: it has not left its pass.                 *)
LEMMA WaitStep ==
  ASSUME StepInv, Wait0 \/ \E k \in Others : Wait(k)
  PROVE  StepInv'
<1>1. /\ UNCHANGED <<taken, broadcasts, req0, req, apart>> /\ (InPass0' <=> InPass0)
      /\ pc0' \in {"loop", "forward", "waiting", "ended"}
      /\ \A l \in Others : InPass(l)' <=> InPass(l)
      /\ pc' \in [Others -> {"loop", "forward", "waiting", "ended"}]
      /\ \A l \in Others : pc'[l] = pc[l] \/ (pc[l] = "forward" /\ ~FailsInPass(req[l], l))
  <2>1. CASE Wait0
    BY <2>1 DEF Wait0, InPass0, InPass, StepInv, RankTypes
  <2>2. ASSUME NEW k \in Others, Wait(k)
        PROVE  <1>1!:
    BY <2>2 DEF Wait, InPass0, InPass, StepInv, RankTypes
  <2> QED
    BY Zenon, <2>1, <2>2
<1>2. RankTypes'
  BY Zenon, <1>1 DEF StepInv, RankTypes
<1>3. \A l \in Others : InPass(l)' =>
        EntersForward(req[l])' /\ (pc'[l] = "waiting" => Joins(req[l], l)')
  <2> SUFFICES ASSUME NEW l \in Others, InPass(l)'
               PROVE  EntersForward(req[l])' /\ (pc'[l] = "waiting" => Joins(req[l], l)')
    BY Zenon
  <2>1. EntersForward(req[l]) /\ (pc[l] = "waiting" => Joins(req[l], l))
    BY Zenon, <1>1 DEF StepInv
  <2> QED
    BY Zenon, <1>1, <2>1 DEF Joins, EntersForward, FailsInPass
<1>4. ASSUME ~apart', NEW l \in Others
      PROVE  JoiningIsLast(l)' /\ JoinedInStep(l)'
  <2>1. JoiningIsLast(l) /\ JoinedInStep(l)
    BY Zenon, <1>1, <1>4 DEF StepInv
  <2>2. JoiningIsLast(l)'
    BY Zenon, <1>1, <2>1 DEF JoiningIsLast, MakesJoin, Joins, EntersForward, FailsInPass
  <2>3. JoinedInStep(l)'
    BY Zenon, <1>1, <2>1 DEF JoinedInStep, Joins, EntersForward, FailsInPass
  <2> QED
    BY Zenon, <2>2, <2>3
<1> QED
  BY Zenon, <1>2, <1>3, <1>4 DEF StepInv

(* Rank 0 fails in its pass: alone, or with all others, of which then none *)
(* waits for it.                                                           *)
LEMMA FailPass0Step ==
  ASSUME StepInv, FailPass0
  PROVE  StepInv'
<1>1. /\ pc0 = "forward" /\ FailsInPass(req0, 0) /\ pc0' = "loop" /\ req0' = NoRankReq
      /\ apart' = (apart \/ req0.fate.on # Ranks) /\ UNCHANGED <<taken, broadcasts, pc, req>>
  BY Zenon DEF FailPass0
<1>2. RankTypes'
  BY Zenon, <1>1, NoRequest DEF StepInv, RankTypes
<1>3. \A k \in Others : InPass(k)' =>
        EntersForward(req[k])' /\ (pc'[k] = "waiting" => Joins(req[k], k)')
  BY Zenon, <1>1 DEF StepInv, InPass, Joins, EntersForward, FailsInPass
<1>4. ASSUME ~apart', NEW k \in Others
      PROVE  JoiningIsLast(k)' /\ JoinedInStep(k)'
  <2>1. ~apart /\ ~Joins(req0, k)
    BY Zenon, <1>1, <1>4 DEF Joins, FailsInPass, Ranks
  <2>2. \A j \in 1 .. Len(broadcasts[k]) : ~MakesJoin(broadcasts[k][j], k)
    BY Zenon, <2>1 DEF StepInv, JoiningIsLast, MakesJoin
  <2>3. ~(InPass(k) /\ Joins(req[k], k))
    BY Zenon, <2>1 DEF StepInv, JoinedInStep
  <2>4. JoiningIsLast(k)'
    BY Zenon, <1>1, <2>2 DEF JoiningIsLast, MakesJoin, Joins, EntersForward, FailsInPass
  <2>5. JoinedInStep(k)'
    BY Zenon, <1>1, <2>3 DEF JoinedInStep, InPass, Joins, EntersForward, FailsInPass
  <2> QED
    BY Zenon, <2>4, <2>5
<1> QED
  BY Zenon, <1>2, <1>3, <1>4 DEF StepInv

(* Another rank fails in its pass.                                         *)
LEMMA FailPassStep ==
  ASSUME StepInv, NEW k \in Others, FailPass(k)
  PROVE  StepInv'
<1>1. /\ pc' = [pc EXCEPT ![k] = "loop"] /\ req' = [req EXCEPT ![k] = NoRankReq]
      /\ apart' = (apart \/ req[k].fate.on # Ranks)
      /\ UNCHANGED <<taken, broadcasts, pc0, req0>>
  BY Zenon DEF FailPass
<1>2. RankTypes'
  BY Zenon, <1>1, NoRequest DEF StepInv, RankTypes
<1>3. /\ ~InPass(k)'
      /\ \A l \in Others : l # k => pc'[l] = pc[l] /\ req'[l] = req[l]
  BY <1>1 DEF StepInv, RankTypes, InPass
<1>4. \A l \in Others : InPass(l)' =>
        EntersForward(req[l])' /\ (pc'[l] = "waiting" => Joins(req[l], l)')
  BY Zenon, <1>3 DEF StepInv, InPass, Joins, EntersForward, FailsInPass
<1>5. ASSUME ~apart', NEW l \in Others
      PROVE  JoiningIsLast(l)' /\ JoinedInStep(l)'
  <2>1. JoiningIsLast(l) /\ JoinedInStep(l)
    BY Zenon, <1>1, <1>5 DEF StepInv
  <2>2. InPass(l)' => InPass(l) /\ req'[l] = req[l]
    BY Zenon, <1>3 DEF InPass
  <2>3. JoiningIsLast(l)'
    BY Zenon, <1>1, <2>1, <2>2
       DEF JoiningIsLast, MakesJoin, Joins, EntersForward, FailsInPass, InPass0
  <2>4. JoinedInStep(l)'
    BY Zenon, <1>1, <2>1, <2>2 DEF JoinedInStep, Joins, EntersForward, FailsInPass, InPass0
  <2> QED
    BY Zenon, <2>3, <2>4
<1> QED
  BY Zenon, <1>2, <1>4, <1>5 DEF StepInv

(* Every rank was in the pass, so none has one pending.                    *)
LEMMA ForwardStep ==
  ASSUME StepInv, Forward
  PROVE  StepInv'
<1>1. /\ \A k \in Others : pc[k] = "waiting"
      /\ pc' = [k \in Others |-> "loop"] /\ req' = [k \in Others |-> NoRankReq]
      /\ req0' = NoRankReq /\ UNCHANGED <<taken, broadcasts, apart>>
      /\ pc0' \in {"loop", "ended"}
  BY Zenon DEF Forward, AllAreThere, Raise0
<1>2. RankTypes'
  BY Zenon, <1>1, NoRequest DEF StepInv, RankTypes
<1>3. \A k \in Others : InPass(k) /\ ~InPass(k)'
  BY <1>1 DEF InPass
<1>4. \A k \in Others : Joins(req[k], k)
  BY Zenon, <1>1, <1>3 DEF StepInv
<1>5. ASSUME ~apart', NEW k \in Others
      PROVE  JoiningIsLast(k)'
  <2>1. \A j \in 1 .. Len(broadcasts[k]) : ~MakesJoin(broadcasts[k][j], k)
    BY Zenon, <1>1, <1>3, <1>4, <1>5 DEF StepInv, JoiningIsLast
  <2> QED
    BY Zenon, <1>1, <2>1 DEF JoiningIsLast, MakesJoin, Joins, EntersForward, FailsInPass
<1> QED
  BY Zenon, <1>2, <1>3, <1>5 DEF StepInv, JoinedInStep

(* The invariant of the ranks is inductive: it holds in every reachable    *)
(* state of them.                                                          *)
THEOREM StepHolds == RankSpec => []StepInv
<1>1. StepInv /\ [RankNext]_rankVars => StepInv'
  <2> SUFFICES ASSUME StepInv, [RankNext]_rankVars PROVE StepInv'
    BY Zenon
  <2>1. CASE QueueEmpty \/ Control
    BY Zenon, <2>1, SkipStep
  <2>2. CASE Wait0 \/ \E k \in Others : Wait(k)
    BY Zenon, <2>2, WaitStep
  <2>3. CASE Forward
    BY Zenon, <2>3, ForwardStep
  <2>4. CASE \E fate \in Fates : TakeRequest(fate)
    BY Zenon, <2>4, TakeRequestStep
  <2>5. CASE \E k \in Others : Receive(k)
    BY Zenon, <2>5, ReceiveStep
  <2>6. CASE FailPass0
    BY Zenon, <2>6, FailPass0Step
  <2>7. CASE \E k \in Others : FailPass(k)
    BY Zenon, <2>7, FailPassStep
  <2>8. CASE UNCHANGED rankVars
    BY Zenon, <2>8 DEF rankVars, StepInv, RankTypes, JoiningIsLast, JoinedInStep, MakesJoin,
                       Joins, EntersForward, FailsInPass, InPass, InPass0
  <2> QED
    BY Zenon, <2>1, <2>2, <2>3, <2>4, <2>5, <2>6, <2>7, <2>8 DEF RankNext
<1> QED
  BY StepInit, <1>1, PTL DEF RankSpec

(* Until a rank fails alone, every rank that waits in a collective waits   *)
(* there for the request of rank 0, in every behaviour of the loops and    *)
(* for every number of ranks: no collective mixes two requests, though the *)
(* ranks come to requests that all fail on, and leave them, at different   *)
(* times.                                                                  *)
THEOREM RanksStayInStep == RankSpec => []RanksInStep
<1>1. StepInv => RanksInStep
  <2> SUFFICES ASSUME StepInv, ~apart, NEW k \in Others, pc[k] = "waiting"
               PROVE  InPass0 /\ req[k] = req0
    BY Zenon DEF RanksInStep
  <2>1. InPass(k)
    BY DEF InPass
  <2> QED
    BY Zenon, <2>1 DEF StepInv, JoinedInStep
<1> QED
  BY <1>1, StepHolds, PTL

-------------------------------------------------------------------------------
(* The composition                                                         *)

(* A step of the instance is one of its threads, or leaves them alone.     *)
LEMMA ThreadsStep == [Next]_vars => [ThreadsNext]_threadVars
<1> SUFFICES ASSUME [Next]_vars PROVE ThreadsNext \/ UNCHANGED threadVars
  BY Zenon
<1>1. CASE Environment
  BY <1>1, Zenon DEF Environment, Alone, ThreadsNext
<1>2. CASE \/ Alone(Recv) \/ DropReady \/ Alone(Put) \/ Alone(Copy) \/ Alone(Compute)
           \/ Alone(FinishStaging) \/ PushOutput
  BY <1>2, Zenon DEF Alone, DropReady, PushOutput, ThreadsNext, HostNext
<1>3. CASE QueueTimeout \/ RankStep(Wait0) \/ \E k \in Others : OtherRank(k)
  <2>1. UNCHANGED <<threadVars, exceptions>>
    BY <1>3, Zenon DEF QueueTimeout, RankStep, OtherRank
  <2> QED
    BY Zenon, <2>1
<1>4. CASE TakeItem
  BY <1>4, Zenon DEF TakeItem, TransferControl, TransferCompute, ThreadsNext, HostNext
<1>5. CASE EndOfPass
  BY <1>5, Zenon DEF EndOfPass, ThreadsNext, HostNext
<1>6. CASE UNCHANGED vars
  BY Zenon, <1>6 DEF vars
<1> QED
  BY <1>1, <1>2, <1>3, <1>4, <1>5, <1>6, Zenon DEF Next, Work

(* A step of the instance is one of its ranks, or leaves them alone.       *)
LEMMA RanksStep == [Next]_vars => [RankNext]_rankVars
<1> SUFFICES ASSUME [Next]_vars PROVE RankNext \/ UNCHANGED rankVars
  BY Zenon
<1>1. CASE \/ Environment \/ Alone(Recv) \/ Alone(Put) \/ Alone(Copy) \/ Alone(Compute)
           \/ Alone(FinishStaging) \/ PushOutput
  <2>1. UNCHANGED <<rankVars, exceptions>>
    BY <1>1, Zenon DEF Environment, PushOutput, Alone
  <2> QED
    BY Zenon, <2>1
<1>2. CASE DropReady
  BY <1>2, Zenon DEF DropReady
<1>3. CASE QueueTimeout \/ RankStep(Wait0) \/ \E k \in Others : OtherRank(k)
  BY <1>3, Zenon DEF QueueTimeout, RankStep, OtherRank, RankNext
<1>4. CASE TakeItem
  BY <1>4, Zenon DEF TakeItem, TransferControl, TransferCompute, RankNext
<1>5. CASE EndOfPass
  BY <1>5, Zenon DEF EndOfPass, RankNext
<1>6. CASE UNCHANGED vars
  BY Zenon, <1>6 DEF vars
<1> QED
  BY <1>1, <1>2, <1>3, <1>4, <1>5, <1>6, Zenon DEF Next, Work

(* The behaviour of an instance is one of its threads, and one of its      *)
(* ranks.                                                                  *)
LEMMA SpecSteps == Spec => ThreadsSpec /\ RankSpec
<1>1. Init => ThreadsInit /\ RankInit
  BY Zenon DEF Init
<1> QED
  BY <1>1, ThreadsStep, RanksStep, PTL DEF Spec, ThreadsSpec, RankSpec

(* In an instance on any number of GPUs a request reported as done was     *)
(* computed on its own data.                                               *)
THEOREM InstanceOwnData == Spec => []ComputedOnOwnData
BY SpecSteps, AlwaysOwnData, PTL

(* Until a rank of the instance fails alone, every rank that waits in a    *)
(* collective waits there for the request the main thread of rank 0 is     *)
(* computing.                                                              *)
THEOREM InstanceRanksInStep == Spec => []RanksInStep
BY SpecSteps, RanksStayInStep, PTL

(* Every block missing from the pool of the instance has its one request.  *)
THEOREM InstanceBlocks == Spec => []BlocksAccountedFor
BY SpecSteps, BlocksAlwaysAccountedFor, PTL
===============================================================================

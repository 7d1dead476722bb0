----------------------------- MODULE Manager_proofs -----------------------------
(***************************************************************************)
(* Theorems about the two parts of the manager, each for every value of    *)
(* its constants.  Kevent: the list of waits, the count of the answers a   *)
(* wait is owed, and the power state.  UsbPnpNotify: what user space is    *)
(* told of the devices nothing prevented the announcement of, and of the   *)
(* gadget.                                                                 *)
(***************************************************************************)
EXTENDS Kevent, UsbPnpNotify, FiniteSetTheorems, SequenceTheorems, WellFoundedInduction,
        NaturalsInduction, TLAPS

-----------------------------------------------------------------------------
(* Kernel events.                                                          *)

Pcs    == {"idle", "prepare", "send", "wait", "remove", "sent"}
Events == [token : Tokens, old : BOOLEAN]
New(t) == [token |-> t, old |-> FALSE]

KeTypeOK ==
  /\ pc \in [Senders -> Pcs] /\ token \in [Senders -> Tokens \cup {NoToken}]
  /\ result \in [Senders -> {"ok", "fail", "timeout"}]
  /\ clientList \subseteq Clients /\ waitList \subseteq Tokens
  /\ misled \subseteq Senders /\ leaked \subseteq Tokens
  /\ waitCount \in [Tokens -> 0 .. (Wrap - 1)] /\ comp \in [Tokens -> Nat]
  /\ inbox \in [Clients -> Seq(Events)]

\* A sender has a wait of its own from PrepareEvent until it frees it.
OneWait ==
  /\ \A s \in Senders : pc[s] \in {"wait", "remove"} => token[s] # NoToken
  /\ \A s \in Senders : pc[s] \in {"idle", "prepare", "sent"} => token[s] = NoToken
  /\ \A s, r \in Senders : token[s] = token[r] /\ token[s] # NoToken => s = r
  /\ \A s \in Senders : pc[s] = "send" /\ token[s] # NoToken => comp[token[s]] = 0

\* An event whose wait is not gone is on the list and in no inbox twice.
Asked ==
  \A c \in Clients : \A i, j \in 1 .. Len(inbox[c]) :
    ~inbox[c][i].old => /\ inbox[c][i].token \in waitList
                        /\ inbox[c][j] = inbox[c][i] => i = j

\* The clients that have the event of the wait t still to answer in their box.
Owing(box, t) == {c \in Clients : \E i \in 1 .. Len(box[c]) : box[c][i] = New(t)}

\* The count of a wait covers the answers that are owed; when it has been
\* completed there are none.
Counted(s) ==
  pc[s] \in {"wait", "remove"} =>
    /\ Cardinality(Owing(inbox, token[s])) <= waitCount[token[s]]
    /\ comp[token[s]] > 0 \/ (pc[s] = "remove" /\ result[s] # "timeout") => Owing(inbox, token[s]) = {}

IInv ==
  /\ KeTypeOK /\ OneWait /\ ListedWaitsAlive /\ Asked
  /\ \A s \in Senders \ misled : Counted(s)

\* Whose turn it is in the chain: the PM notifier of kevent only runs in its own,
\* and the drivers are resumed on every way to "awake".
PmTurn ==
  /\ chain.phase \in {"awake", "asleep", "prepare", "undo", "post"}
  /\ chain.phase \in {"awake", "asleep"} <=> chain.todo = <<>>
  /\ pc \in [Senders -> Pcs]
  /\ pc["pm"] # "idle" => chain.todo # <<>> /\ Head(chain.todo) = "pm"

-----------------------------------------------------------------------------
(* Counting.                                                               *)

(* waitCount-- does not wrap while an answer is owed.                       *)
LEMMA CountDown ==
  ASSUME NEW n \in 0 .. (Wrap - 1)
  PROVE  /\ (n + Wrap - 1) % Wrap \in 0 .. (Wrap - 1)
         /\ n > 0 => (n + Wrap - 1) % Wrap = n - 1
<1> Wrap \in Nat \ {0}
  BY KeventAssumption
<1>1. CASE n = 0
  <2>1. (n + Wrap - 1) % Wrap = Wrap - 1
    BY <1>1
  <2> QED
    BY <1>1, <2>1
<1>2. CASE n > 0
  <2>1. (n - 1) + Wrap = n + Wrap - 1 /\ n - 1 \in 0 .. (Wrap - 1)
    BY <1>2
  <2>2. (n + Wrap - 1) % Wrap = n - 1
    BY <2>1
  <2> QED
    BY <2>1, <2>2
<1> QED
  BY <1>1, <1>2

(* Clients are finitely many, and so are those who owe an answer.          *)
LEMMA OwingFinite ==
  /\ \A box, t : IsFiniteSet(Owing(box, t)) /\ Cardinality(Owing(box, t)) \in Nat
  /\ IsFiniteSet(Clients) /\ Cardinality(Clients) \in Nat /\ Cardinality(Clients) < Wrap
<1>1. IsFiniteSet(Clients) /\ Cardinality(Clients) \in Nat /\ Cardinality(Clients) < Wrap
  BY KeventAssumption, FS_CardinalityType
<1>2. ASSUME NEW box, NEW t
      PROVE  IsFiniteSet(Owing(box, t)) /\ Cardinality(Owing(box, t)) \in Nat
  <2>1. Owing(box, t) \in SUBSET Clients
    BY DEF Owing
  <2> QED
    BY <1>1, <2>1, FS_Subset, FS_CardinalityType
<1> QED
  BY <1>1, <1>2

(* Fewer debtors are not more.                                             *)
LEMMA FewerOwing ==
  ASSUME NEW box, NEW t, NEW A, A \subseteq Owing(box, t)
  PROVE  /\ IsFiniteSet(A) /\ Cardinality(A) \in Nat
         /\ Cardinality(A) <= Cardinality(Owing(box, t))
BY OwingFinite, FS_Subset, FS_CardinalityType

-----------------------------------------------------------------------------
(* The steps.                                                              *)

(* A wait stays counted while its count and completions stay and no client *)
(* comes to owe it an answer.                                              *)
LEMMA StillCounted ==
  ASSUME KeTypeOK, NEW s \in Senders, Counted(s), token'[s] = token[s],
         pc'[s] \in {"wait", "remove"} =>
           /\ pc'[s] = pc[s] /\ result'[s] = result[s]
           /\ waitCount'[token[s]] = waitCount[token[s]] /\ comp'[token[s]] = comp[token[s]]
           /\ Owing(inbox', token[s]) \subseteq Owing(inbox, token[s]),
         token[s] \in Tokens
  PROVE  Counted(s)'
<1> SUFFICES ASSUME pc'[s] \in {"wait", "remove"} PROVE Counted(s)'
  BY DEF Counted
<1>1. PICK t \in Tokens : t = token[s]
  OBVIOUS
<1>2. /\ Cardinality(Owing(inbox', t)) \in Nat /\ Cardinality(Owing(inbox, t)) \in Nat
      /\ Cardinality(Owing(inbox', t)) <= Cardinality(Owing(inbox, t))
  BY <1>1, FewerOwing, OwingFinite
<1>3. waitCount[t] \in Nat
  BY KeventAssumption DEF KeTypeOK
<1>4. Cardinality(Owing(inbox', t)) <= waitCount'[t]
  BY <1>1, <1>2, <1>3 DEF Counted
<1>5. comp'[t] > 0 \/ (pc'[s] = "remove" /\ result'[s] # "timeout") => Owing(inbox', t) = {}
  BY <1>1 DEF Counted
<1> QED
  BY <1>1, <1>4, <1>5 DEF Counted

(* The initial state satisfies the invariant.                              *)
LEMMA InitIInv == KeInit => IInv
<1> SUFFICES ASSUME KeInit PROVE IInv
  OBVIOUS
<1>1. KeTypeOK
  BY KeventAssumption DEF KeInit, KeTypeOK, Pcs, Events
<1>2. OneWait /\ ListedWaitsAlive
  BY DEF KeInit, OneWait, ListedWaitsAlive
<1>3. Asked /\ \A s \in Senders : Counted(s)
  BY DEF KeInit, Asked, Counted
<1> QED
  BY <1>1, <1>2, <1>3 DEF IInv

(* A step that leaves the list of waits, their counts and the senders that *)
(* wait alone, and at most empties a client's inbox.                       *)
LEMMA SameWaits ==
  ASSUME IInv, KeTypeOK', OneWait', UNCHANGED <<waitList, waitCount, comp, token, misled>>,
         \A s \in Senders : pc[s] \in {"wait", "remove"} \/ pc'[s] \in {"wait", "remove"} =>
           pc'[s] = pc[s] /\ result'[s] = result[s],
         \A c \in Clients : inbox'[c] = inbox[c] \/ inbox'[c] = <<>>
  PROVE  IInv'
<1> USE DEF IInv
<1>1. ListedWaitsAlive'
  BY DEF ListedWaitsAlive
<1>2. Asked'
  BY DEF Asked
<1>3. ASSUME NEW s \in Senders \ misled PROVE Counted(s)'
  <2>1. CASE pc'[s] \in {"wait", "remove"}
    <3>1. token[s] \in Tokens
      BY <2>1 DEF OneWait, KeTypeOK
    <3>2. Owing(inbox', token[s]) \subseteq Owing(inbox, token[s])
      BY DEF Owing
    <3> QED
      BY <1>3, <2>1, <3>1, <3>2, StillCounted
  <2>2. CASE pc'[s] \notin {"wait", "remove"}
    BY <2>2 DEF Counted
  <2> QED
    BY <2>1, <2>2
<1> QED
  BY <1>1, <1>2, <1>3

(* The driver, its clients and the notifier chain touch no wait.           *)
LEMMA OtherSteps ==
  ASSUME IInv,
         \/ HdfKeventDriverBind \/ HdfKeventDriverInit \/ HdfKeventDriverRelease
         \/ PmBegin \/ DevmgrPmNotifier
         \/ \E c \in Clients : HdfKeventDriverOpen(c) \/ HdfKeventDriverClose(c)
  PROVE  IInv'
<1> USE DEF IInv, waits, sender, life
<1>0. /\ UNCHANGED <<waits, sender, misled>>
      /\ clientList' \subseteq Clients /\ inbox' \in [Clients -> Seq(Events)]
      /\ \A c \in Clients : inbox'[c] = inbox[c] \/ inbox'[c] = <<>>
  <2>1. CASE \E c \in Clients : HdfKeventDriverOpen(c)
    BY <2>1 DEF HdfKeventDriverOpen, KeTypeOK
  <2>2. CASE \E c \in Clients : HdfKeventDriverClose(c)
    BY <2>2 DEF HdfKeventDriverClose, KeTypeOK
  <2> QED
    BY <2>1, <2>2 DEF HdfKeventDriverBind, HdfKeventDriverInit, HdfKeventDriverRelease,
       PmBegin, DevmgrPmNotifier, KeTypeOK
<1>1. KeTypeOK'
  BY <1>0 DEF KeTypeOK
<1>2. OneWait'
  BY <1>0 DEF OneWait
<1> QED
  BY <1>0, <1>1, <1>2, SameWaits

(* Entering SendKevent, and leaving it.                                    *)
LEMMA EnterStep == ASSUME IInv, NEW s \in Senders, Enter(s) PROVE IInv'
<1> USE DEF IInv, waits, life
<1>0. /\ UNCHANGED <<waits, token, misled, inbox, clientList>>
      /\ pc'[s] \in {"sent", "prepare"} /\ pc[s] = "idle" /\ result'[s] = "ok"
      /\ pc' \in [Senders -> Pcs] /\ result' \in [Senders -> {"ok", "fail", "timeout"}]
      /\ \A r \in Senders \ {s} : pc'[r] = pc[r] /\ result'[r] = result[r]
  BY DEF Enter, KeTypeOK, Pcs
<1>1. KeTypeOK'
  BY <1>0 DEF KeTypeOK
<1>2. OneWait'
  BY <1>0 DEF OneWait
<1> QED
  BY <1>0, <1>1, <1>2, SameWaits

(* The end of a call.                                                      *)
LEMMA NotifyStep == ASSUME IInv, NEW s \in Senders, KernalSpacePmNotify(s) PROVE IInv'
<1> USE DEF IInv, waits, life
<1>0. /\ UNCHANGED <<waits, token, misled, inbox, clientList>>
      /\ pc'[s] = "idle" /\ pc[s] = "sent" /\ result'[s] = "ok"
      /\ pc' \in [Senders -> Pcs] /\ result' \in [Senders -> {"ok", "fail", "timeout"}]
      /\ \A r \in Senders \ {s} : pc'[r] = pc[r] /\ result'[r] = result[r]
  BY DEF KernalSpacePmNotify, KeTypeOK, Pcs
<1>1. KeTypeOK'
  BY <1>0 DEF KeTypeOK
<1>2. OneWait'
  BY <1>0 DEF OneWait
<1> QED
  BY <1>0, <1>1, <1>2, SameWaits

(* The wait of a synchronous event has an address no other sender uses.    *)
LEMMA PrepareStep == ASSUME IInv, NEW s \in Senders, PrepareEvent(s) PROVE IInv'
<1> USE DEF IInv
<1>0. /\ UNCHANGED <<waitList, waitCount, misled, inbox, clientList>>
      /\ pc'[s] \in {"sent", "send"} /\ pc[s] = "prepare" /\ token[s] = NoToken
      /\ pc' \in [Senders -> Pcs] /\ result' \in [Senders -> {"ok", "fail", "timeout"}]
      /\ \A r \in Senders \ {s} : pc'[r] = pc[r] /\ result'[r] = result[r]
  <2>1. UNCHANGED <<waitList, waitCount, misled, inbox, clientList>> /\ pc[s] = "prepare"
    BY DEF PrepareEvent
  <2>2. \/ pc' = [pc EXCEPT ![s] = "sent"] /\ result' = [result EXCEPT ![s] = "fail"]
        \/ pc' = [pc EXCEPT ![s] = "send"] /\ result' = result
    BY DEF PrepareEvent
  <2> QED
    BY <2>1, <2>2 DEF KeTypeOK, Pcs, OneWait
<1>3. leaked' \subseteq Tokens
  <2>1. leaked' = leaked \/ \E t \in Free : leaked' = leaked \cup {t}
    BY DEF PrepareEvent
  <2> QED
    BY <2>1 DEF KeTypeOK, Free
<1>1. CASE UNCHANGED <<token, comp>>
  <2>1. KeTypeOK'
    BY <1>0, <1>1, <1>3 DEF KeTypeOK
  <2>2. OneWait'
    BY <1>0, <1>1 DEF OneWait
  <2> QED
    BY <1>0, <1>1, <2>1, <2>2, SameWaits
<1>2. CASE /\ \E t \in Free : token' = [token EXCEPT ![s] = t] /\ comp' = [comp EXCEPT ![t] = 0]
           /\ pc'[s] = "send"
  <2>1. PICK t \in Free : token' = [token EXCEPT ![s] = t] /\ comp' = [comp EXCEPT ![t] = 0]
    BY <1>2
  <2>2. t \in Tokens /\ t # NoToken /\ \A r \in Senders : token[r] # t
    BY KeventAssumption DEF Free
  <2>3. /\ token'[s] = t /\ comp'[t] = 0
        /\ \A r \in Senders \ {s} : token'[r] = token[r]
        /\ \A u \in Tokens \ {t} : comp'[u] = comp[u]
    BY <2>1, <2>2 DEF KeTypeOK
  <2>4. KeTypeOK'
    BY <1>0, <1>3, <2>1, <2>2 DEF KeTypeOK
  <2>5. OneWait'
    <3>1. \A r \in Senders : pc'[r] = "send" /\ token'[r] # NoToken => comp'[token'[r]] = 0
      BY <1>0, <2>2, <2>3 DEF OneWait, KeTypeOK
    <3> QED
      BY <1>0, <1>2, <2>2, <2>3, <3>1 DEF OneWait
  <2>6. ListedWaitsAlive'
    <3>1. \A r \in Senders : pc'[r] \in {"wait", "remove"} <=> pc[r] \in {"wait", "remove"}
      BY <1>0, <1>2
    <3>2. \A r \in Senders : pc[r] \in {"wait", "remove"} => token'[r] = token[r]
      BY <1>0, <2>3
    <3> QED
      BY <1>0, <3>1, <3>2 DEF ListedWaitsAlive
  <2>7. Asked'
    BY <1>0 DEF Asked
  <2>8. ASSUME NEW r \in Senders \ misled PROVE Counted(r)'
    <3>1. CASE pc'[r] \in {"wait", "remove"}
      <4>1. r # s /\ token'[r] = token[r] /\ token[r] \in Tokens /\ token[r] # t
        BY <1>0, <1>2, <2>2, <2>3, <3>1 DEF OneWait, KeTypeOK
      <4>2. comp'[token[r]] = comp[token[r]]
        BY <2>3, <4>1
      <4> QED
        BY <1>0, <2>8, <4>1, <4>2, StillCounted
    <3>2. CASE pc'[r] \notin {"wait", "remove"}
      BY <3>2 DEF Counted
    <3> QED
      BY <3>1, <3>2
  <2> QED
    BY <1>0, <2>4, <2>5, <2>6, <2>7, <2>8
<1> QED
  BY <1>0, <1>1, <1>2 DEF PrepareEvent, KeTypeOK

(* The wait is listed with as many answers to come as there are clients.   *)
LEMMA SendStep == ASSUME IInv, NEW s \in Senders, Send(s) PROVE IInv'
<1> USE DEF IInv
<1>0. /\ UNCHANGED <<comp, leaked, token, misled, clientList>> /\ pc[s] = "send"
      /\ pc' \in [Senders -> Pcs] /\ result' \in [Senders -> {"ok", "fail", "timeout"}]
      /\ pc'[s] = IF token[s] = NoToken THEN "sent" ELSE "wait"
      /\ \A r \in Senders \ {s} : pc'[r] = pc[r] /\ result'[r] = result[r]
  BY DEF Send, SendCounting, Deliver, KeTypeOK, Pcs, life
<1>1. CASE token[s] = NoToken
  <2>1. UNCHANGED <<waitList, waitCount, inbox>>
    BY <1>1 DEF Send, SendCounting, Deliver
  <2>2. KeTypeOK'
    BY <1>0, <2>1 DEF KeTypeOK
  <2>3. OneWait'
    BY <1>0, <1>1, <2>1 DEF OneWait
  <2> QED
    BY <1>0, <1>1, <2>1, <2>2, <2>3, SameWaits
<1>2. CASE token[s] # NoToken
  <2>1. PICK t \in Tokens : t = token[s]
    BY <1>2 DEF KeTypeOK
  <2>2. PICK reached \in SUBSET clientList :
          inbox' = [c \in Clients |-> IF c \notin reached THEN inbox[c]
                                     ELSE Append(inbox[c], New(t))]
    BY <1>2, <2>1 DEF Send, SendCounting, Deliver, New
  <2>3. /\ waitList' = waitList \cup {t} /\ waitCount' = [waitCount EXCEPT ![t] = clientCount]
        /\ pc'[s] = "wait"
    BY <1>0, <1>2, <2>1 DEF Send, SendCounting
  <2>4. clientCount \in 0 .. (Wrap - 1) /\ IsFiniteSet(clientList)
    BY OwingFinite, KeventAssumption, FS_Subset, FS_CardinalityType DEF KeTypeOK, clientCount
  <2>5. New(t) \in Events /\ New(t).old = FALSE /\ New(t).token = t
    BY DEF New, Events
  <2>6. KeTypeOK'
    <3>1. inbox' \in [Clients -> Seq(Events)]
      BY <2>2, <2>5 DEF KeTypeOK
    <3>2. waitCount' \in [Tokens -> 0 .. (Wrap - 1)]
      BY <2>3, <2>4 DEF KeTypeOK
    <3> QED
      BY <1>0, <2>3, <3>1, <3>2 DEF KeTypeOK
  <2>7. t \notin waitList /\ comp[t] = 0 /\ \A r \in Senders \ {s} : token[r] # t
    BY <1>0, <1>2, <2>1 DEF OneWait, ListedWaitsAlive
  <2>8. OneWait'
    BY <1>0, <1>2, <2>3 DEF OneWait
  <2>9. ListedWaitsAlive'
    <3>1. {r \in Senders : pc'[r] \in {"wait", "remove"}}
            = {r \in Senders : pc[r] \in {"wait", "remove"}} \cup {s}
      BY <1>0, <2>3
    <3> QED
      BY <1>0, <2>1, <2>3, <3>1 DEF ListedWaitsAlive
  <2>10. ASSUME NEW c \in Clients
         PROVE  \/ inbox'[c] = inbox[c]
                \/ /\ inbox[c] \in Seq(Events) /\ inbox'[c] = Append(inbox[c], New(t))
                   /\ Len(inbox'[c]) = Len(inbox[c]) + 1 /\ inbox'[c][Len(inbox[c]) + 1] = New(t)
                   /\ \A i \in 1 .. Len(inbox[c]) : inbox'[c][i] = inbox[c][i]
    BY <2>2, <2>5 DEF KeTypeOK
  <2>11. \A c \in Clients : \A i \in 1 .. Len(inbox[c]) : inbox[c][i] # New(t)
    BY <2>5, <2>7 DEF Asked
  <2>12. Asked'
    <3> SUFFICES ASSUME NEW c \in Clients, NEW i \in 1 .. Len(inbox'[c]),
                        NEW j \in 1 .. Len(inbox'[c]), ~inbox'[c][i].old
                 PROVE  /\ inbox'[c][i].token \in waitList'
                        /\ inbox'[c][j] = inbox'[c][i] => i = j
      BY DEF Asked
    <3>1. CASE inbox'[c] = inbox[c]
      BY <2>3, <3>1 DEF Asked
    <3>2. CASE inbox'[c] # inbox[c]
      <4>1. /\ Len(inbox[c]) \in Nat /\ Len(inbox'[c]) = Len(inbox[c]) + 1
            /\ inbox'[c][Len(inbox[c]) + 1] = New(t)
            /\ \A k \in 1 .. Len(inbox[c]) : inbox'[c][k] = inbox[c][k]
        BY <2>10, <3>2
      <4>2. CASE i \in 1 .. Len(inbox[c])
        <5>1. inbox'[c][i].token \in waitList'
          BY <2>3, <4>1, <4>2 DEF Asked
        <5>2. CASE j \in 1 .. Len(inbox[c])
          BY <4>1, <4>2, <5>1, <5>2 DEF Asked
        <5>3. CASE j = Len(inbox[c]) + 1
          BY <2>11, <4>1, <4>2, <5>1, <5>3
        <5> QED
          BY <4>1, <5>2, <5>3
      <4>3. CASE i = Len(inbox[c]) + 1
        <5>1. inbox'[c][i].token \in waitList'
          BY <2>3, <2>5, <4>1, <4>3
        <5>2. CASE j \in 1 .. Len(inbox[c])
          BY <2>11, <4>1, <4>3, <5>1, <5>2
        <5> QED
          BY <4>1, <4>3, <5>1, <5>2
      <4> QED
        BY <4>1, <4>2, <4>3
    <3> QED
      BY <3>1, <3>2
  <2>13. ASSUME NEW r \in Senders \ misled PROVE Counted(r)'
    <3>1. CASE r = s
      <4>1. Owing(inbox', t) \subseteq clientList
        <5> SUFFICES ASSUME NEW c \in Owing(inbox', t), c \notin clientList PROVE FALSE
          OBVIOUS
        <5>1. inbox'[c] = inbox[c] /\ c \in Clients
          BY <2>2 DEF Owing
        <5> QED
          BY <2>11, <5>1 DEF Owing
      <4>2. Cardinality(Owing(inbox', t)) <= clientCount
        BY <2>4, <4>1, FS_Subset DEF clientCount
      <4>3. waitCount'[t] = clientCount /\ ~(comp'[t] > 0) /\ token'[s] = t
        BY <1>0, <2>1, <2>3, <2>7 DEF KeTypeOK
      <4> QED
        BY <2>3, <3>1, <4>2, <4>3 DEF Counted
    <3>2. CASE r # s /\ pc'[r] \in {"wait", "remove"}
      <4>1. PICK u \in Tokens : u = token[r] /\ u # t
        BY <1>0, <2>7, <3>2 DEF OneWait, KeTypeOK
      <4>2. Owing(inbox', u) \subseteq Owing(inbox, u)
        <5> SUFFICES ASSUME NEW c \in Owing(inbox', u) PROVE c \in Owing(inbox, u)
          OBVIOUS
        <5>1. PICK i \in 1 .. Len(inbox'[c]) : inbox'[c][i] = New(u)
          BY DEF Owing
        <5>2. c \in Clients /\ New(u) # New(t)
          BY <4>1 DEF Owing, New
        <5>3. i \in 1 .. Len(inbox[c]) /\ inbox[c][i] = New(u)
          BY <2>10, <5>1, <5>2
        <5> QED
          BY <5>2, <5>3 DEF Owing
      <4>3. waitCount'[u] = waitCount[u] /\ pc'[r] = pc[r] /\ result'[r] = result[r]
        BY <1>0, <2>3, <3>2, <4>1 DEF KeTypeOK
      <4> QED
        BY <1>0, <2>13, <4>1, <4>2, <4>3, StillCounted
    <3>3. CASE pc'[r] \notin {"wait", "remove"}
      BY <3>3 DEF Counted
    <3> QED
      BY <3>1, <3>2, <3>3
  <2> QED
    BY <1>0, <2>6, <2>8, <2>9, <2>12, <2>13
<1> QED
  BY <1>1, <1>2

(* A woken sender was answered by all, one that timed out need not be.     *)
LEMMA EndOfWaitStep == ASSUME IInv, NEW s \in Senders, Woken(s) \/ Timeout(s) PROVE IInv'
<1> USE DEF IInv
<1>0. /\ UNCHANGED <<waitList, waitCount, leaked, token, misled, clientList, inbox>>
      /\ pc[s] = "wait" /\ pc'[s] = "remove" /\ pc' \in [Senders -> Pcs]
      /\ \A r \in Senders \ {s} : pc'[r] = pc[r] /\ result'[r] = result[r]
      /\ result' \in [Senders -> {"ok", "fail", "timeout"}]
  BY DEF Woken, Timeout, KeTypeOK, Pcs, life, waits
<1>1. PICK t \in Tokens : t = token[s]
  BY <1>0 DEF OneWait, KeTypeOK
<1>2. \/ comp[t] > 0 /\ comp' = [comp EXCEPT ![t] = @ - 1] /\ result' = result
      \/ comp[t] = 0 /\ comp' = comp /\ result'[s] = "timeout"
  <2>1. CASE Woken(s)
    BY <1>1, <2>1 DEF Woken
  <2>2. CASE Timeout(s)
    <3>1. comp[t] = 0 /\ comp' = comp /\ result' = [result EXCEPT ![s] = "timeout"]
      BY <1>1, <2>2 DEF Timeout, waits
    <3> QED
      BY <3>1 DEF KeTypeOK
  <2> QED
    BY <2>1, <2>2
<1>3. comp' \in [Tokens -> Nat] /\ \A u \in Tokens \ {t} : comp'[u] = comp[u]
  <2>1. comp \in [Tokens -> Nat] /\ (comp[t] > 0 => comp[t] - 1 \in Nat)
    BY DEF KeTypeOK
  <2> QED
    BY <1>2, <2>1
<1>4. KeTypeOK'
  BY <1>0, <1>3 DEF KeTypeOK
<1>5. OneWait'
  <2>1. \A r \in Senders : pc'[r] = "send" /\ token'[r] # NoToken => comp'[token'[r]] = 0
    <3> SUFFICES ASSUME NEW r \in Senders, pc'[r] = "send", token'[r] # NoToken
                 PROVE  comp'[token'[r]] = 0
      OBVIOUS
    <3>1. r # s /\ token[r] # t /\ token[r] \in Tokens /\ comp[token[r]] = 0
      BY <1>0, <1>1 DEF OneWait, KeTypeOK
    <3> QED
      BY <1>0, <1>3, <3>1
  <2> QED
    BY <1>0, <2>1 DEF OneWait
<1>6. ListedWaitsAlive'
  <2>1. \A r \in Senders : pc'[r] \in {"wait", "remove"} <=> pc[r] \in {"wait", "remove"}
    BY <1>0
  <2> QED
    BY <1>0, <2>1 DEF ListedWaitsAlive
<1>7. Asked'
  BY <1>0 DEF Asked
<1>8. ASSUME NEW r \in Senders \ misled PROVE Counted(r)'
  <2>1. CASE r = s
    <3>1. Cardinality(Owing(inbox', t)) <= waitCount'[t]
      BY <1>0, <1>1, <1>8, <2>1 DEF Counted
    <3>2. comp[t] > 0 => Owing(inbox', t) = {}
      BY <1>0, <1>1, <1>8, <2>1 DEF Counted
    <3>3. comp'[t] > 0 \/ result'[s] # "timeout" => Owing(inbox', t) = {}
      BY <1>2, <3>2
    <3> QED
      BY <1>0, <1>1, <2>1, <3>1, <3>3 DEF Counted
  <2>2. CASE r # s /\ pc'[r] \in {"wait", "remove"}
    <3>1. token[r] \in Tokens /\ token[r] # t
      BY <1>0, <1>1, <2>2 DEF OneWait, KeTypeOK
    <3> QED
      BY <1>0, <1>3, <1>8, <2>2, <3>1, StillCounted
  <2>3. CASE pc'[r] \notin {"wait", "remove"}
    BY <2>3 DEF Counted
  <2> QED
    BY <2>1, <2>2, <2>3
<1> QED
  BY <1>0, <1>4, <1>5, <1>6, <1>7, <1>8

(* The wait is freed, and what is still owed to it is owed to nobody.      *)
LEMMA UnlistStep == ASSUME IInv, NEW s \in Senders, Unlist(s) PROVE IInv'
<1> USE DEF IInv
<1>0. /\ UNCHANGED <<leaked, clientList, result>> /\ misled' = misled \ {s}
      /\ pc[s] = "remove" /\ pc'[s] = "sent" /\ pc' \in [Senders -> Pcs]
      /\ token' = [token EXCEPT ![s] = NoToken]
      /\ \A r \in Senders \ {s} : pc'[r] = pc[r]
  BY DEF Unlist, FreeWait, KeTypeOK, Pcs, life
<1>1. PICK t \in Tokens : t = token[s]
  BY <1>0 DEF OneWait, KeTypeOK
<1>2. /\ waitList' = waitList \ {t} /\ waitCount' = [waitCount EXCEPT ![t] = 0]
      /\ comp' = [comp EXCEPT ![t] = 0]
      /\ inbox' = [c \in Clients |-> [i \in DOMAIN inbox[c] |->
                  IF inbox[c][i].token # t THEN inbox[c][i] ELSE [token |-> t, old |-> TRUE]]]
  BY <1>1 DEF Unlist, FreeWait
<1>3. /\ \A r \in Senders \ {s} : token'[r] = token[r] /\ token[r] # t
      /\ token'[s] = NoToken
  BY <1>0, <1>1, KeventAssumption DEF OneWait, KeTypeOK
<1>4. ASSUME NEW c \in Clients
      PROVE  /\ inbox[c] \in Seq(Events) /\ inbox'[c] \in Seq(Events)
             /\ Len(inbox'[c]) = Len(inbox[c])
             /\ \A i \in 1 .. Len(inbox[c]) : \/ inbox'[c][i] = inbox[c][i] /\ inbox[c][i].token # t
                                           \/ inbox'[c][i] = [token |-> t, old |-> TRUE]
  <2>1. PICK n \in Nat : n = Len(inbox[c])
    BY DEF KeTypeOK
  <2>2. inbox[c] \in [1 .. n -> Events] /\ DOMAIN inbox[c] = 1 .. n
    BY <2>1 DEF KeTypeOK
  <2>3. inbox'[c] = [i \in 1 .. n |-> IF inbox[c][i].token # t THEN inbox[c][i]
                                     ELSE [token |-> t, old |-> TRUE]]
    BY <1>2, <2>2
  <2>4. inbox'[c] \in [1 .. n -> Events]
    BY <2>2, <2>3 DEF Events
  <2>5. inbox'[c] \in Seq(Events) /\ Len(inbox'[c]) = n
    BY <2>1, <2>4
  <2>6. inbox[c] \in Seq(Events)
    BY DEF KeTypeOK
  <2>7. \A i \in 1 .. n : \/ inbox'[c][i] = inbox[c][i] /\ inbox[c][i].token # t
                          \/ inbox'[c][i] = [token |-> t, old |-> TRUE]
    BY <2>3
  <2> QED
    BY <2>1, <2>5, <2>6, <2>7
<1>5. KeTypeOK'
  <2>1. waitCount' \in [Tokens -> 0 .. (Wrap - 1)] /\ comp' \in [Tokens -> Nat]
    BY <1>2, KeventAssumption DEF KeTypeOK
  <2>2. inbox' \in [Clients -> Seq(Events)]
    BY <1>2, <1>4
  <2> QED
    BY <1>0, <1>2, <2>1, <2>2 DEF KeTypeOK
<1>6. OneWait'
  <2>1. \A r \in Senders : pc'[r] = "send" /\ token'[r] # NoToken => comp'[token'[r]] = 0
    BY <1>0, <1>2, <1>3 DEF OneWait, KeTypeOK
  <2> QED
    BY <1>0, <1>3, <2>1 DEF OneWait
<1>7. ListedWaitsAlive'
  <2>1. {r \in Senders : pc'[r] \in {"wait", "remove"}}
          = {r \in Senders : pc[r] \in {"wait", "remove"}} \ {s}
    BY <1>0
  <2> QED
    BY <1>0, <1>1, <1>2, <1>3, <2>1 DEF ListedWaitsAlive
<1>8. Asked'
  <2> SUFFICES ASSUME NEW c \in Clients, NEW i \in 1 .. Len(inbox'[c]),
                      NEW j \in 1 .. Len(inbox'[c]), ~inbox'[c][i].old
               PROVE  /\ inbox'[c][i].token \in waitList'
                      /\ inbox'[c][j] = inbox'[c][i] => i = j
    BY DEF Asked
  <2>1. /\ i \in 1 .. Len(inbox[c]) /\ j \in 1 .. Len(inbox[c])
        /\ inbox'[c][i] = inbox[c][i] /\ inbox[c][i].token # t
    BY <1>4
  <2>2. inbox'[c][j] = inbox'[c][i] => inbox'[c][j] = inbox[c][j]
    BY <1>4, <2>1
  <2> QED
    BY <1>2, <2>1, <2>2 DEF Asked
<1>9. ASSUME NEW r \in Senders \ misled' PROVE Counted(r)'
  <2>1. CASE r = s
    BY <1>0, <2>1 DEF Counted
  <2>2. CASE r # s /\ pc'[r] \in {"wait", "remove"}
    <3>1. PICK u \in Tokens : u = token[r] /\ u # t
      BY <1>0, <1>3, <2>2 DEF OneWait, KeTypeOK
    <3>2. Owing(inbox', u) \subseteq Owing(inbox, u)
      <4> SUFFICES ASSUME NEW c \in Owing(inbox', u) PROVE c \in Owing(inbox, u)
        OBVIOUS
      <4>1. PICK i \in 1 .. Len(inbox'[c]) : inbox'[c][i] = New(u)
        BY DEF Owing
      <4>2. c \in Clients
        BY DEF Owing
      <4>3. New(u).token = u /\ [token |-> t, old |-> TRUE].token = t
        BY DEF New
      <4>4. i \in 1 .. Len(inbox[c]) /\ inbox[c][i] = New(u)
        BY <1>4, <3>1, <4>1, <4>2, <4>3
      <4> QED
        BY <4>2, <4>4 DEF Owing
    <3>3. waitCount'[u] = waitCount[u] /\ comp'[u] = comp[u]
      BY <1>2, <3>1 DEF KeTypeOK
    <3>4. Counted(r)
      BY <1>0, <1>9, <2>2
    <3> QED
      BY <1>0, <1>3, <2>2, <3>1, <3>2, <3>3, <3>4, StillCounted
  <2>3. CASE pc'[r] \notin {"wait", "remove"}
    BY <2>3 DEF Counted
  <2> QED
    BY <2>1, <2>2, <2>3
<1> QED
  BY <1>5, <1>6, <1>7, <1>8, <1>9

(* An answer counts a wait down; one to an older event misleads the sender.*)
LEMMA CompleteStep == ASSUME IInv, NEW c \in Clients, CompleteKevent(c) PROVE IInv'
<1> USE DEF IInv
<1>0. /\ UNCHANGED <<waitList, leaked, clientList, pc, token, result>>
      /\ inbox[c] # <<>> /\ inbox' = [inbox EXCEPT ![c] = Tail(@)]
  BY DEF CompleteKevent, sender
<1>1. PICK e \in Events : e = Head(inbox[c])
  BY <1>0 DEF KeTypeOK
<1>2. PICK t \in Tokens : t = e.token
  BY DEF Events
<1>3. PICK left \in 0 .. (Wrap - 1) :
        left = (waitCount[t] + Wrap - 1) % Wrap /\ (waitCount[t] > 0 => left = waitCount[t] - 1)
  BY CountDown DEF KeTypeOK
<1>4. \/ t \notin waitList /\ UNCHANGED <<waitCount, comp, misled>>
      \/ /\ t \in waitList /\ waitCount' = [waitCount EXCEPT ![t] = left]
         /\ comp' = IF left = 0 THEN [comp EXCEPT ![t] = @ + 1] ELSE comp
         /\ misled' = IF ~e.old THEN misled ELSE misled \cup {s \in Senders : token[s] = t}
  BY <1>1, <1>2, <1>3 DEF CompleteKevent
<1>5. /\ misled \subseteq misled' /\ misled' \subseteq Senders
      /\ waitCount' \in [Tokens -> 0 .. (Wrap - 1)]
      /\ \A u \in Tokens \ {t} : waitCount'[u] = waitCount[u] /\ comp'[u] = comp[u]
  BY <1>4 DEF KeTypeOK
<1>6. comp' \in [Tokens -> Nat] /\ (t \notin waitList => comp' = comp)
  <2>1. comp \in [Tokens -> Nat] /\ comp[t] + 1 \in Nat
    BY DEF KeTypeOK
  <2> QED
    BY <1>4, <2>1
<1>7. /\ inbox'[c] \in Seq(Events) /\ Len(inbox[c]) \in Nat \ {0} /\ inbox[c][1] = e
      /\ Len(inbox'[c]) = Len(inbox[c]) - 1
      /\ \A i \in 1 .. Len(inbox'[c]) : i + 1 \in 1 .. Len(inbox[c]) /\ inbox'[c][i] = inbox[c][i + 1]
  <2>1. inbox[c] \in Seq(Events) /\ inbox[c] # <<>> /\ inbox'[c] = Tail(inbox[c])
    BY <1>0 DEF KeTypeOK
  <2> QED
    BY <1>1, <2>1, HeadTailProperties
<1>8. \A d \in Clients \ {c} : inbox'[d] = inbox[d]
  BY <1>0 DEF KeTypeOK
<1>9. KeTypeOK'
  <2>1. inbox' \in [Clients -> Seq(Events)]
    BY <1>0, <1>7 DEF KeTypeOK
  <2> QED
    BY <1>0, <1>5, <1>6, <2>1 DEF KeTypeOK
<1>10. OneWait'
  <2>1. \A s \in Senders : pc'[s] = "send" /\ token'[s] # NoToken => comp'[token'[s]] = 0
    <3> SUFFICES ASSUME NEW s \in Senders, pc[s] = "send", token[s] # NoToken
                 PROVE  comp'[token[s]] = 0
      BY <1>0
    <3>1. token[s] \in Tokens /\ token[s] \notin waitList /\ comp[token[s]] = 0
      BY DEF OneWait, ListedWaitsAlive, KeTypeOK
    <3> QED
      BY <1>5, <1>6, <3>1
  <2> QED
    BY <1>0, <2>1 DEF OneWait
<1>11. ListedWaitsAlive'
  BY <1>0 DEF ListedWaitsAlive
<1>12. Asked'
  <2> SUFFICES ASSUME NEW d \in Clients, NEW i \in 1 .. Len(inbox'[d]),
                      NEW j \in 1 .. Len(inbox'[d]), ~inbox'[d][i].old
               PROVE  /\ inbox'[d][i].token \in waitList
                      /\ inbox'[d][j] = inbox'[d][i] => i = j
    BY <1>0 DEF Asked
  <2>1. CASE d # c
    BY <1>8, <2>1 DEF Asked
  <2>2. CASE d = c
    <3>1. /\ i + 1 \in 1 .. Len(inbox[c]) /\ inbox'[c][i] = inbox[c][i + 1]
          /\ j + 1 \in 1 .. Len(inbox[c]) /\ inbox'[c][j] = inbox[c][j + 1]
      BY <1>7, <2>2
    <3>2. /\ inbox[c][i + 1].token \in waitList
          /\ inbox[c][j + 1] = inbox[c][i + 1] => i + 1 = j + 1
      BY <2>2, <3>1 DEF Asked
    <3>3. i \in Int /\ j \in Int /\ (i + 1 = j + 1 => i = j)
      OBVIOUS
    <3> QED
      BY <2>2, <3>1, <3>2, <3>3
  <2> QED
    BY <2>1, <2>2
<1>13. ASSUME NEW u PROVE Owing(inbox', u) \subseteq Owing(inbox, u)
  <2> SUFFICES ASSUME NEW d \in Owing(inbox', u) PROVE d \in Owing(inbox, u)
    OBVIOUS
  <2>1. PICK i \in 1 .. Len(inbox'[d]) : inbox'[d][i] = New(u)
    BY DEF Owing
  <2>2. d \in Clients
    BY DEF Owing
  <2>3. \E k \in 1 .. Len(inbox[d]) : inbox[d][k] = New(u)
    <3>1. CASE d # c
      BY <1>8, <2>1, <2>2, <3>1
    <3>2. CASE d = c
      <4>1. i + 1 \in 1 .. Len(inbox[c]) /\ inbox'[c][i] = inbox[c][i + 1]
        BY <1>7, <2>1, <3>2
      <4> QED
        BY <2>1, <3>2, <4>1
    <3> QED
      BY <3>1, <3>2
  <2> QED
    BY <2>2, <2>3 DEF Owing
<1>14. ASSUME NEW s \in Senders \ misled' PROVE Counted(s)'
  <2> SUFFICES ASSUME pc[s] \in {"wait", "remove"} PROVE Counted(s)'
    BY <1>0 DEF Counted
  <2>1. PICK u \in Tokens : u = token[s]
    BY DEF OneWait, KeTypeOK
  <2>2. u \in waitList /\ s \notin misled /\ Counted(s)
    BY <1>5, <2>1 DEF ListedWaitsAlive
  <2>3. CASE u # t
    BY <1>0, <1>5, <1>13, <2>1, <2>2, <2>3, StillCounted
  <2>4. CASE u = t
    <3>1. ~e.old /\ e = New(t)
      BY <1>2, <1>4, <2>1, <2>2, <2>4 DEF Events, New
    <3>2. c \in Owing(inbox, t) /\ c \notin Owing(inbox', t)
      <4>1. c \in Owing(inbox, t)
        BY <1>7, <3>1 DEF Owing
      <4>2. ASSUME NEW i \in 1 .. Len(inbox'[c]) PROVE inbox'[c][i] # New(t)
        <5>1. i + 1 \in 1 .. Len(inbox[c]) /\ 1 \in 1 .. Len(inbox[c]) /\ i + 1 # 1
          BY <1>7
        <5>2. ~inbox[c][1].old /\ (inbox[c][i + 1] = inbox[c][1] => 1 = i + 1)
          BY <1>7, <3>1, <5>1 DEF Asked
        <5> QED
          BY <1>7, <3>1, <5>1, <5>2
      <4> QED
        BY <4>1, <4>2 DEF Owing
    <3>3. /\ Cardinality(Owing(inbox', t)) \in Nat
          /\ Cardinality(Owing(inbox', t)) <= Cardinality(Owing(inbox, t)) - 1
      <4>1. Owing(inbox', t) \subseteq Owing(inbox, t) \ {c}
        BY <1>13, <3>2
      <4>2. /\ IsFiniteSet(Owing(inbox, t) \ {c})
            /\ Cardinality(Owing(inbox, t) \ {c}) = Cardinality(Owing(inbox, t)) - 1
        BY <3>2, OwingFinite, FS_RemoveElement
      <4> QED
        BY <4>1, <4>2, OwingFinite, FS_Subset
    <3>4. /\ Cardinality(Owing(inbox, t)) <= waitCount[t] /\ waitCount[t] \in Nat
          /\ Cardinality(Owing(inbox, t)) \in Nat
      BY <2>1, <2>2, <2>4, OwingFinite DEF Counted, KeTypeOK
    <3>5. left = waitCount[t] - 1 /\ Cardinality(Owing(inbox', t)) <= left
      BY <1>3, <3>3, <3>4
    <3>6. comp[t] = 0 /\ ~(pc[s] = "remove" /\ result[s] # "timeout")
      BY <2>1, <2>2, <2>4, <3>2 DEF Counted, KeTypeOK
    <3>7. comp'[t] > 0 => left = 0
      BY <1>4, <3>6 DEF KeTypeOK
    <3>8. left = 0 => Owing(inbox', t) = {}
      BY <3>3, <3>5, OwingFinite, FS_EmptySet
    <3>9. waitCount'[t] = left
      BY <1>4, <2>2, <2>4 DEF KeTypeOK
    <3>10. /\ Cardinality(Owing(inbox', t)) <= waitCount'[t]
           /\ comp'[t] > 0 => Owing(inbox', t) = {}
      BY <3>5, <3>7, <3>8, <3>9
    <3> QED
      BY <1>0, <2>1, <2>4, <3>6, <3>10 DEF Counted
  <2> QED
    BY <2>3, <2>4
<1> QED
  BY <1>9, <1>10, <1>11, <1>12, <1>14

(* Every step keeps the invariant.                                         *)
LEMMA StepIInv == IInv /\ [KeNext]_keVars => IInv'
<1> SUFFICES ASSUME IInv, [KeNext]_keVars PROVE IInv'
  OBVIOUS
<1>1. CASE \E s \in Senders : Enter(s) \/ SenderStep(s)
  BY <1>1, EnterStep, PrepareStep, SendStep, EndOfWaitStep, UnlistStep, NotifyStep DEF SenderStep
<1>2. CASE \E c \in Clients : CompleteKevent(c)
  BY <1>2, CompleteStep
<1>3. CASE UNCHANGED keVars
  <2>1. UNCHANGED <<pc, token, result, waitList, waitCount, comp, leaked, clientList, inbox, misled>>
    BY <1>3 DEF keVars, waits, sender
  <2>2. KeTypeOK' /\ OneWait'
    BY <2>1 DEF IInv, KeTypeOK, OneWait
  <2> QED
    BY <2>1, <2>2, SameWaits
<1> QED
  BY <1>1, <1>2, <1>3, OtherSteps DEF KeNext

(* The invariant holds in every state.                                     *)
LEMMA SpecIInv == KeSpec => []IInv
<1> QED
  BY InitIInv, StepIInv, PTL DEF KeSpec

-----------------------------------------------------------------------------
(* The theorems.                                                           *)

(* CompleteKevent never walks into a wait that its sender freed.           *)
THEOREM ListedAlive == KeSpec => []ListedWaitsAlive
<1>1. IInv => ListedWaitsAlive
  BY DEF IInv
<1> QED
  BY <1>1, SpecIInv, PTL

(* A sender woken by answers to its own event has all of them, whatever    *)
(* clients came or went while it waited.                                   *)
THEOREM WokenAnswered == KeSpec => []WokenWhenAnswered
<1>1. IInv => WokenWhenAnswered
  <2> SUFFICES ASSUME IInv, NEW s \in Senders \ misled, pc[s] = "remove", result[s] # "timeout",
                      NEW c \in Clients, NEW i \in DOMAIN inbox[c],
                      inbox[c][i] = [token |-> token[s], old |-> FALSE]
               PROVE  FALSE
    BY DEF WokenWhenAnswered
  <2>1. Owing(inbox, token[s]) = {}
    BY DEF IInv, Counted
  <2>2. i \in 1 .. Len(inbox[c])
    BY DEF IInv, KeTypeOK
  <2> QED
    BY <2>1, <2>2 DEF Owing, New
<1> QED
  BY <1>1, SpecIInv, PTL

(* What one notifier's return makes of the chain.                          *)
LEMMA CalledChain ==
  ASSUME NEW ok \in BOOLEAN, Called(ok), chain.phase \in {"prepare", "undo", "post"}
  PROVE  /\ chain'.phase \in {"awake", "asleep", "prepare", "undo", "post"}
         /\ chain'.phase \in {"awake", "asleep"} <=> chain'.todo = <<>>
         /\ chain'.phase = "awake" => chain.phase = "post"
BY DEF Called, Chain

\* Where the device manager is not found the drivers are suspended by its own notifier
\* only, which runs first and resumes them, or which the failing one keeps from running.
Unfound ==
  ~devmgrClnt =>
    /\ chain.phase = "post" /\ chain.todo # <<>> /\ Head(chain.todo) = "pm" => power # "SUSPEND"
    /\ ~DevmgrFirst /\ (pmReg \/ module \in {"none", "bound"}) =>
         /\ power # "SUSPEND" /\ chain.called = <<>>
         /\ chain.todo # <<>> => Head(chain.todo) = "pm"

(* No step of a notifier or of the driver's life lets that go.             *)
LEMMA UnfoundStep == PmTurn /\ Unfound /\ [KeNext]_keVars => Unfound'
<1> SUFFICES ASSUME PmTurn, Unfound, [KeNext]_keVars PROVE Unfound'
  OBVIOUS
<1>0. "pm" \in Senders /\ "pm" \notin Callers
  BY KeventAssumption DEF Senders
<1>1. ASSUME UNCHANGED <<chain, power, devmgrClnt>>,
             UNCHANGED <<pmReg, module>> \/ module \in {"none", "bound"} \/ (~pmReg' /\ module' = "released")
      PROVE  Unfound'
  BY <1>1 DEF Unfound
<1>2. CASE PmBegin
  <2>1. /\ Order # <<>> /\ chain'.todo = Order /\ chain'.called = <<>> /\ power' = power
        /\ UNCHANGED <<pmReg, module, devmgrClnt>>
    BY <1>2 DEF PmBegin, Chain, life
  <2>2. Head(Order) = "pm" => pmReg /\ ~DevmgrFirst
    BY <2>1 DEF Order
  <2>3. ~DevmgrFirst /\ (pmReg \/ module \in {"none", "bound"}) => Head(Order) = "pm"
    BY <2>1 DEF Order
  <2> QED
    BY <2>1, <2>2, <2>3 DEF Unfound
<1>3. CASE DevmgrPmNotifier
  <2>1. /\ chain.todo # <<>> /\ Head(chain.todo) = "devmgr" /\ UNCHANGED <<pmReg, module, devmgrClnt>>
        /\ chain.phase \in {"prepare", "undo", "post"} /\ (chain.phase = "post" => power' = "RESUME")
        /\ \E ok \in BOOLEAN : Called(ok)
    BY <1>3 DEF DevmgrPmNotifier, DevmgrPmSuspend, DevmgrPmResume, life
  <2>2. chain'.phase = "post" => chain.phase = "post"
    BY <2>1 DEF Called, Chain
  <2> QED
    BY <2>1, <2>2 DEF Unfound
<1>4. ASSUME NEW s \in Senders, KernalSpacePmNotify(s) PROVE Unfound'
  <2>1. UNCHANGED <<pmReg, module, devmgrClnt>> /\ pc[s] = "sent"
    BY <1>4 DEF KernalSpacePmNotify, life
  <2>2. CASE devmgrClnt
    BY <2>1, <2>2 DEF Unfound
  <2>3. CASE ~devmgrClnt /\ s = "pm"
    <3>1. Called(FALSE) /\ power' = power
      BY <1>0, <1>4, <2>3 DEF KernalSpacePmNotify
    <3>2. chain'.phase # "post" \/ chain'.todo = <<>>
      BY <3>1 DEF Called, Chain
    <3>3. chain.called = <<>> => chain'.todo = <<>> /\ chain'.called = <<>>
      BY <3>1 DEF Called, Chain
    <3> QED
      BY <2>1, <3>1, <3>2, <3>3 DEF Unfound
  <2>4. CASE ~devmgrClnt /\ s # "pm"
    <3>1. UNCHANGED <<chain, power>>
      BY <1>4, <2>4 DEF KernalSpacePmNotify
    <3> QED
      BY <1>1, <2>1, <3>1
  <2> QED
    BY <2>2, <2>3, <2>4
<1>5. ASSUME NEW s \in Senders,
             Enter(s) \/ PrepareEvent(s) \/ Send(s) \/ Woken(s) \/ Timeout(s) \/ Unlist(s)
      PROVE  Unfound'
  <2>1. UNCHANGED <<chain, power, life>>
    BY <1>5 DEF Enter, PrepareEvent, Send, SendCounting, Woken, Timeout, Unlist, FreeWait
  <2> QED
    BY <1>1, <2>1 DEF life
<1>6. CASE \E c \in Clients : HdfKeventDriverOpen(c) \/ HdfKeventDriverClose(c) \/ CompleteKevent(c)
  <2>1. UNCHANGED <<chain, power, life>>
    BY <1>6 DEF HdfKeventDriverOpen, HdfKeventDriverClose, CompleteKevent
  <2> QED
    BY <1>1, <2>1 DEF life
<1>7. CASE HdfKeventDriverBind \/ HdfKeventDriverInit \/ HdfKeventDriverRelease \/ UNCHANGED keVars
  <2>1. /\ UNCHANGED <<chain, power, devmgrClnt>>
        /\ UNCHANGED <<pmReg, module>> \/ module \in {"none", "bound"} \/ (~pmReg' /\ module' = "released")
    BY <1>7 DEF HdfKeventDriverBind, HdfKeventDriverInit, HdfKeventDriverRelease, keVars, life
  <2> QED
    BY <1>1, <2>1
<1> QED
  BY <1>2, <1>3, <1>4, <1>5, <1>6, <1>7 DEF KeNext, SenderStep

(* The kernel is awake only with the drivers resumed, whichever notifier   *)
(* failed and whether or not the one of kevent is still registered.        *)
THEOREM DriversResumed == KeSpec => []AwakeNotSuspended
<1> DEFINE J == PmTurn /\ AwakeNotSuspended /\ Unfound
<1>1. KeInit => J
  <2> SUFFICES ASSUME KeInit PROVE J
    OBVIOUS
  <2>1. chain.phase = "awake" /\ chain.todo = <<>> /\ chain.called = <<>> /\ power = "RESUME"
    BY DEF KeInit, Chain
  <2>2. pc = [s \in Senders |-> "idle"] /\ "pm" \in Senders
    BY DEF KeInit, Senders
  <2>3. pc \in [Senders -> Pcs] /\ pc["pm"] = "idle"
    BY <2>2 DEF Pcs
  <2> QED
    BY <2>1, <2>3 DEF PmTurn, AwakeNotSuspended, Unfound
<1>2. J /\ [KeNext]_keVars => J'
  <2> SUFFICES ASSUME J, [KeNext]_keVars PROVE J'
    OBVIOUS
  <2>0. "pm" \in Senders /\ "pm" \notin Callers
    BY KeventAssumption DEF Senders
  <2>9. Unfound'
    BY UnfoundStep
  <2>1. CASE /\ UNCHANGED <<chain, power>> /\ pc' \in [Senders -> Pcs]
             /\ pc'["pm"] # "idle" => pc["pm"] # "idle" \/ (chain.todo # <<>> /\ Head(chain.todo) = "pm")
    BY <2>1, <2>9 DEF PmTurn, AwakeNotSuspended
  <2>2. CASE PmBegin
    <3>1. Order # <<>>
      BY <2>2 DEF PmBegin
    <3>2. /\ chain'.todo = Order /\ chain'.phase \in {"prepare", "post"}
          /\ pc' = pc /\ power' = power /\ chain.phase \in {"awake", "asleep"}
      BY <2>2 DEF PmBegin, Chain, sender
    <3>3. pc["pm"] = "idle"
      BY <3>2 DEF PmTurn
    <3> QED
      BY <2>9, <3>1, <3>2, <3>3 DEF PmTurn, AwakeNotSuspended
  <2>3. CASE DevmgrPmNotifier
    <3>1. /\ \E ok \in BOOLEAN : Called(ok)
          /\ chain.phase \in {"prepare", "undo", "post"} /\ (chain.phase = "post" => power' = "RESUME")
          /\ pc' = pc /\ chain.todo # <<>> /\ Head(chain.todo) = "devmgr"
      BY <2>3 DEF DevmgrPmNotifier, DevmgrPmSuspend, DevmgrPmResume, sender
    <3>2. pc["pm"] = "idle"
      BY <3>1 DEF PmTurn
    <3> QED
      BY <2>9, <3>1, <3>2, CalledChain DEF PmTurn, AwakeNotSuspended
  <2>4. ASSUME NEW s \in Senders, KernalSpacePmNotify(s) PROVE J'
    <3>1. pc'[s] = "idle" /\ pc' \in [Senders -> Pcs] /\ pc[s] = "sent"
          /\ \A r \in Senders \ {s} : pc'[r] = pc[r]
      BY <2>4 DEF KernalSpacePmNotify, PmTurn, Pcs
    <3>2. CASE s = "pm"
      <4>1. /\ \E ok \in BOOLEAN : Called(ok)
            /\ chain.phase \in {"prepare", "undo", "post"}
            /\ chain.phase = "post" => power' # "SUSPEND"
        BY <2>0, <2>4, <3>1, <3>2 DEF KernalSpacePmNotify, PmTurn, Unfound
      <4> QED
        BY <2>9, <3>1, <3>2, <4>1, CalledChain DEF PmTurn, AwakeNotSuspended
    <3>3. CASE s # "pm"
      <4>1. chain' = chain /\ (power' = power \/ power' \in {"DOZE_SUSPEND", "DOZE_RESUME"})
        BY <2>4, <3>3 DEF KernalSpacePmNotify
      <4> QED
        BY <2>0, <2>9, <3>1, <3>3, <4>1 DEF PmTurn, AwakeNotSuspended
    <3> QED
      BY <3>2, <3>3
  <2>5. ASSUME NEW s \in Senders, Enter(s) PROVE J'
    BY <2>0, <2>1, <2>5 DEF Enter, PmTurn, Pcs
  <2>6. ASSUME NEW s \in Senders, PrepareEvent(s) \/ Send(s) \/ Woken(s) \/ Timeout(s) \/ Unlist(s)
        PROVE  J'
    <3>1. /\ UNCHANGED <<chain, power>> /\ pc[s] # "idle"
          /\ \E p \in Pcs : pc' = [pc EXCEPT ![s] = p]
      BY <2>6 DEF PrepareEvent, Send, SendCounting, Woken, Timeout, Unlist, FreeWait, Pcs
    <3> QED
      BY <2>0, <2>1, <3>1 DEF PmTurn
  <2>7. CASE \E c \in Clients : HdfKeventDriverOpen(c) \/ HdfKeventDriverClose(c) \/ CompleteKevent(c)
    <3>1. UNCHANGED <<chain, power, pc>>
      BY <2>7 DEF HdfKeventDriverOpen, HdfKeventDriverClose, CompleteKevent, sender
    <3> QED
      BY <2>1, <3>1 DEF PmTurn
  <2>8. CASE HdfKeventDriverBind \/ HdfKeventDriverInit \/ HdfKeventDriverRelease \/ UNCHANGED keVars
    <3>1. UNCHANGED <<chain, power, pc>>
      BY <2>8 DEF HdfKeventDriverBind, HdfKeventDriverInit, HdfKeventDriverRelease, sender, keVars
    <3> QED
      BY <2>1, <3>1 DEF PmTurn
  <2> QED
    BY <2>2, <2>3, <2>4, <2>5, <2>6, <2>7, <2>8 DEF KeNext, SenderStep
<1> HIDE DEF J
<1>3. KeSpec => []J
  BY <1>1, <1>2, PTL DEF KeSpec
<1>4. J => AwakeNotSuspended
  BY DEF J
<1> QED
  BY <1>3, <1>4, PTL

-----------------------------------------------------------------------------
(* The USB notifier.                                                       *)

-----------------------------------------------------------------------------
(* The gadget.                                                             *)

Actions == {"none", "ADD", "REMOVE"}

\* While no calls overlap, the one that has still to store its action has the last
\* one given, and else g_preAcion has it.
GadgetIInv ==
  /\ gadget \in [type : Actions, pre : Actions, told : Actions]
  /\ calls \in [GadgetCalls -> Actions] /\ given \in Actions /\ overlapped \in BOOLEAN
  /\ ~overlapped =>
       /\ \A k, o \in GadgetCalls : calls[k] # "none" /\ calls[o] # "none" => k = o
       /\ \A k \in GadgetCalls : calls[k] # "none" => calls[k] = given
       /\ (\A k \in GadgetCalls : calls[k] = "none") => gadget.pre = given
       /\ gadget.type # "none" => gadget.type = given
       /\ GadgetToldLast

(* A notifier call of the gadget keeps what is known of the slot.          *)
LEMMA GadgetCallKeeps ==
  ASSUME GadgetIInv, NEW k \in GadgetCalls, NEW action \in {"ADD", "REMOVE"},
         GadgetCallback(k, action)
  PROVE  GadgetIInv'
<1>1. /\ calls[k] = "none" /\ given' = action
      /\ \/ gadget.pre = action /\ UNCHANGED <<gadget, calls>>
         \/ /\ gadget.pre # action /\ gadget' = [gadget EXCEPT !.type = action]
            /\ calls' = [calls EXCEPT ![k] = action]
  BY DEF GadgetCallback
<1>2. /\ overlapped' \in BOOLEAN
      /\ ~overlapped' => ~overlapped /\ \A o \in GadgetCalls : calls[o] = "none"
  BY Zenon DEF GadgetCallback, GadgetIInv
<1>3. /\ gadget' \in [type : Actions, pre : Actions, told : Actions]
      /\ calls' \in [GadgetCalls -> Actions] /\ given' \in Actions
  BY <1>1 DEF GadgetIInv, Actions
<1>4. ASSUME ~overlapped'
      PROVE  /\ \A l, o \in GadgetCalls : calls'[l] # "none" /\ calls'[o] # "none" => l = o
             /\ \A l \in GadgetCalls : calls'[l] # "none" => calls'[l] = given'
             /\ (\A l \in GadgetCalls : calls'[l] = "none") => gadget'.pre = given'
             /\ gadget'.type # "none" => gadget'.type = given'
             /\ GadgetToldLast'
  <2>1. ~overlapped /\ (\A o \in GadgetCalls : calls[o] = "none") /\ gadget.pre = given
    BY <1>2, <1>4 DEF GadgetIInv
  <2>2. CASE gadget.pre = action /\ UNCHANGED <<gadget, calls>>
    BY <1>1, <1>4, <2>1, <2>2 DEF GadgetIInv, GadgetToldLast
  <2>3. CASE /\ gadget.pre # action /\ gadget' = [gadget EXCEPT !.type = action]
             /\ calls' = [calls EXCEPT ![k] = action]
    <3>1. calls'[k] = action /\ \A l \in GadgetCalls : l # k => calls'[l] = "none"
      BY <2>1, <2>3 DEF GadgetIInv
    <3>2. gadget'.type = action /\ action # "none"
      BY <2>3 DEF GadgetIInv
    <3> QED
      BY <1>1, <3>1, <3>2 DEF GadgetToldLast
  <2> QED
    BY <1>1, <2>2, <2>3
<1> QED
  BY <1>2, <1>3, <1>4 DEF GadgetIInv

(* So does the store of g_preAcion after it.                               *)
LEMMA GadgetRememberKeeps ==
  ASSUME GadgetIInv, NEW k \in GadgetCalls, GadgetRemember(k)
  PROVE  GadgetIInv'
<1>1. /\ calls[k] # "none" /\ gadget' = [gadget EXCEPT !.pre = calls[k]]
      /\ calls' = [calls EXCEPT ![k] = "none"] /\ UNCHANGED <<given, overlapped>>
  BY DEF GadgetRemember
<1>2. /\ gadget' \in [type : Actions, pre : Actions, told : Actions]
      /\ calls' \in [GadgetCalls -> Actions]
      /\ gadget'.pre = calls[k] /\ gadget'.type = gadget.type /\ gadget'.told = gadget.told
      /\ \A l \in GadgetCalls : calls'[l] = IF l = k THEN "none" ELSE calls[l]
  BY <1>1 DEF GadgetIInv, Actions
<1> QED
  BY <1>1, <1>2 DEF GadgetIInv, GadgetToldLast

(* With the slot empty, the last event that reached user space is the last *)
(* one the kernel gave, however often the slot was overwritten, as long as *)
(* no two calls of the notifier overlap.                                   *)
THEOREM GadgetLastTold == PnpSpec => []GadgetToldLast
<1>1. ASSUME PnpInit PROVE GadgetIInv
  <2>1. gadget.type = "none" /\ gadget.pre = "none" /\ gadget.told = "none"
    BY <1>1 DEF PnpInit
  <2>2. gadget \in [type : Actions, pre : Actions, told : Actions]
    BY <1>1 DEF PnpInit, Actions
  <2>3. /\ calls \in [GadgetCalls -> Actions] /\ given = "none" /\ overlapped \in BOOLEAN
        /\ \A k \in GadgetCalls : calls[k] = "none"
    BY <1>1 DEF PnpInit, Actions
  <2> QED
    BY <2>1, <2>2, <2>3 DEF GadgetIInv, GadgetToldLast, Actions
<1>2. ASSUME GadgetIInv, [PnpNext]_pnpVars PROVE GadgetIInv'
  <2>1. CASE UNCHANGED gadgetVars
    BY <1>2, <2>1 DEF GadgetIInv, GadgetToldLast, gadgetVars
  <2>2. ASSUME NEW k \in GadgetCalls, NEW action \in {"ADD", "REMOVE"}, GadgetCallback(k, action)
        PROVE  GadgetIInv'
    BY <1>2, <2>2, GadgetCallKeeps
  <2>3. ASSUME NEW k \in GadgetCalls, GadgetRemember(k) PROVE GadgetIInv'
    BY <1>2, <2>3, GadgetRememberKeeps
  <2>4. CASE GadgetReportThread
    <3>1. PICK told \in {"none", gadget.type} :
            gadget' = [gadget EXCEPT !.type = "none", !.told = told]
      BY <2>4 DEF GadgetReportThread
    <3>2. /\ gadget' \in [type : Actions, pre : Actions, told : Actions]
          /\ gadget'.type = "none" /\ gadget'.told = told /\ gadget'.pre = gadget.pre
      BY <1>2, <3>1 DEF GadgetIInv, Actions
    <3> QED
      BY <1>2, <2>4, <3>1, <3>2 DEF GadgetReportThread, GadgetIInv, GadgetToldLast
  <2>5. UsbStep => UNCHANGED gadgetVars
    BY DEF UsbStep, CallbackAdd, CallbackRemove, RemoveStatus, Announce, DispatchInterface,
           DispatchCommand, ReportThread, DispatchReport
  <2> QED
    BY <1>2, <2>1, <2>2, <2>3, <2>4, <2>5 DEF PnpNext, GadgetStep, pnpVars
<1>3. GadgetIInv => GadgetToldLast
  BY DEF GadgetIInv, GadgetToldLast
<1> QED
  BY <1>1, <1>2, <1>3, PTL DEF PnpSpec

-----------------------------------------------------------------------------
(* The devices.                                                            *)

Infos == [id : Ids, dev : Devs \cup {Null}, status : {"INIT", "ADD", "REMOVE", "INTERFACE"}]
Calls == [at : {"idle", "add", "found", "remove"}, id : Ids \cup {Null}]

PnpTypeOK ==
  /\ plugged \subseteq Devs /\ view \subseteq Devs /\ lost \subseteq Devs
  /\ infos \in Seq(Infos) /\ cb \in [Devs -> Calls]
  /\ usbDevice \in {Null, "own"} \cup Devs /\ named \in Devs \cup {Null}
  /\ cmd \in {"INTERFACE", "ADD_DEVICE", "REMOVE_DEVICE", "REPORT_INTERFACE", "OTHER"}

\* The infos of d: none, or one, with an id that nothing else uses.
InfoIs(d, st, id) ==
  IF st = "none" THEN \A i \in 1..Len(infos) : infos[i].dev # d
  ELSE /\ \E i \in 1..Len(infos) :
            /\ infos[i].dev = d /\ infos[i].id = id /\ infos[i].status = st
            /\ \A j \in 1..Len(infos) : infos[j].dev = d \/ infos[j].id = id => j = i
       /\ \A e \in Devs \ {d} : cb[e].at = "found" => cb[e].id # id

\* Where d is between the kernel and user space: of a device that is there, and
\* of one that is not.
Coming(d, st) ==
  \/ cb[d].at = "idle" /\ usbDevice # d /\ st = "ADD" /\ d \in view
  \/ /\ st = "INIT" /\ d \notin view
     /\ \/ cb[d].at = "idle" /\ usbDevice = d /\ cmd = "ADD_DEVICE"
        \/ cb[d].at = "add" /\ usbDevice # d

Going(d, st) ==
  \/ cb[d].at = "idle" /\ usbDevice # d /\ st = "none" /\ d \notin view
  \/ /\ cb[d].at = "idle" /\ usbDevice = d /\ cmd = "REMOVE_DEVICE"
     /\ (st = "INIT" /\ d \in view) \/ (st = "none" /\ d \notin view)
  \/ /\ cb[d].at = "found"
     /\ \/ usbDevice = d /\ cmd = "ADD_DEVICE" /\ st = "INIT" /\ d \notin view
        \/ usbDevice # d /\ st = "ADD" /\ d \in view
  \/ /\ cb[d].at = "remove"
     /\ \/ usbDevice = d /\ cmd = "ADD_DEVICE" /\ st = "REMOVE" /\ d \notin view
        \/ usbDevice # d /\ st = "INIT" /\ d \in view
        \/ usbDevice # d /\ st = "none" /\ d \notin view

Stage(d) ==
  \E st \in {"none", "INIT", "ADD", "REMOVE"}, id \in Ids \cup {Null} :
    /\ InfoIs(d, st, id) /\ (cb[d].at = "found" => cb[d].id = id)
    /\ IF d \in plugged THEN Coming(d, st) ELSE Going(d, st)

PnpIInv == PnpTypeOK /\ named \in lost \cup {Null} /\ \A d \in Devs \ lost : Stage(d)

(* A set of places has a first one.                                        *)
LEMMA FirstPlace ==
  ASSUME NEW S \in SUBSET Nat, S # {}
  PROVE  Min(S) \in S
<1> DEFINE R == {ss \in Nat \X Nat : ss[1] < ss[2]}
<1>1. IsWellFoundedOn(R, Nat)
  BY NatLessThanWellFounded, Zenon DEF OpToRel
<1>2. \A m, k \in S : m < k => <<m, k>> \in R
  OBVIOUS
<1> HIDE DEF R
<1>3. PICK k \in S : \A m \in S : ~ (<<m, k>> \in R)
  BY <1>1, WFMin
<1>4. \A m \in S : ~(m < k) /\ m \in Nat /\ k \in Nat
  BY <1>2, <1>3
<1>5. \E x \in S : \A y \in S : x <= y
  BY <1>4
<1> QED
  BY <1>5 DEF Min

(* UsbPnpNotifyFindInfo finds an info of the device if there is one.       *)
LEMMA FindHolds ==
  ASSUME NEW d
  PROVE  \/ Find(d) = 0 /\ \A i \in 1..Len(infos) : infos[i].dev # d
         \/ Find(d) \in 1..Len(infos) /\ infos[Find(d)].dev = d
<1> DEFINE I == {i \in 1..Len(infos) : infos[i].dev = d}
<1>1. Find(d) = IF I # {} THEN Min(I) ELSE 0
  BY DEF Find, SelectInSeq
<1>2. I \in SUBSET Nat
  OBVIOUS
<1>3. CASE I = {}
  BY <1>1, <1>3
<1>4. CASE I # {}
  <2>1. Min(I) \in I
    <3> HIDE DEF I
    <3> QED
      BY <1>2, <1>4, FirstPlace
  <2> QED
    BY <1>1, <1>4, <2>1
<1> QED
  BY <1>3, <1>4

\* Of the other devices' calls none comes to hold an info of d.
CallsApart(d) ==
  \A e \in Devs \ {d} : cb'[e].at = "found" =>
    \/ cb'[e] = cb[e]
    \/ \E j \in 1..Len(infos) : cb'[e].id = infos[j].id /\ infos[j].dev # d

(* Infos of other devices are added.                                       *)
LEMMA InfosAppended ==
  ASSUME PnpTypeOK, NEW d \in Devs, NEW st, NEW id, InfoIs(d, st, id), CallsApart(d),
         NEW s \in Seq(Infos), infos' = infos \o s,
         \A k \in 1..Len(s) : s[k].dev # d /\ s[k].id \notin InUse
  PROVE  InfoIs(d, st, id)'
<1>1. PICK n \in Nat : n = Len(infos)
  BY DEF PnpTypeOK
<1>2. /\ Len(infos') = n + Len(s) /\ Len(s) \in Nat
      /\ \A i \in 1..n : infos'[i] = infos[i]
      /\ \A i \in 1..(n + Len(s)) : i \notin 1..n => i - n \in 1..Len(s) /\ infos'[i] = s[i - n]
  BY <1>1, ConcatProperties DEF PnpTypeOK
<1>3. \A i \in 1..(n + Len(s)) : i \notin 1..n => infos'[i].dev # d /\ infos'[i].id \notin InUse
  BY <1>2
<1>4. CASE st = "none"
  BY <1>1, <1>2, <1>3, <1>4 DEF InfoIs
<1>5. CASE st # "none"
  <2>1. PICK i \in 1..n :
          /\ infos[i].dev = d /\ infos[i].id = id /\ infos[i].status = st
          /\ \A j \in 1..n : infos[j].dev = d \/ infos[j].id = id => j = i
    BY <1>1, <1>5 DEF InfoIs
  <2>2. id \in InUse
    BY <1>1, <2>1 DEF InUse, PnpTypeOK
  <2>3. i \in 1..(n + Len(s)) /\ \A j \in 1..(n + Len(s)) : infos'[j].dev = d \/ infos'[j].id = id => j = i
    BY <1>2, <1>3, <2>1, <2>2
  <2>4. \A e \in Devs \ {d} : cb'[e].at = "found" => cb'[e].id # id
    BY <1>1, <1>5, <2>1 DEF InfoIs, CallsApart
  <2> QED
    BY <1>2, <1>5, <2>1, <2>3, <2>4 DEF InfoIs
<1> QED
  BY <1>4, <1>5

(* What is left when one place is taken out of the list.                   *)
LEMMA InfosWithout ==
  ASSUME PnpTypeOK, NEW p \in 1..Len(infos), infos' = DestroyInfo(p)
  PROVE  /\ infos' \in Seq(Infos) /\ Len(infos') = Len(infos) - 1
         /\ \A i \in 1..(Len(infos) - 1) : infos'[i] = IF i < p THEN infos[i] ELSE infos[i + 1]
<1> DEFINE n == Len(infos)
           a == SubSeq(infos, 1, p - 1)
           b == SubSeq(infos, p + 1, n)
<1>1. n \in Nat /\ p \in 1..n /\ \A i \in 1..n : infos[i] \in Infos
  BY DEF PnpTypeOK
<1>2. a \in Seq(Infos) /\ Len(a) = p - 1 /\ \A i \in 1..(p - 1) : a[i] = infos[i]
  BY <1>1, SubSeqProperties
<1>3. b \in Seq(Infos) /\ Len(b) = n - p /\ \A i \in 1..(n - p) : b[i] = infos[p + i]
  BY <1>1, SubSeqProperties
<1>4. infos' = a \o b
  BY DEF DestroyInfo, RemoveAt
<1> HIDE DEF a, b
<1>5. /\ infos' \in Seq(Infos) /\ Len(infos') = n - 1
      /\ \A i \in 1..(n - 1) : infos'[i] = IF i <= p - 1 THEN a[i] ELSE b[i - (p - 1)]
  <2>1. /\ a \o b \in Seq(Infos) /\ Len(a \o b) = n - 1
        /\ \A i \in 1..(n - 1) : (a \o b)[i] = IF i <= p - 1 THEN a[i] ELSE b[i - (p - 1)]
    <3>1. /\ a \o b \in Seq(Infos) /\ Len(a \o b) = Len(a) + Len(b)
          /\ \A i \in 1..(Len(a) + Len(b)) :
               (a \o b)[i] = IF i <= Len(a) THEN a[i] ELSE b[i - Len(a)]
      BY <1>2, <1>3, ConcatProperties
    <3>2. Len(a) + Len(b) = n - 1
      BY <1>1, <1>2, <1>3
    <3> QED
      BY <1>2, <3>1, <3>2
  <2> QED
    BY <1>4, <2>1
<1>6. ASSUME NEW i \in 1..(n - 1)
      PROVE  infos'[i] = IF i < p THEN infos[i] ELSE infos[i + 1]
  <2>1. CASE i < p
    BY <1>1, <1>2, <1>5, <2>1
  <2>2. CASE ~(i < p)
    <3>1. PICK k \in 1..(n - p) : k = i - (p - 1)
      BY <1>1, <2>2
    <3>2. infos'[i] = infos[p + k] /\ p + k = i + 1
      BY <1>1, <1>3, <1>5, <2>2, <3>1
    <3> QED
      BY <2>2, <3>2
  <2> QED
    BY <2>1, <2>2
<1> QED
  BY <1>5, <1>6

(* An info of another device is destroyed.                                 *)
LEMMA InfosRemoved ==
  ASSUME PnpTypeOK, NEW d \in Devs, NEW st, NEW id, InfoIs(d, st, id), UNCHANGED cb,
         NEW p \in 1..Len(infos), infos[p].dev # d, infos' = DestroyInfo(p)
  PROVE  InfoIs(d, st, id)'
<1>1. PICK n \in Nat : n = Len(infos)
  BY DEF PnpTypeOK
<1> DEFINE old(i) == IF i < p THEN i ELSE i + 1
           new(i) == IF i < p THEN i ELSE i - 1
<1>2. /\ Len(infos') = n - 1
      /\ \A i \in 1..(n - 1) : old(i) \in 1..n /\ infos'[i] = infos[old(i)] /\ new(old(i)) = i
      /\ \A i \in (1..n) \ {p} : new(i) \in 1..(n - 1) /\ old(new(i)) = i
  BY <1>1, InfosWithout
<1> HIDE DEF old, new
<1>3. CASE st = "none"
  BY <1>1, <1>2, <1>3 DEF InfoIs
<1>4. CASE st # "none"
  <2>1. PICK i \in 1..n :
          /\ infos[i].dev = d /\ infos[i].id = id /\ infos[i].status = st
          /\ \A j \in 1..n : infos[j].dev = d \/ infos[j].id = id => j = i
    BY <1>1, <1>4 DEF InfoIs
  <2>2. i # p
    BY <2>1
  <2>3. new(i) \in 1..(n - 1) /\ infos'[new(i)] = infos[i]
    BY <1>2, <2>2
  <2>4. ASSUME NEW j \in 1..(n - 1), infos'[j].dev = d \/ infos'[j].id = id PROVE j = new(i)
    BY <1>2, <2>1, <2>4
  <2> QED
    BY <1>2, <1>4, <2>1, <2>3, <2>4 DEF InfoIs
<1> QED
  BY <1>3, <1>4

(* Infos are changed in place, and not that of d.                          *)
LEMMA InfosChanged ==
  ASSUME PnpTypeOK, NEW d \in Devs, NEW st, NEW id, InfoIs(d, st, id), CallsApart(d),
         Len(infos') = Len(infos),
         \A i \in 1..Len(infos) : /\ infos'[i].dev = infos[i].dev /\ infos'[i].id = infos[i].id
                                  /\ infos[i].dev = d => infos'[i].status = infos[i].status
  PROVE  InfoIs(d, st, id)'
<1>1. CASE st = "none"
  BY <1>1 DEF InfoIs
<1>2. CASE st # "none"
  <2>1. PICK i \in 1..Len(infos) :
          /\ infos[i].dev = d /\ infos[i].id = id /\ infos[i].status = st
          /\ \A j \in 1..Len(infos) : infos[j].dev = d \/ infos[j].id = id => j = i
    BY <1>2 DEF InfoIs
  <2>2. \A e \in Devs \ {d} : cb'[e].at = "found" => cb'[e].id # id
    BY <1>2, <2>1 DEF InfoIs, CallsApart
  <2> QED
    BY <1>2, <2>1, <2>2 DEF InfoIs
<1> QED
  BY <1>1, <1>2

(* Nothing is plugged in before the first notifier call.                   *)
LEMMA InitPnpIInv == PnpInit => PnpIInv
<1>1. SUFFICES ASSUME PnpInit PROVE PnpIInv
  OBVIOUS
<1>2. infos = <<>> /\ infos \in Seq(Infos) /\ Len(infos) = 0
  BY <1>1 DEF PnpInit
<1>3. PnpTypeOK
  BY <1>1, <1>2 DEF PnpInit, PnpTypeOK, Calls
<1>4. \A d \in Devs : InfoIs(d, "none", Null)
  BY <1>2 DEF InfoIs
<1>5. \A d \in Devs : Going(d, "none") /\ cb[d].at # "found" /\ d \notin plugged
  BY <1>1, PnpAssumption DEF PnpInit, Going
<1> QED
  BY <1>1, <1>3, <1>4, <1>5 DEF PnpInit, PnpIInv, Stage

(* A step that leaves the place of a device alone, and its infos.          *)
LEMMA StageKept ==
  ASSUME NEW d \in Devs, Stage(d), cb'[d] = cb[d], (d \in plugged') <=> (d \in plugged),
         (d \in view') <=> (d \in view),
         \/ UNCHANGED <<usbDevice, cmd>>
         \/ usbDevice # d /\ usbDevice' # d,
         \A st, id : InfoIs(d, st, id) => InfoIs(d, st, id)'
  PROVE  Stage(d)'
<1>1. PICK st \in {"none", "INIT", "ADD", "REMOVE"}, id \in Ids \cup {Null} :
        /\ InfoIs(d, st, id) /\ (cb[d].at = "found" => cb[d].id = id)
        /\ IF d \in plugged THEN Coming(d, st) ELSE Going(d, st)
  BY DEF Stage
<1>2. InfoIs(d, st, id)' /\ (cb'[d].at = "found" => cb'[d].id = id)
  BY <1>1
<1>3. Coming(d, st) => Coming(d, st)'
  BY DEF Coming
<1>4. Going(d, st) => Going(d, st)'
  BY DEF Going
<1> QED
  BY <1>1, <1>2, <1>3, <1>4 DEF Stage

(* The ids a report gives to its infos are new.                            *)
LEMMA ReportedInfos ==
  ASSUME PnpTypeOK, NEW ds \in SUBSET Devs, Reported(ds)
  PROVE  \E s \in Seq(Infos) :
           /\ infos' = infos \o s
           /\ \A k \in 1..Len(s) : s[k].dev \in ds /\ s[k].id \notin InUse
<1> DEFINE free == Ids \ InUse
<1>1. IsFiniteSet(free) /\ Cardinality(free) \in Nat /\ IsFiniteSet(ds) /\ Cardinality(ds) \in Nat
  BY PnpAssumption, FS_Subset, FS_CardinalityType
<1>2. PICK seq \in SetToSeqs(ds) :
        /\ Len(seq) <= Len(SetToSeq(free))
        /\ infos' = infos \o [i \in DOMAIN seq |-> [id |-> SetToSeq(free)[i], dev |-> seq[i], status |-> "ADD"]]
  BY DEF Reported
<1>3. SetToSeq(free) \in [1..Cardinality(free) -> free]
  <2>1. PICK f \in Bijection(1..Cardinality(free), free) : TRUE
    BY <1>1, FS_CardinalityType DEF ExistsBijection
  <2>2. f \in [1..Cardinality(free) -> free] /\ IsInjective(f)
    BY <2>1 DEF Bijection, Injection, IsInjective
  <2>3. \E g \in [1..Cardinality(free) -> free] : IsInjective(g)
    BY <2>2
  <2> HIDE DEF free
  <2> QED
    BY <2>3 DEF SetToSeq
<1>4. seq \in [1..Cardinality(ds) -> ds]
  BY <1>2 DEF SetToSeqs
<1>5. Len(seq) = Cardinality(ds) /\ Len(SetToSeq(free)) = Cardinality(free)
  BY <1>1, <1>3, <1>4
<1>6. \A i \in 1..Len(seq) : SetToSeq(free)[i] \in free /\ seq[i] \in ds
  <2>1. Cardinality(ds) <= Cardinality(free)
    BY <1>2, <1>5
  <2> HIDE DEF free
  <2>2. \A i \in 1..Cardinality(ds) : i \in 1..Cardinality(free)
    BY <1>1, <2>1
  <2>3. \A i \in 1..Cardinality(ds) : SetToSeq(free)[i] \in free /\ seq[i] \in ds
    BY <1>3, <1>4, <2>2
  <2> QED
    BY <1>5, <2>3
<1> DEFINE s == [i \in DOMAIN seq |-> [id |-> SetToSeq(free)[i], dev |-> seq[i], status |-> "ADD"]]
<1>7. DOMAIN seq = 1..Len(seq) /\ Len(seq) \in Nat
  BY <1>1, <1>4, <1>5
<1>8. \A i \in 1..Len(seq) : s[i] \in Infos /\ s[i].dev \in ds /\ s[i].id \notin InUse
  BY <1>6, <1>7 DEF Infos
<1>9. s \in Seq(Infos) /\ Len(s) = Len(seq)
  <2>1. s \in [1..Len(seq) -> Infos]
    BY <1>7, <1>8
  <2> HIDE DEF s
  <2> QED
    BY <1>7, <2>1
<1> QED
  BY <1>2, <1>8, <1>9

(* USB_DEVICE_ADD: a new info, or a device that is lost.                   *)
LEMMA AddKeeps ==
  ASSUME PnpIInv, NEW d \in Devs, CallbackAdd(d)
  PROVE  PnpIInv'
<1>1. /\ d \notin plugged /\ cb[d].at = "idle" /\ plugged' = plugged \cup {d}
      /\ UNCHANGED <<usbDevice, named, cmd, view>>
  BY DEF CallbackAdd
<1>2. PICK created \in BOOLEAN, configured \in BOOLEAN :
        /\ infos' \in IF created THEN {Created(id, d) : id \in NextId} ELSE {infos}
        /\ cb' = IF created /\ configured THEN [cb EXCEPT ![d].at = "add"] ELSE cb
        /\ lost' = IF created /\ configured /\ usbDevice # d THEN lost ELSE lost \cup {d}
  BY DEF CallbackAdd
<1>3. /\ PnpTypeOK /\ (\A e \in Devs \ lost : Stage(e)) /\ lost \subseteq lost'
      /\ named' \in lost' \cup {Null}
  BY <1>1, <1>2 DEF PnpIInv
<1>4. /\ cb' \in [Devs -> Calls] /\ cb'[d].id = cb[d].id /\ cb'[d].at # "found"
      /\ \A e \in Devs \ {d} : cb'[e] = cb[e]
  BY <1>1, <1>2, <1>3 DEF PnpTypeOK, Calls
<1>5. PICK s \in Seq(Infos) :
        /\ infos' = infos \o s
        /\ \A k \in 1..Len(s) : s[k].dev = d /\ s[k].id \notin InUse
        /\ created => Len(s) = 1 /\ s[1].status = "INIT"
  <2>1. CASE created
    <3>1. PICK id \in Ids \ InUse : infos' = Append(infos, [id |-> id, dev |-> d, status |-> "INIT"])
      BY <1>2, <2>1 DEF Created, NextId
    <3>2. PICK r \in Infos : r = [id |-> id, dev |-> d, status |-> "INIT"]
      BY DEF Infos
    <3>3. infos' = infos \o <<r>>
      BY <1>3, <3>1, <3>2, AppendIsConcat DEF PnpTypeOK
    <3>4. <<r>> \in Seq(Infos) /\ Len(<<r>>) = 1 /\ <<r>>[1] = r
      OBVIOUS
    <3>5. \A k \in 1..Len(<<r>>) : <<r>>[k] = r
      BY <3>4
    <3>6. r.id \notin InUse /\ r.dev = d /\ r.status = "INIT"
      BY <3>2
    <3> QED
      BY <3>3, <3>4, <3>5, <3>6
  <2>2. CASE ~created
    <3>1. <<>> \in Seq(Infos) /\ Len(<<>>) = 0 /\ infos' = infos \o <<>>
      BY <1>2, <1>3, <2>2, ConcatEmptySeq DEF PnpTypeOK
    <3>2. PICK z \in Seq(Infos) : Len(z) = 0 /\ infos' = infos \o z
      BY <3>1
    <3>3. \A k \in 1..Len(z) : FALSE
      BY <3>2
    <3> QED
      BY <2>2, <3>2, <3>3
  <2> QED
    BY <2>1, <2>2
<1>6. PnpTypeOK'
  <2>1. infos' \in Seq(Infos) /\ lost' \subseteq Devs
    BY <1>2, <1>3, <1>5, ConcatProperties DEF PnpTypeOK
  <2> QED
    BY <1>1, <1>3, <1>4, <2>1 DEF PnpTypeOK
<1>7. ASSUME NEW e \in Devs \ lost', e # d PROVE Stage(e)'
  <2>1. CallsApart(e)
    BY <1>4 DEF CallsApart
  <2>2. \A st, id : InfoIs(e, st, id) => InfoIs(e, st, id)'
    BY <1>3, <1>5, <1>7, <2>1, InfosAppended
  <2> QED
    BY <1>1, <1>3, <1>4, <1>7, <2>2, StageKept DEF Stage
<1>8. ASSUME d \notin lost' PROVE Stage(d)'
  <2>1. created /\ configured /\ usbDevice # d /\ d \notin lost
    BY <1>2, <1>8
  <2>2. d \notin view /\ InfoIs(d, "none", Null)
    BY <1>1, <1>3, <2>1 DEF Stage, Going, InfoIs
  <2>3. cb'[d].at = "add"
    BY <1>2, <1>3, <2>1 DEF PnpTypeOK, Calls
  <2>4. PICK n \in Nat : n = Len(infos)
    BY <1>3 DEF PnpTypeOK
  <2>5. Len(s) = 1 /\ s[1].status = "INIT"
    BY <1>5, <2>1
  <2>6. s[1] \in Infos /\ s[1].dev = d /\ s[1].id \notin InUse
    BY <1>5, <2>5
  <2>7. /\ Len(infos \o s) = n + 1
        /\ \A i \in 1..(n + 1) : (infos \o s)[i] = IF i <= n THEN infos[i] ELSE s[i - n]
    <3>1. infos \in Seq(Infos)
      BY <1>3 DEF PnpTypeOK
    <3>2. /\ Len(infos \o s) = Len(infos) + Len(s)
          /\ \A i \in 1..(Len(infos) + Len(s)) :
               (infos \o s)[i] = IF i <= Len(infos) THEN infos[i] ELSE s[i - Len(infos)]
      BY <3>1, ConcatProperties
    <3>3. Len(infos) + Len(s) = n + 1
      BY <2>4, <2>5
    <3> QED
      BY <2>4, <3>2, <3>3
  <2>8. /\ Len(infos') = n + 1 /\ infos'[n + 1] = s[1]
        /\ \A i \in 1..n : infos'[i] = infos[i]
    BY <1>5, <2>4, <2>7
  <2>9. PICK id \in Ids : id = s[1].id
    BY <2>6 DEF Infos
  <2>10. /\ infos'[n + 1].dev = d /\ infos'[n + 1].id = id /\ infos'[n + 1].status = "INIT"
         /\ id \notin InUse
    BY <2>8, <2>9, <2>5, <2>6
  <2>11. \A i \in 1..n : infos[i].dev # d /\ infos[i].id # id
    BY <2>2, <2>4, <2>10 DEF InfoIs, InUse
  <2>12. \A j \in 1..(n + 1) : j \in 1..n \/ j = n + 1
    BY <2>4
  <2>13. \A j \in 1..(n + 1) : infos'[j].dev = d \/ infos'[j].id = id => j = n + 1
    BY <2>8, <2>11, <2>12
  <2>14. \A e \in Devs \ {d} : cb'[e].id # id
    BY <1>4, <2>10 DEF InUse
  <2>15. InfoIs(d, "INIT", id)'
    BY <2>4, <2>8, <2>10, <2>13, <2>14 DEF InfoIs
  <2>16. Coming(d, "INIT")'
    BY <1>1, <2>1, <2>2, <2>3 DEF Coming
  <2> QED
    BY <1>1, <2>2, <2>3, <2>9, <2>15, <2>16 DEF Stage
<1> QED
  BY <1>3, <1>6, <1>7, <1>8 DEF PnpIInv

(* USB_DEVICE_REMOVE, first part: the info found is the device's.          *)
LEMMA RemoveKeeps ==
  ASSUME PnpIInv, NEW d \in Devs, CallbackRemove(d)
  PROVE  PnpIInv'
<1>1. /\ d \in plugged /\ cb[d].at = "idle" /\ plugged' = plugged \ {d}
      /\ cb' = IF Find(d) = 0 THEN cb
               ELSE [cb EXCEPT ![d] = [at |-> "found", id |-> infos[Find(d)].id]]
      /\ UNCHANGED <<infos, usbDevice, named, cmd, view, lost>>
  BY DEF CallbackRemove
<1>2. PnpTypeOK /\ (\A e \in Devs \ lost : Stage(e)) /\ named' \in lost' \cup {Null}
  BY <1>1 DEF PnpIInv
<1>3. Find(d) # 0 => Find(d) \in 1..Len(infos) /\ infos[Find(d)].dev = d /\ infos[Find(d)] \in Infos
  BY <1>2, FindHolds DEF PnpTypeOK
<1>4. Find(d) # 0 => [at |-> "found", id |-> infos[Find(d)].id] \in Calls
  BY <1>3 DEF Infos, Calls
<1>5. /\ PnpTypeOK'
      /\ \A e \in Devs \ {d} : cb'[e] = cb[e]
  BY <1>1, <1>2, <1>4 DEF PnpTypeOK
<1>6. ASSUME NEW e \in Devs \ lost, e # d PROVE Stage(e)'
  <2>1. CallsApart(e)
    <3>1. Find(d) # 0 => cb'[d].id = infos[Find(d)].id /\ d # e
      BY <1>1, <1>2, <1>6 DEF PnpTypeOK
    <3>2. Find(d) = 0 => cb'[d] = cb[d]
      BY <1>1
    <3> QED
      BY <1>3, <1>5, <1>6, <3>1, <3>2 DEF CallsApart
  <2>2. \A st, id : InfoIs(e, st, id) => InfoIs(e, st, id)'
    BY <1>1, <1>2, <1>6, <2>1, InfosChanged
  <2> QED
    BY <1>1, <1>2, <1>5, <1>6, <2>2, StageKept DEF Stage
<1>7. ASSUME d \notin lost PROVE Stage(d)'
  <2>1. PICK st \in {"INIT", "ADD"}, id \in Ids \cup {Null} :
          /\ InfoIs(d, st, id) /\ Coming(d, st)
    BY <1>1, <1>2, <1>7 DEF Stage, Coming
  <2>2. Find(d) # 0
    BY <2>1, FindHolds DEF InfoIs
  <2>3. cb'[d].at = "found" /\ cb'[d].id = infos[Find(d)].id
    BY <1>1, <1>2, <2>2 DEF PnpTypeOK
  <2>4. infos[Find(d)].id = id
    BY <1>3, <2>1, <2>2 DEF InfoIs
  <2>5. InfoIs(d, st, id)'
    BY <1>1, <1>5, <2>1 DEF InfoIs
  <2>6. Going(d, st)'
    BY <1>1, <2>1, <2>3 DEF Coming, Going
  <2> QED
    BY <1>1, <2>1, <2>3, <2>4, <2>5, <2>6 DEF Stage
<1> QED
  BY <1>1, <1>2, <1>5, <1>6, <1>7 DEF PnpIInv

(* Second part: only the info found is changed, if it is still there.      *)
LEMMA StatusKeeps ==
  ASSUME PnpIInv, NEW d \in Devs, RemoveStatus(d)
  PROVE  PnpIInv'
<1>1. /\ cb[d].at = "found" /\ cb' = [cb EXCEPT ![d] = [at |-> "remove", id |-> Null]]
      /\ infos' = [i \in DOMAIN infos |-> IF infos[i].id # cb[d].id THEN infos[i]
                     ELSE [infos[i] EXCEPT !.status = Toggle(@, "REMOVE")]]
      /\ UNCHANGED <<plugged, usbDevice, named, cmd, view, lost>>
  BY DEF RemoveStatus
<1>2. PnpTypeOK /\ (\A e \in Devs \ lost : Stage(e)) /\ named' \in lost' \cup {Null}
  BY <1>1 DEF PnpIInv
<1>3. \A i \in 1..Len(infos) :
        /\ infos'[i] \in Infos /\ infos'[i].dev = infos[i].dev /\ infos'[i].id = infos[i].id
        /\ infos'[i].status = IF infos[i].id # cb[d].id THEN infos[i].status
                              ELSE Toggle(infos[i].status, "REMOVE")
  <2>1. ASSUME NEW i \in 1..Len(infos)
        PROVE  /\ infos'[i] \in Infos /\ infos'[i].dev = infos[i].dev /\ infos'[i].id = infos[i].id
               /\ infos'[i].status = IF infos[i].id # cb[d].id THEN infos[i].status
                                     ELSE Toggle(infos[i].status, "REMOVE")
    <3>1. infos[i] \in Infos /\ i \in DOMAIN infos
      BY <1>2 DEF PnpTypeOK
    <3>2. PICK t \in {"INIT", "REMOVE"} : t = Toggle(infos[i].status, "REMOVE")
      BY DEF Toggle
    <3>3. infos'[i] = IF infos[i].id # cb[d].id THEN infos[i] ELSE [infos[i] EXCEPT !.status = t]
      BY <1>1, <3>1, <3>2
    <3> QED
      BY <3>1, <3>2, <3>3 DEF Infos
  <2> QED
    BY <2>1
<1>4. infos' \in Seq(Infos) /\ Len(infos') = Len(infos)
  <2>1. Len(infos) \in Nat /\ DOMAIN infos = 1..Len(infos)
    BY <1>2 DEF PnpTypeOK
  <2>2. infos' \in [1..Len(infos) -> Infos]
    BY <1>1, <1>3, <2>1
  <2> QED
    BY <2>1, <2>2
<1>5. /\ PnpTypeOK' /\ cb'[d].at = "remove"
      /\ \A e \in Devs \ {d} : cb'[e] = cb[e]
  <2>1. [at |-> "remove", id |-> Null] \in Calls
    BY DEF Calls
  <2> QED
    BY <1>1, <1>2, <1>4, <2>1 DEF PnpTypeOK
<1>6. ASSUME NEW e \in Devs \ lost, e # d PROVE Stage(e)'
  <2>1. CallsApart(e)
    BY <1>5 DEF CallsApart
  <2>2. ASSUME NEW st, NEW id, InfoIs(e, st, id) PROVE InfoIs(e, st, id)'
    <3>1. \A i \in 1..Len(infos) : infos[i].dev = e => infos[i].id # cb[d].id
      BY <1>1, <1>6, <2>2 DEF InfoIs
    <3>2. \A i \in 1..Len(infos) : infos[i].dev = e => infos'[i].status = infos[i].status
      BY <1>3, <3>1
    <3> QED
      BY <1>2, <1>3, <1>4, <1>6, <2>1, <2>2, <3>2, InfosChanged
  <2> QED
    BY <1>1, <1>2, <1>5, <1>6, <2>2, StageKept DEF Stage
<1>7. ASSUME d \notin lost PROVE Stage(d)'
  <2>1. PICK st \in {"INIT", "ADD"}, id \in Ids \cup {Null} :
          /\ InfoIs(d, st, id) /\ cb[d].id = id /\ Going(d, st) /\ d \notin plugged
    BY <1>1, <1>2, <1>7 DEF Stage, Coming, Going
  <2>2. PICK new \in {"INIT", "REMOVE"} : new = Toggle(st, "REMOVE")
    BY DEF Toggle
  <2>3. PICK i \in 1..Len(infos) :
          /\ infos[i].dev = d /\ infos[i].id = id /\ infos[i].status = st
          /\ \A j \in 1..Len(infos) : infos[j].dev = d \/ infos[j].id = id => j = i
    BY <2>1 DEF InfoIs
  <2>4. infos'[i].status = new
    BY <1>3, <2>1, <2>2, <2>3
  <2>5. InfoIs(d, new, id)'
    BY <1>3, <1>4, <1>5, <2>1, <2>2, <2>3, <2>4 DEF InfoIs
  <2>6. Going(d, new)'
    BY <1>1, <1>5, <2>1, <2>2 DEF Going, Toggle
  <2> QED
    BY <1>1, <1>5, <2>1, <2>5, <2>6 DEF Stage
<1> QED
  BY <1>1, <1>2, <1>5, <1>6, <1>7 DEF PnpIInv

(* Last part: what the slot held is lost.                                  *)
LEMMA AnnounceKeeps ==
  ASSUME PnpIInv, NEW d \in Devs, Announce(d)
  PROVE  PnpIInv'
<1>1. /\ cb[d].at \in {"add", "remove"} /\ cb' = [cb EXCEPT ![d].at = "idle"]
      /\ usbDevice' = d
      /\ cmd' = IF cb[d].at = "add" THEN "ADD_DEVICE" ELSE "REMOVE_DEVICE"
      /\ lost' = lost \cup Overwritten
      /\ UNCHANGED <<plugged, infos, named, view>>
  BY DEF Announce
<1>2. /\ PnpTypeOK /\ (\A e \in Devs \ lost : Stage(e)) /\ lost \subseteq lost'
      /\ named' \in lost' \cup {Null}
  BY <1>1 DEF PnpIInv
<1>3. /\ PnpTypeOK' /\ cb'[d].at = "idle"
      /\ \A e \in Devs \ {d} : cb'[e] = cb[e]
  BY <1>1, <1>2 DEF PnpTypeOK, Calls, Overwritten
<1>4. \A e \in Devs \ lost' : usbDevice # e /\ CallsApart(e)
  BY <1>1, <1>3, PnpAssumption DEF Overwritten, CallsApart
<1>5. ASSUME NEW e \in Devs \ lost', NEW st, NEW id, InfoIs(e, st, id)
      PROVE  InfoIs(e, st, id)'
  BY <1>1, <1>2, <1>4, <1>5, InfosChanged
<1>6. ASSUME NEW e \in Devs \ lost', e # d PROVE Stage(e)'
  BY <1>1, <1>2, <1>3, <1>4, <1>5, <1>6, StageKept
<1>7. ASSUME d \notin lost' PROVE Stage(d)'
  <2>1. PICK st \in {"none", "INIT", "ADD", "REMOVE"}, id \in Ids \cup {Null} :
          /\ InfoIs(d, st, id) /\ (IF d \in plugged THEN Coming(d, st) ELSE Going(d, st))
    BY <1>2, <1>7 DEF Stage
  <2>2. InfoIs(d, st, id)'
    BY <1>5, <1>7, <2>1
  <2>3. d \in plugged => Coming(d, st)'
    BY <1>1, <1>3, <2>1 DEF Coming
  <2>4. d \notin plugged => Going(d, st)'
    BY <1>1, <1>3, <1>4, <1>7, <2>1 DEF Going
  <2> QED
    BY <1>1, <1>3, <1>4, <1>7, <2>2, <2>3, <2>4 DEF Stage
<1> QED
  BY <1>2, <1>3, <1>6, <1>7 DEF PnpIInv

(* A report gives infos to devices that are lost from then on.             *)
LEMMA ReportKeeps ==
  ASSUME PnpIInv, NEW ds \in SUBSET Devs, Reported(ds), ds \subseteq lost', cb' = cb
  PROVE  /\ infos' \in Seq(Infos) /\ view' \subseteq Devs /\ lost' \subseteq Devs
         /\ \A e \in Devs \ lost' :
              /\ e \notin lost /\ usbDevice # e
              /\ ((e \in view') <=> (e \in view))
              /\ \A st, id : InfoIs(e, st, id) => InfoIs(e, st, id)'
<1>1. view' = view \cup ds /\ lost' = lost \cup ds \cup Overwritten
  BY DEF Reported
<1>2. PnpTypeOK
  BY DEF PnpIInv
<1>3. PICK s \in Seq(Infos) :
        /\ infos' = infos \o s
        /\ \A k \in 1..Len(s) : s[k].dev \in ds /\ s[k].id \notin InUse
  BY <1>2, ReportedInfos
<1>4. infos' \in Seq(Infos) /\ view' \subseteq Devs /\ lost' \subseteq Devs
  BY <1>1, <1>2, <1>3, ConcatProperties DEF PnpTypeOK, Overwritten
<1>5. ASSUME NEW e \in Devs \ lost'
      PROVE  /\ e \notin lost /\ usbDevice # e
             /\ ((e \in view') <=> (e \in view))
             /\ \A st, id : InfoIs(e, st, id) => InfoIs(e, st, id)'
  <2>1. e \notin lost /\ usbDevice # e /\ e \notin ds
    BY <1>1, <1>5 DEF Overwritten
  <2>2. CallsApart(e)
    BY DEF CallsApart
  <2>3. \A k \in 1..Len(s) : s[k].dev # e /\ s[k].id \notin InUse
    BY <1>3, <2>1
  <2>4. \A st, id : InfoIs(e, st, id) => InfoIs(e, st, id)'
    BY <1>2, <1>3, <2>2, <2>3, InfosAppended
  <2> QED
    BY <1>1, <2>1, <2>4
<1> QED
  BY <1>4, <1>5

(* An info that is sent: it is marked, or destroyed, as the view tells.    *)
LEMMA SentKeeps ==
  ASSUME PnpIInv, NEW d \in Devs \cup {Null}, Find(d) \in 1..Len(infos), infos[Find(d)].dev = d,
         Sent(Find(d)), usbDevice' = Null, UNCHANGED <<plugged, cb, named, cmd>>,
         cmd = "ADD_DEVICE" => d \in Devs, \A e \in Devs \ lost : e = d <=> usbDevice = e
  PROVE  PnpIInv'
<1> DEFINE p == Find(d)
<1>1. PICK ok \in BOOLEAN, send \in BOOLEAN :
        /\ send = (infos[p].status = "INIT" /\ ok)
        /\ infos' = IF ~send \/ cmd = "REMOVE_DEVICE" THEN DestroyInfo(p)
                    ELSE [infos EXCEPT ![p].status = "ADD"]
        /\ view' = CASE send /\ cmd = "ADD_DEVICE"    -> view \cup {d}
                     [] send /\ cmd = "REMOVE_DEVICE" -> view \ {d}
                     [] OTHER -> view
        /\ lost' = IF ok THEN lost ELSE lost \cup ({d} \cap Devs)
  <2>1. PICK ok \in BOOLEAN :
          LET send == infos[p].status = "INIT" /\ ok
          IN  /\ infos' = IF ~send \/ cmd = "REMOVE_DEVICE" THEN DestroyInfo(p)
                          ELSE [infos EXCEPT ![p].status = "ADD"]
              /\ view' = CASE send /\ cmd = "ADD_DEVICE"    -> view \cup {d}
                           [] send /\ cmd = "REMOVE_DEVICE" -> view \ {d}
                           [] OTHER -> view
              /\ lost' = IF ok THEN lost ELSE lost \cup ({d} \cap Devs)
    BY PnpAssumption DEF Sent
  <2>2. PICK send \in BOOLEAN : send = (infos[p].status = "INIT" /\ ok)
    OBVIOUS
  <2> QED
    BY <2>1, <2>2
<1> HIDE DEF p
<1>2. /\ PnpTypeOK /\ (\A e \in Devs \ lost : Stage(e)) /\ lost \subseteq lost'
      /\ p \in 1..Len(infos) /\ infos[p].dev = d /\ infos[p] \in Infos
      /\ named' \in lost' \cup {Null}
  BY <1>1 DEF PnpIInv, PnpTypeOK, p
<1>3. ASSUME ~send \/ cmd = "REMOVE_DEVICE"
      PROVE  /\ infos' = DestroyInfo(p) /\ infos' \in Seq(Infos) /\ Len(infos') = Len(infos) - 1
             /\ \A i \in 1..(Len(infos) - 1) : infos'[i] = IF i < p THEN infos[i] ELSE infos[i + 1]
  BY <1>1, <1>2, <1>3, InfosWithout
<1>4. ASSUME send, cmd # "REMOVE_DEVICE"
      PROVE  /\ infos' \in Seq(Infos) /\ Len(infos') = Len(infos)
             /\ \A i \in 1..Len(infos) :
                  /\ infos'[i].dev = infos[i].dev /\ infos'[i].id = infos[i].id
                  /\ infos'[i].status = IF i = p THEN "ADD" ELSE infos[i].status
  <2>1. PICK r \in Infos : r = [infos[p] EXCEPT !.status = "ADD"]
    BY <1>2 DEF Infos
  <2>2. infos' = [infos EXCEPT ![p] = r]
    BY <1>1, <1>4, <2>1
  <2>3. r.dev = infos[p].dev /\ r.id = infos[p].id /\ r.status = "ADD"
    BY <1>2, <2>1 DEF Infos
  <2>4. infos' \in Seq(Infos) /\ Len(infos') = Len(infos)
    BY <1>2, <2>2 DEF PnpTypeOK
  <2>5. infos'[p] = r /\ \A i \in 1..Len(infos) : i # p => infos'[i] = infos[i]
    BY <1>2, <2>2 DEF PnpTypeOK
  <2> QED
    BY <2>3, <2>4, <2>5
<1>5. PnpTypeOK'
  <2>1. infos' \in Seq(Infos)
    BY <1>3, <1>4
  <2>2. view' \subseteq Devs /\ lost' \subseteq Devs
    BY <1>1, <1>2 DEF PnpTypeOK
  <2> QED
    BY <1>2, <2>1, <2>2 DEF PnpTypeOK
<1>6. ASSUME NEW e \in Devs \ lost', e # d PROVE Stage(e)'
  <2>1. ASSUME NEW st, NEW id, InfoIs(e, st, id) PROVE InfoIs(e, st, id)'
    <3>1. CASE ~send \/ cmd = "REMOVE_DEVICE"
      BY <1>2, <1>3, <1>6, <2>1, <3>1, InfosRemoved
    <3>2. CASE send /\ cmd # "REMOVE_DEVICE"
      <4>1. CallsApart(e)
        BY DEF CallsApart
      <4>2. \A i \in 1..Len(infos) : infos[i].dev = e => infos'[i].status = infos[i].status
        BY <1>2, <1>4, <1>6, <3>2
      <4> QED
        BY <1>2, <1>4, <1>6, <2>1, <3>2, <4>1, <4>2, InfosChanged
    <3> QED
      BY <3>1, <3>2
  <2>2. usbDevice # e /\ usbDevice' # e
    BY <1>2, <1>6, PnpAssumption
  <2>3. (e \in view') <=> (e \in view)
    BY <1>1, <1>6
  <2> QED
    BY <1>2, <1>6, <2>1, <2>2, <2>3, StageKept
<1>7. ASSUME d \in Devs \ lost' PROVE Stage(d)'
  <2>1. ok /\ usbDevice = d /\ d \in Devs \ lost /\ usbDevice' # d
    BY <1>1, <1>2, <1>7, PnpAssumption
  <2>2. PICK st \in {"INIT", "REMOVE"}, id \in Ids \cup {Null} :
          /\ InfoIs(d, st, id) /\ (cb[d].at = "found" => cb[d].id = id)
          /\ (IF d \in plugged THEN Coming(d, st) ELSE Going(d, st))
    <3>1. Stage(d)
      BY <1>2, <2>1
    <3>2. PICK st \in {"none", "INIT", "ADD", "REMOVE"}, id \in Ids \cup {Null} :
            /\ InfoIs(d, st, id) /\ (cb[d].at = "found" => cb[d].id = id)
            /\ (IF d \in plugged THEN Coming(d, st) ELSE Going(d, st))
      BY <3>1, Zenon DEF Stage
    <3>3. st # "none"
      BY <1>2, <3>2 DEF InfoIs
    <3>4. st # "ADD"
      BY <2>1, <3>2, Zenon DEF Coming, Going
    <3> QED
      BY <3>2, <3>3, <3>4
  <2>3. /\ infos[p].id = id /\ infos[p].status = st
        /\ \A j \in 1..Len(infos) : infos[j].dev = d \/ infos[j].id = id => j = p
    BY <1>2, <2>2 DEF InfoIs
  <2>4. send = (st = "INIT")
    BY <1>1, <2>1, <2>3
  <2>5. CASE st = "INIT" /\ cmd = "ADD_DEVICE"
    <3>1. send /\ d \in view'
      BY <1>1, <2>4, <2>5
    <3>2. InfoIs(d, "ADD", id)'
      BY <1>2, <1>4, <2>2, <2>3, <2>5, <3>1 DEF InfoIs
    <3>3. IF d \in plugged' THEN Coming(d, "ADD")' ELSE Going(d, "ADD")'
      BY <2>1, <2>2, <2>5, <3>1 DEF Coming, Going
    <3> QED
      BY <2>1, <2>2, <3>2, <3>3 DEF Stage
  <2>6. CASE ~(st = "INIT" /\ cmd = "ADD_DEVICE")
    <3>1. /\ d \notin plugged /\ cb[d].at \in {"idle", "remove"}
          /\ \/ st = "INIT" /\ cmd = "REMOVE_DEVICE" /\ cb[d].at = "idle"
             \/ st = "REMOVE" /\ d \notin view /\ cb[d].at = "remove"
      BY <2>1, <2>2, <2>6 DEF Coming, Going
    <3>2. (~send \/ cmd = "REMOVE_DEVICE") /\ d \notin view'
      BY <1>1, <2>4, <3>1
    <3>3. InfoIs(d, "none", id)'
      <4>1. PICK n \in Nat : n = Len(infos)
        BY <1>2 DEF PnpTypeOK
      <4>2. \A i \in 1..(n - 1) : \E j \in (1..n) \ {p} : infos'[i] = infos[j]
        BY <1>2, <1>3, <3>2, <4>1
      <4> QED
        BY <1>3, <2>3, <3>2, <4>1, <4>2 DEF InfoIs
    <3>4. Going(d, "none")'
      BY <2>1, <3>1, <3>2 DEF Going
    <3> QED
      BY <2>1, <2>2, <3>1, <3>3, <3>4 DEF Stage
  <2> QED
    BY <2>5, <2>6
<1> QED
  BY <1>2, <1>5, <1>6, <1>7 DEF PnpIInv

(* A round that leaves the infos of the devices alone.                     *)
LEMMA RoundKeeps ==
  ASSUME PnpIInv, usbDevice' = Null, UNCHANGED <<plugged, cb, named, cmd>>,
         infos' \in Seq(Infos), view' \subseteq Devs, lost' \subseteq Devs, lost \subseteq lost',
         \A e \in Devs \ lost' :
           /\ usbDevice # e /\ ((e \in view') <=> (e \in view))
           /\ \A st, id : InfoIs(e, st, id) => InfoIs(e, st, id)'
  PROVE  PnpIInv'
<1>1. PnpTypeOK'
  BY DEF PnpIInv, PnpTypeOK
<1>2. ASSUME NEW e \in Devs \ lost' PROVE Stage(e)'
  <2>1. Stage(e) /\ usbDevice # e /\ usbDevice' # e
    BY <1>2, PnpAssumption DEF PnpIInv
  <2> QED
    BY <1>2, <2>1, StageKept
<1> QED
  BY <1>1, <1>2 DEF PnpIInv

(* A command that user space made up: an info of nobody is added.          *)
LEMMA OtherKeeps ==
  ASSUME PnpIInv, SentOther, UNCHANGED cb
  PROVE  /\ infos' \in Seq(Infos) /\ UNCHANGED <<view, lost>>
         /\ \A e \in Devs : \A st, id : InfoIs(e, st, id) => InfoIs(e, st, id)'
<1>1. UNCHANGED <<view, lost>> /\ PnpTypeOK
  BY DEF SentOther, PnpIInv
<1>2. CASE infos' = infos
  <2>1. \A e, st, id : InfoIs(e, st, id) => InfoIs(e, st, id)'
    BY <1>2 DEF InfoIs
  <2> QED
    BY <1>1, <1>2, <2>1 DEF PnpTypeOK
<1>3. ASSUME NEW id \in NextId, infos' = Append(infos, [id |-> id, dev |-> Null, status |-> "ADD"])
      PROVE  /\ infos' \in Seq(Infos)
             /\ \A e \in Devs : \A st, i : InfoIs(e, st, i) => InfoIs(e, st, i)'
  <2>1. id \in Ids \ InUse
    BY DEF NextId
  <2>2. PICK r \in Infos : r = [id |-> id, dev |-> Null, status |-> "ADD"]
    BY <2>1 DEF Infos
  <2>3. infos' = infos \o <<r>> /\ infos' \in Seq(Infos)
    BY <1>1, <1>3, <2>2, AppendIsConcat DEF PnpTypeOK
  <2>4. <<r>> \in Seq(Infos) /\ Len(<<r>>) = 1 /\ <<r>>[1] = r
    OBVIOUS
  <2>5. r.id \notin InUse /\ \A e \in Devs : r.dev # e
    BY <2>1, <2>2, PnpAssumption
  <2>6. ASSUME NEW e \in Devs, NEW st, NEW i, InfoIs(e, st, i) PROVE InfoIs(e, st, i)'
    <3>1. CallsApart(e)
      BY DEF CallsApart
    <3>2. \A k \in 1..Len(<<r>>) : <<r>>[k].dev # e /\ <<r>>[k].id \notin InUse
      BY <2>4, <2>5
    <3> QED
      BY <1>1, <2>3, <2>4, <2>6, <3>1, <3>2, InfosAppended
  <2> QED
    BY <2>3, <2>6
<1> QED
  BY <1>1, <1>2, <1>3 DEF SentOther

(* A round of the report thread.                                           *)
LEMMA ThreadKeeps == PnpIInv /\ ReportThread => PnpIInv'
<1>1. SUFFICES ASSUME PnpIInv, ReportThread PROVE PnpIInv'
  OBVIOUS
<1>2. /\ usbDevice # Null /\ usbDevice' = Null /\ UNCHANGED <<plugged, cb, named, cmd>>
      /\ PnpTypeOK /\ (\A e \in Devs \ lost : Stage(e)) /\ named \in lost \cup {Null}
  BY <1>1 DEF ReportThread, PnpIInv
<1>3. \A e \in Devs \ lost : usbDevice = e => cmd \in {"ADD_DEVICE", "REMOVE_DEVICE"}
  BY <1>2 DEF Stage, Coming, Going
<1>4. CASE cmd = "REPORT_INTERFACE"
  <2>1. PICK ds \in SUBSET Overwritten : Reported(ds)
    BY <1>1, <1>4 DEF ReportThread
  <2>2. ds \in SUBSET Devs /\ ds \subseteq lost' /\ lost \subseteq lost'
    BY <2>1 DEF Reported, Overwritten
  <2>3. /\ infos' \in Seq(Infos) /\ view' \subseteq Devs /\ lost' \subseteq Devs
        /\ \A e \in Devs \ lost' :
             /\ e \notin lost /\ usbDevice # e
             /\ ((e \in view') <=> (e \in view))
             /\ \A st, id : InfoIs(e, st, id) => InfoIs(e, st, id)'
    BY <1>1, <1>2, <2>1, <2>2, ReportKeeps
  <2> QED
    BY <1>1, <1>2, <2>2, <2>3, RoundKeeps
<1>5. CASE cmd = "OTHER"
  <2>1. SentOther /\ UNCHANGED cb
    BY <1>1, <1>2, <1>5 DEF ReportThread
  <2>2. /\ infos' \in Seq(Infos) /\ UNCHANGED <<view, lost>>
        /\ \A e \in Devs : \A st, id : InfoIs(e, st, id) => InfoIs(e, st, id)'
    BY <1>1, <2>1, OtherKeeps
  <2>3. view' \subseteq Devs /\ lost' \subseteq Devs /\ \A e \in Devs \ lost' : usbDevice # e
    BY <1>2, <1>3, <1>5, <2>2 DEF PnpTypeOK
  <2> QED
    BY <1>1, <1>2, <2>2, <2>3, RoundKeeps
<1>6. CASE cmd \in {"INTERFACE", "ADD_DEVICE", "REMOVE_DEVICE"}
  <2>1. PICK d \in Devs \cup {Null, "own"} : d = IF cmd = "INTERFACE" THEN named ELSE usbDevice
    BY <1>2 DEF PnpTypeOK
  <2>2. \A e \in Devs \ lost : e = d <=> usbDevice = e
    BY <1>2, <1>3, <2>1, PnpAssumption
  <2>3. \/ Find(d) = 0 /\ UNCHANGED <<infos, view, lost>>
        \/ Find(d) # 0 /\ Sent(Find(d))
        \/ lost' = lost \cup Overwritten /\ UNCHANGED <<infos, view>>
    <3>1. Sought = Find(d)
      BY <2>1 DEF Sought
    <3> QED
      BY <1>1, <1>6, <3>1 DEF ReportThread
  <2>4. CASE Find(d) # 0 /\ Sent(Find(d))
    <3>1. Find(d) \in 1..Len(infos) /\ infos[Find(d)].dev = d
      BY <2>4, FindHolds
    <3>2. d \in Devs \cup {Null}
      <4>1. infos[Find(d)] \in Infos
        BY <1>2, <3>1 DEF PnpTypeOK
      <4> QED
        BY <3>1, <4>1 DEF Infos
    <3>3. cmd = "ADD_DEVICE" => d \in Devs
      BY <1>2, <2>1, <3>2
    <3> QED
      BY <1>1, <1>2, <2>2, <2>4, <3>1, <3>2, <3>3, SentKeeps
  <2>5. ASSUME UNCHANGED infos PROVE \A e, st, id : InfoIs(e, st, id) => InfoIs(e, st, id)'
    BY <1>2, <2>5 DEF InfoIs
  <2>6. CASE lost' = lost \cup Overwritten /\ UNCHANGED <<infos, view>>
    <3>1. /\ infos' \in Seq(Infos) /\ view' \subseteq Devs /\ lost' \subseteq Devs /\ lost \subseteq lost'
          /\ \A e \in Devs \ lost' : usbDevice # e
      BY <1>2, <2>6 DEF PnpTypeOK, Overwritten
    <3> QED
      BY <1>1, <1>2, <2>5, <2>6, <3>1, RoundKeeps
  <2>7. CASE Find(d) = 0 /\ UNCHANGED <<infos, view, lost>>
    <3>1. PnpTypeOK' /\ named' \in lost' \cup {Null}
      BY <1>2, <2>7 DEF PnpTypeOK
    <3>2. \A e \in Devs : usbDevice' # e
      BY <1>2, PnpAssumption
    <3>3. \A i \in 1..Len(infos) : infos[i].dev # d
      BY <2>7, FindHolds, PnpAssumption DEF PnpTypeOK
    <3>4. ASSUME NEW e \in Devs \ lost, e # d PROVE Stage(e)'
      <4>1. usbDevice # e
        BY <2>2, <3>4
      <4> QED
        BY <1>2, <2>5, <2>7, <3>2, <3>4, <4>1, StageKept
    <3>5. ASSUME d \in Devs \ lost PROVE Stage(d)'
      <4>1. usbDevice = d /\ InfoIs(d, "none", Null)
        BY <2>2, <3>3, <3>5 DEF InfoIs
      <4>2. d \notin plugged /\ cb[d].at = "idle" /\ d \notin view
        BY <1>2, <3>3, <3>5, <4>1 DEF Stage, InfoIs, Coming, Going
      <4>3. Going(d, "none")'
        BY <1>2, <2>7, <3>2, <3>5, <4>2 DEF Going
      <4> QED
        BY <1>2, <2>5, <2>7, <4>1, <4>2, <4>3 DEF Stage
    <3> QED
      BY <2>7, <3>1, <3>4, <3>5 DEF PnpIInv
  <2> QED
    BY <2>3, <2>4, <2>6, <2>7
<1> QED
  BY <1>2, <1>4, <1>5, <1>6 DEF PnpTypeOK

(* An event, a report or any other command that user space asks for.       *)
LEMMA DispatchKeeps ==
  /\ PnpIInv
  /\ \/ DispatchReport \/ \E d \in Devs \cup {Null} : DispatchInterface(d)
     \/ \E c \in {"INTERFACE", "ADD_DEVICE", "REMOVE_DEVICE", "OTHER"} : DispatchCommand(c)
  => PnpIInv'
<1>1. SUFFICES ASSUME PnpIInv,
                      \/ DispatchReport \/ \E d \in Devs \cup {Null} : DispatchInterface(d)
                      \/ \E c \in {"INTERFACE", "ADD_DEVICE", "REMOVE_DEVICE", "OTHER"} : DispatchCommand(c)
               PROVE  PnpIInv'
  OBVIOUS
<1>2. PnpTypeOK /\ (\A e \in Devs \ lost : Stage(e)) /\ named \in lost \cup {Null}
  BY <1>1 DEF PnpIInv
<1>3. CASE DispatchReport
  <2>1. PICK ds \in SUBSET plugged : Reported(ds)
    BY <1>3 DEF DispatchReport
  <2>2. UNCHANGED <<plugged, cb, usbDevice, named>> /\ cmd' = "REPORT_INTERFACE"
    BY <1>3 DEF DispatchReport
  <2>3. ds \in SUBSET Devs /\ ds \subseteq lost' /\ lost \subseteq lost'
    BY <1>2, <2>1 DEF Reported, PnpTypeOK
  <2>4. /\ infos' \in Seq(Infos) /\ view' \subseteq Devs /\ lost' \subseteq Devs
        /\ \A e \in Devs \ lost' :
             /\ e \notin lost /\ usbDevice # e
             /\ ((e \in view') <=> (e \in view))
             /\ \A st, id : InfoIs(e, st, id) => InfoIs(e, st, id)'
    BY <1>1, <2>1, <2>2, <2>3, ReportKeeps
  <2>5. PnpTypeOK'
    BY <1>2, <2>2, <2>4 DEF PnpTypeOK
  <2>6. ASSUME NEW e \in Devs \ lost' PROVE Stage(e)'
    <3>1. Stage(e)
      BY <1>2, <2>4, <2>6
    <3> QED
      BY <2>2, <2>4, <2>6, <3>1, StageKept
  <2> QED
    BY <1>2, <2>2, <2>3, <2>5, <2>6 DEF PnpIInv
<1>4. ASSUME NEW d \in Devs \cup {Null}, DispatchInterface(d) PROVE PnpIInv'
  <2>1. /\ cmd' = "INTERFACE" /\ usbDevice' = "own" /\ named' = d
        /\ lost' = lost \cup Overwritten \cup ({d} \cap Devs)
        /\ UNCHANGED <<plugged, cb, view>>
    BY <1>4 DEF DispatchInterface
  <2>2. /\ infos' \in Seq(Infos) /\ Len(infos') = Len(infos)
        /\ \A i \in 1..Len(infos) :
             /\ infos'[i].dev = infos[i].dev /\ infos'[i].id = infos[i].id
             /\ infos[i].dev # d => infos'[i] = infos[i]
    <3>1. CASE Find(d) = 0
      BY <1>2, <1>4, <3>1 DEF DispatchInterface, PnpTypeOK
    <3>2. CASE Find(d) # 0
      <4>1. PICK p \in 1..Len(infos) : p = Find(d) /\ infos[p].dev = d /\ infos[p] \in Infos
        BY <1>2, <3>2, FindHolds DEF PnpTypeOK
      <4>2. PICK t \in {"INIT", "INTERFACE"} : t = Toggle(infos[p].status, "INTERFACE")
        BY DEF Toggle
      <4>3. PICK r \in Infos : r = [infos[p] EXCEPT !.status = t]
        BY <4>1 DEF Infos
      <4>4. r.dev = d /\ r.id = infos[p].id
        BY <4>1, <4>3 DEF Infos
      <4>5. infos' = [infos EXCEPT ![p] = r]
        BY <1>4, <3>2, <4>1, <4>2, <4>3 DEF DispatchInterface
      <4>6. infos' \in Seq(Infos) /\ Len(infos') = Len(infos)
        BY <1>2, <4>5 DEF PnpTypeOK
      <4>7. infos'[p] = r /\ \A i \in 1..Len(infos) : i # p => infos'[i] = infos[i]
        BY <1>2, <4>5 DEF PnpTypeOK
      <4> QED
        BY <4>1, <4>4, <4>6, <4>7
    <3> QED
      BY <3>1, <3>2
  <2>3. PnpTypeOK'
    <3>1. lost' \subseteq Devs
      BY <1>2, <2>1 DEF PnpTypeOK, Overwritten
    <3> QED
      BY <1>2, <2>1, <2>2, <3>1 DEF PnpTypeOK
  <2>4. ASSUME NEW e \in Devs \ lost' PROVE Stage(e)'
    <3>1. e \notin lost /\ e # d /\ usbDevice # e
      BY <2>1, <2>4 DEF Overwritten
    <3>2. usbDevice' # e
      BY <2>1, PnpAssumption
    <3>3. CallsApart(e)
      BY <2>1 DEF CallsApart
    <3>4. \A i \in 1..Len(infos) : infos[i].dev = e => infos'[i].status = infos[i].status
      BY <2>2, <3>1
    <3>5. ASSUME NEW st, NEW id, InfoIs(e, st, id) PROVE InfoIs(e, st, id)'
      BY <1>2, <2>2, <2>4, <3>3, <3>4, <3>5, InfosChanged
    <3> QED
      BY <1>2, <2>1, <2>4, <3>1, <3>2, <3>5, StageKept
  <2> QED
    BY <2>1, <2>3, <2>4 DEF PnpIInv
<1>5. ASSUME NEW c \in {"INTERFACE", "ADD_DEVICE", "REMOVE_DEVICE", "OTHER"}, DispatchCommand(c)
      PROVE  PnpIInv'
  <2>1. /\ cmd' = c /\ lost' = lost \cup Overwritten
        /\ UNCHANGED <<plugged, infos, cb, usbDevice, named, view>>
    BY <1>5 DEF DispatchCommand
  <2>2. PnpTypeOK' /\ named' \in lost' \cup {Null}
    BY <1>2, <2>1 DEF PnpTypeOK, Overwritten
  <2>3. ASSUME NEW e \in Devs \ lost' PROVE Stage(e)'
    <3>1. Stage(e) /\ usbDevice # e /\ usbDevice' # e
      BY <1>2, <2>1, <2>3 DEF Overwritten
    <3>2. \A st, id : InfoIs(e, st, id) => InfoIs(e, st, id)'
      BY <2>1 DEF InfoIs
    <3> QED
      BY <2>1, <2>3, <3>1, <3>2, StageKept
  <2> QED
    BY <2>2, <2>3 DEF PnpIInv
<1> QED
  BY <1>1, <1>3, <1>4, <1>5

(* Every step keeps the place of the devices that are not lost.            *)
LEMMA StepPnpIInv == PnpIInv /\ [PnpNext]_pnpVars => PnpIInv'
<1>1. SUFFICES ASSUME PnpIInv, [PnpNext]_pnpVars PROVE PnpIInv'
  OBVIOUS
<1>2. CASE UNCHANGED devVars
  <2>1. PnpTypeOK'
    BY <1>1, <1>2 DEF devVars, PnpIInv, PnpTypeOK
  <2>2. ASSUME NEW e \in Devs \ lost PROVE Stage(e)'
    <3>1. /\ infos' = infos /\ cb' = cb /\ plugged' = plugged /\ usbDevice' = usbDevice
          /\ cmd' = cmd /\ view' = view
      BY <1>2 DEF devVars
    <3>2. \A st : /\ Coming(e, st)' <=> Coming(e, st)
                  /\ Going(e, st)' <=> Going(e, st)
      <4>1. \A st : Coming(e, st)' <=> Coming(e, st)
        BY <3>1 DEF Coming
      <4>2. \A st : Going(e, st)' <=> Going(e, st)
        BY <3>1 DEF Going
      <4> QED
        BY ONLY <4>1, <4>2, Zenon
    <3>3. \A st, id : InfoIs(e, st, id)' <=> InfoIs(e, st, id)
      BY <3>1, Zenon DEF InfoIs
    <3>4. Stage(e)
      BY <1>1, <2>2 DEF PnpIInv
    <3> QED
      BY <3>1, <3>2, <3>3, <3>4, Zenon DEF Stage
  <2> QED
    BY <1>1, <1>2, <2>1, <2>2 DEF devVars, PnpIInv
<1>3. GadgetStep \/ UNCHANGED pnpVars => UNCHANGED devVars
  BY DEF GadgetStep, GadgetReportThread, GadgetCallback, GadgetRemember, pnpVars
<1> QED
  BY <1>1, <1>2, <1>3, AddKeeps, RemoveKeeps, StatusKeeps, AnnounceKeeps, ThreadKeeps, DispatchKeeps
  DEF PnpNext, UsbStep

(* When nothing is on its way, user space knows of a device that is not    *)
(* lost exactly when it is there; `lost' has the devices whose event was   *)
(* overwritten or got another command, that an interface event or a report *)
(* was about, and whose announcement failed.                               *)
THEOREM DevicesTold == PnpSpec => []ToldUnlessLost
<1>1. PnpIInv => ToldUnlessLost
  <2>1. SUFFICES ASSUME PnpIInv, Settled, NEW d \in Devs \ lost PROVE d \in view <=> d \in plugged
    BY DEF ToldUnlessLost
  <2>2. Stage(d) /\ usbDevice # d /\ cb[d].at = "idle"
    BY <2>1, PnpAssumption DEF PnpIInv, Settled
  <2> QED
    BY <2>2 DEF Stage, Coming, Going
<1> QED
  BY InitPnpIInv, StepPnpIInv, <1>1, PTL DEF PnpSpec

(* The info that the removal of a device that is not lost looked up is     *)
(* still on the list when it is used.                                      *)
THEOREM FoundInfoKept == PnpSpec => []FoundInfoAlive
<1>1. PnpIInv => FoundInfoAlive
  <2>1. SUFFICES ASSUME PnpIInv, NEW d \in Devs \ lost, cb[d].at = "found"
                 PROVE  \E i \in DOMAIN infos : infos[i].id = cb[d].id
    BY DEF FoundInfoAlive
  <2>2. DOMAIN infos = 1..Len(infos)
    BY <2>1 DEF PnpIInv, PnpTypeOK
  <2> QED
    BY <2>1, <2>2 DEF PnpIInv, Stage, Coming, Going, InfoIs
<1> QED
  BY InitPnpIInv, StepPnpIInv, <1>1, PTL DEF PnpSpec
=================================================================================

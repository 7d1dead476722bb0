-------------------------------- MODULE Kevent --------------------------------
(***************************************************************************)
(* The power path of the manager: hdf_kevent.c tells the open clients of   *)
(* its service of a power event and, for a synchronous event, waits up to  *)
(* five seconds for their answers; then it changes the power state of the  *)
(* drivers.  devmgr_pm_reg.c changes the same power state from a second    *)
(* notifier of the same suspend chain.                                     *)
(*                                                                         *)
(* Senders are "pm" and "fb" (the notifier calls, each serialised by the   *)
(* kernel) and any number of callers of HdfSysEventSend.  Whatever runs    *)
(* under keventModule->mutex is one step, and so is what runs under        *)
(* clientMutex, which is only ever taken inside it or on its own.          *)
(* Bound: Tokens, the addresses an allocation may return, MaxPending.      *)
(***************************************************************************)
EXTENDS Integers, Sequences, FiniteSets

CONSTANTS Callers,      \* threads that call HdfSysEventSend
          Clients,      \* processes that open the service
          Tokens,       \* addresses a HdfKeventWait may have
          NoToken,      \* the token of an event nobody waits for: 0
          MaxPending,   \* unread events of a client
          Wrap,         \* waitCount is a uint32_t: 2^32
          DevmgrFirst   \* devmgr registered its PM notifier before kevent did

\* clientCount is an int32_t, so clients are fewer than waitCount can count.
ASSUME KeventAssumption ==
  /\ Wrap \in Nat \ {0} /\ IsFiniteSet(Clients) /\ Cardinality(Clients) < Wrap
  /\ {"pm", "fb"} \cap Callers = {} /\ NoToken \notin Tokens

Senders == Callers \cup {"pm", "fb"}

VARIABLES
  module,       \* none, bound, ready (Init ran), released
  pmReg, fbReg, \* the notifiers the kernel holds
  devmgrClnt,   \* DevmgrServiceClntGetInstance, a singleton, has an interface
  clientList,   \* open clients; clientCount is their number
  waitList,     \* tokens of the waits on keventModule->waitList
  waitCount,    \* of each HdfKeventWait
  comp,         \* completions of each wait not yet consumed
  leaked,       \* waits allocated and never freed
  pc, token, result,
  seen,         \* clientCount when SendKevent read it without the lock
  inbox,        \* events each client has to answer, oldest first: the token,
                \* and whether the wait it named is gone
  misled,       \* senders whose wait an answer to an older event counted down
  chain,        \* the kernel's calls of the PM notifiers
  power         \* last state given to PowerStateChange

waits  == <<waitList, waitCount, comp, leaked>>
sender == <<pc, token, result, seen>>
life   == <<module, pmReg, fbReg, devmgrClnt>>
keVars == <<life, clientList, waits, sender, inbox, misled, chain, power>>

clientCount == Cardinality(clientList)

\* A chain: the phase, the notifiers to call, those already called.
Chain(phase, todo, called) == [phase |-> phase, todo |-> todo, called |-> called]

KeInit ==
  /\ module = "none" /\ pmReg = FALSE /\ fbReg = FALSE /\ devmgrClnt \in BOOLEAN
  /\ clientList = {} /\ waitList = {} /\ leaked = {}
  /\ waitCount = [t \in Tokens |-> 0] /\ comp = [t \in Tokens |-> 0]
  /\ pc = [s \in Senders |-> "idle"] /\ token = [s \in Senders |-> NoToken]
  /\ result = [s \in Senders |-> "ok"] /\ seen = [s \in Senders |-> 0]
  /\ inbox = [c \in Clients |-> <<>>] /\ misled = {}
  /\ chain = Chain("awake", <<>>, <<>>) /\ power = "RESUME"

-----------------------------------------------------------------------------
(* The driver's life *)

HdfKeventDriverBind ==
  /\ module = "none" /\ module' = "bound"
  /\ UNCHANGED <<pmReg, fbReg, devmgrClnt, clientList, waits, sender, inbox, misled, chain,
                 power>>

\* Either registration may fail; when the second does the first is undone.
HdfKeventDriverInit ==
  /\ module = "bound" /\ chain.todo = <<>> /\ module' = "ready"
  /\ \E pm, fb \in BOOLEAN : fbReg' = fb /\ pmReg' = (pm /\ fb)
  /\ UNCHANGED <<devmgrClnt, clientList, waits, sender, inbox, misled, chain, power>>

\* No caller is inside: nothing in the code sees to it for those of
\* HdfSysEventSend and of the fb notifier, whose use of the freed module is
\* undefined and left out.
Quiet == \A s \in Senders \ {"pm"} : pc[s] = "idle"

\* unregister_pm_notifier waits for a running chain.  fb_unregister_client is
\* given the PM notifier, so fbNotifier stays registered, and g_keventModule
\* keeps its value.
HdfKeventDriverRelease ==
  /\ module = "ready" /\ Quiet /\ chain.todo = <<>>
  /\ module' = "released" /\ pmReg' = FALSE /\ fbReg' = fbReg
  /\ UNCHANGED <<devmgrClnt, clientList, waits, sender, inbox, misled, chain, power>>

HdfKeventDriverOpen(c) ==
  /\ module \in {"bound", "ready"} /\ c \notin clientList
  /\ clientList' = clientList \cup {c}
  /\ UNCHANGED <<life, waits, sender, inbox, misled, chain, power>>

\* The waits the client has not answered keep their count.
HdfKeventDriverClose(c) ==
  /\ module # "released" /\ c \in clientList
  /\ clientList' = clientList \ {c} /\ inbox' = [inbox EXCEPT ![c] = <<>>]
  /\ UNCHANGED <<life, waits, sender, misled, chain, power>>

-----------------------------------------------------------------------------
(* SendKevent *)

\* Whether the event of s is synchronous: suspend and display off are, resume
\* and display on are not.
Syncs(s) == IF s = "pm" THEN {chain.phase = "prepare"} ELSE BOOLEAN

\* A notifier or HdfSysEventSend calls SendKevent.  clientCount is read without
\* a lock: with no client the call ends there.
Enter(s) ==
  /\ pc[s] = "idle" /\ module = "ready"
  /\ s = "fb" => fbReg
  /\ s = "pm" => chain.todo # <<>> /\ Head(chain.todo) = "pm"
  /\ pc' = [pc EXCEPT ![s] = IF clientCount <= 0 THEN "sent" ELSE "prepare"]
  /\ seen' = [seen EXCEPT ![s] = clientCount]
  /\ result' = [result EXCEPT ![s] = "ok"]
  /\ UNCHANGED <<life, clientList, waits, token, inbox, misled, chain, power>>

Free == Tokens \ (leaked \cup {token[s] : s \in Senders})

\* Allocation or the serialisation of the event may fail.  The wait of an event
\* that could not be serialised is not freed.
PrepareEvent(s) ==
  /\ pc[s] = "prepare"
  /\ \/ /\ pc' = [pc EXCEPT ![s] = "sent"] /\ result' = [result EXCEPT ![s] = "fail"]
        /\ leaked' \in {leaked} \cup {leaked \cup {t} : t \in IF TRUE \in Syncs(s) THEN Free ELSE {}}
        /\ UNCHANGED <<token, comp>>
     \/ /\ FALSE \in Syncs(s)
        /\ pc' = [pc EXCEPT ![s] = "send"] /\ UNCHANGED <<token, result, comp, leaked>>
     \/ /\ TRUE \in Syncs(s)
        /\ \E t \in Free : token' = [token EXCEPT ![s] = t] /\ comp' = [comp EXCEPT ![t] = 0]
        /\ pc' = [pc EXCEPT ![s] = "send"] /\ UNCHANGED <<result, leaked>>
  /\ UNCHANGED <<life, clientList, waitList, waitCount, inbox, seen, misled, chain, power>>

\* HdfDeviceSendEventToClient may fail for some clients, and the loop goes on.
\* The last status is the result; with no client left it is never assigned.
Deliver(s) ==
  \E reached \in SUBSET clientList :
    /\ inbox' = IF token[s] = NoToken THEN inbox
                ELSE [c \in Clients |-> IF c \notin reached THEN inbox[c]
                        ELSE Append(inbox[c], [token |-> token[s], old |-> FALSE])]
    /\ \A c \in Clients : Len(inbox'[c]) <= MaxPending
    /\ \E r \in {"ok", "fail"} :
         /\ reached = clientList /\ reached # {} => r = "ok"
         /\ result' = [result EXCEPT ![s] = r]

\* Under mutex and clientMutex: list the wait, count the clients, send to each.
SendCounting(s, count) ==
  /\ pc[s] = "send" /\ Deliver(s)
  /\ IF token[s] = NoToken
     THEN pc' = [pc EXCEPT ![s] = "sent"] /\ UNCHANGED <<waitList, waitCount>>
     ELSE /\ pc' = [pc EXCEPT ![s] = "wait"]
          /\ waitList' = waitList \cup {token[s]}
          /\ waitCount' = [waitCount EXCEPT ![token[s]] = count]
  /\ seen' = [seen EXCEPT ![s] = 0]
  /\ UNCHANGED <<life, clientList, comp, leaked, token, misled, chain, power>>

\* Fault: waitCount is the number read before the lock was taken.
SendStaleCount(s) == SendCounting(s, seen[s])

Send(s) == SendCounting(s, clientCount)

Woken(s) ==
  /\ pc[s] = "wait" /\ comp[token[s]] > 0
  /\ comp' = [comp EXCEPT ![token[s]] = @ - 1] /\ pc' = [pc EXCEPT ![s] = "remove"]
  /\ UNCHANGED <<life, clientList, waitList, waitCount, leaked, token, result, seen,
                 inbox, misled, chain, power>>

\* Fault: the wait has no time limit.
NoTimeout(s) == FALSE /\ UNCHANGED keVars

Timeout(s) ==
  /\ pc[s] = "wait" /\ comp[token[s]] = 0
  /\ pc' = [pc EXCEPT ![s] = "remove"] /\ result' = [result EXCEPT ![s] = "timeout"]
  /\ UNCHANGED <<life, clientList, waits, token, seen, inbox, misled, chain, power>>

\* The wait is freed: an answer to it that a client still owes names an address
\* that the wait of a later event may have.
FreeWait(s) ==
  /\ pc[s] = "remove" /\ pc' = [pc EXCEPT ![s] = "sent"]
  /\ token' = [token EXCEPT ![s] = NoToken] /\ misled' = misled \ {s}
  /\ inbox' = [c \in Clients |-> [i \in DOMAIN inbox[c] |->
                  IF inbox[c][i].token # token[s] THEN inbox[c][i]
                  ELSE [token |-> token[s], old |-> TRUE]]]
  /\ waitCount' = [waitCount EXCEPT ![token[s]] = 0] /\ comp' = [comp EXCEPT ![token[s]] = 0]
  /\ UNCHANGED <<life, clientList, leaked, result, seen, chain, power>>

\* Fault: a wait that timed out stays on the list.
UnlistWokenOnly(s) ==
  FreeWait(s) /\ waitList' = IF result[s] = "timeout" THEN waitList ELSE waitList \ {token[s]}

Unlist(s) == FreeWait(s) /\ waitList' = waitList \ {token[s]}

\* A client answers the oldest event it was sent.  waitCount is unsigned.
CompleteKevent(c) ==
  /\ inbox[c] # <<>> /\ module # "released"
  /\ LET t == Head(inbox[c]).token
         left == (waitCount[t] + Wrap - 1) % Wrap
     IN  IF t \notin waitList THEN UNCHANGED <<waitCount, comp, misled>>
         ELSE /\ waitCount' = [waitCount EXCEPT ![t] = left]
              /\ comp' = IF left = 0 THEN [comp EXCEPT ![t] = @ + 1] ELSE comp
              /\ misled' = IF ~Head(inbox[c]).old THEN misled
                           ELSE misled \cup {s \in Senders : token[s] = t}
  /\ inbox' = [inbox EXCEPT ![c] = Tail(@)]
  /\ UNCHANGED <<life, clientList, waitList, leaked, sender, chain, power>>

-----------------------------------------------------------------------------
(* The power state, and the kernel's chain of PM notifiers *)

\* The notifiers in the order they were registered.  The second to come is there
\* before the next suspend.
Order ==
  CASE pmReg /\ DevmgrFirst  -> <<"devmgr", "pm">>
    [] pmReg /\ ~DevmgrFirst -> <<"pm", "devmgr">>
    [] ~pmReg /\ (DevmgrFirst \/ module \in {"ready", "released"}) -> <<"devmgr">>
    [] OTHER -> <<>>

\* One notifier returned.  HDF's errors are negative, and a negative status has
\* NOTIFY_STOP_MASK: it ends the chain, and those called before a suspend notifier
\* that failed are told PM_POST_SUSPEND.  notifier_to_errno then makes 0 of it, so
\* the kernel goes on to suspend.
Called(ok) ==
  LET n == Head(chain.todo)  rest == Tail(chain.todo)
      ended == IF chain.phase = "post" THEN "awake" ELSE "asleep"
  IN  chain' = IF ok /\ rest # <<>> THEN Chain(chain.phase, rest, Append(chain.called, n))
               ELSE IF ~ok /\ chain.phase = "prepare" /\ chain.called # <<>>
               THEN Chain("undo", chain.called, <<>>)
               ELSE Chain(ended, <<>>, <<>>)

\* The kernel starts to suspend, or resumes; without notifiers that changes nothing.
PmBegin ==
  /\ Order # <<>>
  /\ \/ chain.phase = "awake"  /\ chain' = Chain("prepare", Order, <<>>)
     \/ chain.phase = "asleep" /\ chain' = Chain("post", Order, <<>>)
  /\ UNCHANGED <<life, clientList, waits, sender, inbox, misled, power>>

\* Drivers already suspended when one fails are resumed.
DevmgrPmSuspend ==
  /\ chain.phase = "prepare"
  /\ \E ok \in BOOLEAN : Called(ok) /\ power' = IF ok THEN "SUSPEND" ELSE "RESUME"

\* Fault: the drivers are left to the other notifier.
ResumeElsewhere == chain.phase \in {"undo", "post"} /\ UNCHANGED power /\ Called(TRUE)

DevmgrPmResume == chain.phase \in {"undo", "post"} /\ power' = "RESUME" /\ Called(TRUE)

DevmgrPmNotifier ==
  /\ chain.todo # <<>> /\ Head(chain.todo) = "devmgr"
  /\ DevmgrPmSuspend \/ DevmgrPmResume
  /\ UNCHANGED <<life, clientList, waits, sender, inbox, misled>>

\* The end of a notifier call: the drivers follow whatever the clients did, unless
\* the device manager is not found.  A PowerStateChange that fails may have changed
\* some drivers.
KernalSpacePmNotify(s) ==
  /\ pc[s] = "sent" /\ pc' = [pc EXCEPT ![s] = "idle"]
  /\ \/ /\ s = "pm" /\ devmgrClnt /\ \E ok \in BOOLEAN : Called(ok)
        /\ power' = IF chain.phase = "prepare" THEN "SUSPEND" ELSE "RESUME"
     \/ s = "pm" /\ ~devmgrClnt /\ Called(FALSE) /\ UNCHANGED power
     \/ s = "fb" /\ devmgrClnt /\ power' \in {"DOZE_SUSPEND", "DOZE_RESUME"} /\ UNCHANGED chain
     \/ s = "fb" /\ ~devmgrClnt /\ UNCHANGED <<power, chain>>
     \/ s \in Callers /\ UNCHANGED <<power, chain>>
  /\ result' = [result EXCEPT ![s] = "ok"] /\ seen' = [seen EXCEPT ![s] = 0]
  /\ UNCHANGED <<life, clientList, waits, token, inbox, misled>>

SenderStep(s) ==
  \/ PrepareEvent(s) \/ Send(s) \/ Woken(s) \/ Timeout(s) \/ Unlist(s)
  \/ KernalSpacePmNotify(s)

KeNext ==
  \/ HdfKeventDriverBind \/ HdfKeventDriverInit \/ HdfKeventDriverRelease
  \/ PmBegin \/ DevmgrPmNotifier
  \/ \E c \in Clients : HdfKeventDriverOpen(c) \/ HdfKeventDriverClose(c) \/ CompleteKevent(c)
  \/ \E s \in Senders : Enter(s) \/ SenderStep(s)

KeSpec == KeInit /\ [][KeNext]_keVars

\* A thread inside the service goes on; clients need not answer.
KeFairness == \A s \in Senders : WF_keVars(SenderStep(s))

-----------------------------------------------------------------------------
(* A synchronous sender that was woken, and not by an answer to an older   *)
(* event at the same address, has been answered by every client its event  *)
(* reached and that is still open: SendKevent counts the clients under the *)
(* lock that Open takes, not where it tested the count.                    *)
WokenWhenAnswered ==
  \A s \in Senders \ misled : pc[s] = "remove" /\ result[s] # "timeout" =>
    \A c \in Clients : \A i \in DOMAIN inbox[c] :
      inbox[c][i] # [token |-> token[s], old |-> FALSE]

(* CompleteKevent walks waitList: every wait on it belongs to a sender     *)
(* still inside SendKevent, and none is freed memory.                      *)
ListedWaitsAlive ==
  waitList = {token[s] : s \in {r \in Senders : pc[r] \in {"wait", "remove"}}}

(* The suspend chain and both notifiers together: when the kernel is awake *)
(* again the drivers are not left suspended, whichever notifier was        *)
(* registered first, failed half way through or has gone since.            *)
AwakeNotSuspended == chain.phase = "awake" => power # "SUSPEND"

(* Whatever the clients do, a call of SendKevent returns: a client that    *)
(* died with an event in its inbox delays a suspend and cannot stop it.    *)
SenderReturns == \A s \in Senders : pc[s] # "idle" ~> pc[s] = "idle"
=============================================================================

------------------------------ MODULE Dispatch ------------------------------
(***************************************************************************)
(* dispatch.c: threads exchange messages through one dispatch thread.      *)
(* Each thread registers its module id and gets one end of a socketpair;   *)
(* the other end is kept in fd_array, where dispatch_thread_func finds it. *)
(*                                                                         *)
(* One action is one access to shared state (fd_array, the descriptor      *)
(* table, a socket queue), so every interleaving of the module threads     *)
(* with the dispatch thread is explored.  A call that returns without      *)
(* changing any state (an argument check, a recv timeout, a failed send of *)
(* a module thread) is a stuttering step and has no action.                *)
(***************************************************************************)
EXTENDS Integers, Sequences, FiniteSets

CONSTANTS
  Threads,                 \* the threads that use the dispatcher
  ModuleOf,                \* the module id each thread registers under
  MODULE_ID_MAIN_CONSOLE,  \* the first module id
  MODULE_ID_ALL,           \* one past the last module id; also "everyone"
  SendTo,                  \* bound: destinations dispatch_send_msg is tried with
  Fds,                     \* the descriptor numbers the process can be given
  DISPATCH_INVALID_FD,     \* the number 0: an empty slot of fd_array
  NoFd,                    \* the number -1: no descriptor
  Deleters,                \* the threads that may call dispatch_del_channel
  MayInterrupt,            \* can a signal interrupt send() three times?
  Recycle,                 \* TRUE: any number of messages, all numbered 0
  Capacity,                \* bound: packets a socket queue holds
  MaxSends                 \* bound: messages a thread sends when ~Recycle

FirstId == MODULE_ID_MAIN_CONSOLE
LastId  == MODULE_ID_ALL - 1
Modules == FirstId .. LastId

MODULE_ID_UNSPECIFIED == 0

NoThread  == "none"
NoMessage == [by |-> NoThread]

ASSUME ConstantsAssumption ==
  /\ MODULE_ID_MAIN_CONSOLE \in Nat
  /\ MODULE_ID_ALL \in Nat
  /\ MODULE_ID_MAIN_CONSOLE < MODULE_ID_ALL
  /\ ModuleOf \in [Threads -> Modules]
  /\ NoFd \notin Fds \cup {DISPATCH_INVALID_FD}
  /\ NoThread \notin Threads
  /\ Deleters \subseteq Threads
  /\ MayInterrupt \in BOOLEAN /\ Recycle \in BOOLEAN
  /\ Capacity \in Nat \ {0} /\ MaxSends \in Nat

Modes == {"SEND_RECV", "SEND_ONLY"}   \* dispatch_rs_mode_t

Dests == Modules \cup {MODULE_ID_UNSPECIFIED, MODULE_ID_ALL}

ASSUME SendToAssumption == SendTo \subseteq Dests

(* What a message says (dispatch_msg_type_t) is abstracted to its identity: *)
(* the thread it came from, the src and dest it was sent with, and its     *)
(* number among that thread's messages.                                    *)
Msg == [by : Threads, src : Dests, dest : Dests, n : 0 .. MaxSends]

(* Two packets travel: a message_t, with src and dest, towards the dispatch *)
(* thread and the bare msg towards a module thread.  The dispatch thread   *)
(* compares the size with the one it expects.                              *)
Packet == [size : {"message_t", "msg"}, msg : Msg]

VARIABLES
  fd_array,     \* FD_COLS_INDEX: the dispatch side's descriptor of a module
  mode_array,   \* MODE_COLS_INDEX: the mode a module registered with
  lock,         \* holder of dispatch_array_lock
  opened,       \* descriptors that are open
  peer,         \* the other end of a descriptor's socketpair, if still open
  inq,          \* packets waiting to be received at a descriptor
  pc,           \* where a thread is in register/del_channel; "idle" outside
  handle,       \* fd[1], the descriptor the thread was given
  fd0,          \* fd[0] while dispatch_register_channel runs
  wanted,       \* the mode the thread asked for
  nsent,        \* messages the thread has sent
  received,     \* what dispatch_recv_msg returned to the thread, in order
  dpc,          \* where the dispatch thread is
  i, j,         \* its loop counters: modules served, modules addressed
  read_fds,     \* its fd_set
  dispatch_fd,  \* the descriptor it last read from fd_array
  message,      \* what it is transferring
  info,         \* dispatch_fd_info_t: descriptors still to send to
  count         \* dispatch_send's tries that a signal has interrupted

slots     == <<fd_array, mode_array, lock>>
kernel    == <<opened, peer, inq>>
thread    == <<pc, handle, fd0, wanted, nsent, received>>
dispatch  == <<dpc, i, j, read_fds, dispatch_fd, message, info, count>>
vars      == <<slots, kernel, thread, dispatch>>

Init ==
  /\ fd_array = [m \in Modules |-> DISPATCH_INVALID_FD]
  /\ mode_array = [m \in Modules |-> "SEND_RECV"]
  /\ lock = NoThread
  /\ opened = {}
  /\ peer = [f \in Fds |-> NoFd]
  /\ inq = [f \in Fds |-> <<>>]
  /\ pc = [t \in Threads |-> "idle"]
  /\ handle = [t \in Threads |-> NoFd]
  /\ fd0 = [t \in Threads |-> NoFd]
  /\ wanted = [t \in Threads |-> "SEND_RECV"]
  /\ nsent = [t \in Threads |-> 0]
  /\ received = [t \in Threads |-> <<>>]
  /\ dpc = "build" /\ i = FirstId /\ j = FirstId
  /\ read_fds = {} /\ dispatch_fd = NoFd
  /\ message = NoMessage /\ info = <<>> /\ count = 0

-----------------------------------------------------------------------------
(* The kernel's part: descriptors and AF_UNIX SOCK_SEQPACKET socketpairs.  *)

(* close(f): what was waiting at f is lost; the peer sees the end of file. *)
Close(f) ==
  /\ opened' = opened \ {f}
  /\ peer' = [g \in Fds |-> IF g = f \/ peer[g] = f THEN NoFd ELSE peer[g]]
  /\ inq' = [inq EXCEPT ![f] = <<>>]

(* select() reports data and end of file alike.                            *)
Readable(f) == f \in opened /\ (inq[f] # <<>> \/ peer[f] = NoFd)

(* send(f) can succeed: EBADF, EPIPE and EAGAIN otherwise.                 *)
CanSend(f) == /\ f \in opened
              /\ peer[f] # NoFd
              /\ Len(inq[peer[f]]) < Capacity

Enqueue(f, packet) == inq' = [inq EXCEPT ![peer[f]] = Append(@, packet)]

-----------------------------------------------------------------------------
(* dispatch_register_channel.  Any two free numbers can come out of        *)
(* socketpair: other parts of the process open and close files too.        *)

(* The slot is examined without the lock, then the pair is made.           *)
RegisterOpen(t, mode) ==
  /\ pc[t] = "idle" /\ handle[t] = NoFd
  /\ fd_array[ModuleOf[t]] = DISPATCH_INVALID_FD
  /\ \E f, g \in Fds \ opened :
       /\ f # g
       /\ opened' = opened \cup {f, g}
       /\ peer' = [peer EXCEPT ![f] = g, ![g] = f]
       /\ fd0' = [fd0 EXCEPT ![t] = f]
       /\ handle' = [handle EXCEPT ![t] = g]
  /\ wanted' = [wanted EXCEPT ![t] = mode]
  /\ pc' = [pc EXCEPT ![t] = "store"]
  /\ UNCHANGED <<slots, inq, nsent, received, dispatch>>

(* Mutant of RegisterStore: the two ends of the pair are exchanged.        *)
RegisterStoreOwnEnd(t) ==
  /\ pc[t] = "store"
  /\ lock = NoThread
  /\ lock' = t
  /\ fd_array' = [fd_array EXCEPT ![ModuleOf[t]] = handle[t]]
  /\ pc' = [pc EXCEPT ![t] = "mode"]
  /\ UNCHANGED <<mode_array, kernel, handle, fd0, wanted, nsent, received,
                 dispatch>>

(* pthread_mutex_lock, then the first of the two assignments.              *)
RegisterStore(t) ==
  /\ pc[t] = "store"
  /\ lock = NoThread
  /\ lock' = t
  /\ fd_array' = [fd_array EXCEPT ![ModuleOf[t]] = fd0[t]]
  /\ pc' = [pc EXCEPT ![t] = "mode"]
  /\ UNCHANGED <<mode_array, kernel, handle, fd0, wanted, nsent, received,
                 dispatch>>

(* The second assignment, unlock, and return fd[1].                        *)
RegisterMode(t) ==
  /\ pc[t] = "mode"
  /\ mode_array' = [mode_array EXCEPT ![ModuleOf[t]] = wanted[t]]
  /\ lock' = NoThread
  /\ fd0' = [fd0 EXCEPT ![t] = NoFd]
  /\ pc' = [pc EXCEPT ![t] = "idle"]
  /\ UNCHANGED <<fd_array, kernel, handle, wanted, nsent, received, dispatch>>

-----------------------------------------------------------------------------
(* dispatch_del_channel, called by a thread with the descriptor it holds.  *)

(* Under the lock, close the dispatch side if there is one.                *)
DeleteClose(t) ==
  /\ t \in Deleters
  /\ pc[t] = "idle" /\ handle[t] # NoFd
  /\ lock = NoThread
  /\ \/ /\ fd_array[ModuleOf[t]] # DISPATCH_INVALID_FD
        /\ Close(fd_array[ModuleOf[t]])
        /\ lock' = t
        /\ pc' = [pc EXCEPT ![t] = "clear"]
     \/ /\ fd_array[ModuleOf[t]] = DISPATCH_INVALID_FD
        /\ pc' = [pc EXCEPT ![t] = "close"]
        /\ UNCHANGED <<lock, kernel>>
  /\ UNCHANGED <<fd_array, mode_array, handle, fd0, wanted, nsent, received,
                 dispatch>>

(* Mutant of DeleteClear: the slot keeps the number that was closed.       *)
DeleteClearModeOnly(t) ==
  /\ pc[t] = "clear"
  /\ mode_array' = [mode_array EXCEPT ![ModuleOf[t]] = "SEND_RECV"]
  /\ lock' = NoThread
  /\ pc' = [pc EXCEPT ![t] = "close"]
  /\ UNCHANGED <<fd_array, kernel, handle, fd0, wanted, nsent, received,
                 dispatch>>

(* Reset the slot and unlock.                                              *)
DeleteClear(t) ==
  /\ pc[t] = "clear"
  /\ fd_array' = [fd_array EXCEPT ![ModuleOf[t]] = DISPATCH_INVALID_FD]
  /\ mode_array' = [mode_array EXCEPT ![ModuleOf[t]] = "SEND_RECV"]
  /\ lock' = NoThread
  /\ pc' = [pc EXCEPT ![t] = "close"]
  /\ UNCHANGED <<kernel, handle, fd0, wanted, nsent, received, dispatch>>

(* Mutant of DeleteOwn: the thread's own end is forgotten, not closed.     *)
DeleteOwnUnclosed(t) ==
  /\ pc[t] = "close"
  /\ handle' = [handle EXCEPT ![t] = NoFd]
  /\ pc' = [pc EXCEPT ![t] = "idle"]
  /\ UNCHANGED <<slots, kernel, fd0, wanted, nsent, received, dispatch>>

(* close(fd), only if fd > 0.                                              *)
DeleteOwn(t) ==
  /\ pc[t] = "close"
  /\ IF handle[t] # DISPATCH_INVALID_FD THEN Close(handle[t])
                                        ELSE UNCHANGED kernel
  /\ handle' = [handle EXCEPT ![t] = NoFd]
  /\ pc' = [pc EXCEPT ![t] = "idle"]
  /\ UNCHANGED <<slots, fd0, wanted, nsent, received, dispatch>>

-----------------------------------------------------------------------------
(* The calls of a registered thread.                                       *)

(* dispatch_send: the message_t is queued towards the dispatch thread.     *)
Send(t, src, dest) ==
  LET n == IF Recycle THEN 0 ELSE nsent[t] + 1 IN
  /\ pc[t] = "idle" /\ handle[t] # NoFd
  /\ n <= MaxSends
  /\ CanSend(handle[t])
  /\ Enqueue(handle[t],
             [size |-> "message_t",
              msg |-> [by |-> t, src |-> src, dest |-> dest, n |-> n]])
  /\ nsent' = [nsent EXCEPT ![t] = n]
  /\ UNCHANGED <<slots, opened, peer, pc, handle, fd0, wanted, received,
                 dispatch>>

(* dispatch_send_msg does not say who sends.                               *)
SendMsg(t, dest) == Send(t, MODULE_ID_UNSPECIFIED, dest)

(* dispatch_send_multimsg names the sender, to be left out.                *)
SendMultiMsg(t) == Send(t, ModuleOf[t], MODULE_ID_ALL)

(* dispatch_recv_msg asks for the bytes of a msg.  Of a longer packet recv *)
(* cuts off the rest, and what is left passes for a message all the same.  *)
RecvMsg(t) ==
  /\ pc[t] = "idle" /\ handle[t] \in opened
  /\ inq[handle[t]] # <<>>
  /\ received' = IF Recycle THEN received
                 ELSE [received EXCEPT ![t] = Append(@, Head(inq[handle[t]]).msg)]
  /\ inq' = [inq EXCEPT ![handle[t]] = Tail(@)]
  /\ UNCHANGED <<slots, opened, peer, pc, handle, fd0, wanted, nsent, dispatch>>

-----------------------------------------------------------------------------
(* dispatch_thread_func.  It takes no lock: every read of fd_array is a    *)
(* step of its own, and the numbers it read may be stale when it uses them. *)

(* Mutant of Advance: a round serves one message, then begins again.       *)
AdvanceOnce ==
  /\ message' = NoMessage /\ info' = <<>> /\ dispatch_fd' = NoFd
  /\ j' = FirstId /\ count' = 0
  /\ IF i < LastId /\ message = NoMessage
     THEN i' = i + 1 /\ dpc' = "scan" /\ UNCHANGED read_fds
     ELSE i' = FirstId /\ dpc' = "build" /\ read_fds' = {}

(* Mutant of Advance: the loop runs on to MODULE_ID_ALL.                   *)
AdvancePast ==
  /\ message' = NoMessage /\ info' = <<>> /\ dispatch_fd' = NoFd
  /\ j' = FirstId /\ count' = 0
  /\ IF i < MODULE_ID_ALL
     THEN i' = i + 1 /\ dpc' = "scan" /\ UNCHANGED read_fds
     ELSE i' = FirstId /\ dpc' = "build" /\ read_fds' = {}

(* The loops' "continue": serve the next module or start a new round.      *)
Advance ==
  /\ message' = NoMessage /\ info' = <<>> /\ dispatch_fd' = NoFd
  /\ j' = FirstId /\ count' = 0
  /\ IF i < LastId
     THEN i' = i + 1 /\ dpc' = "scan" /\ UNCHANGED read_fds
     ELSE i' = FirstId /\ dpc' = "build" /\ read_fds' = {}

(* Mutant of BuildFdSets: the last module is left out of the set.          *)
BuildFdSetsShort ==
  LET fds == IF fd_array[i] # DISPATCH_INVALID_FD /\ i < LastId
             THEN read_fds \cup {fd_array[i]} ELSE read_fds
  IN /\ dpc = "build"
     /\ read_fds' = fds
     /\ IF i < LastId
        THEN i' = i + 1 /\ UNCHANGED dpc
        ELSE i' = FirstId /\ dpc' = IF fds = {} THEN "build" ELSE "select"
     /\ UNCHANGED <<slots, kernel, thread, j, dispatch_fd, message, info, count>>

(* build_fd_sets, one module at a time; a round without any channel sleeps *)
(* and starts over.                                                        *)
BuildFdSets ==
  LET fds == IF fd_array[i] # DISPATCH_INVALID_FD
             THEN read_fds \cup {fd_array[i]} ELSE read_fds
  IN /\ dpc = "build"
     /\ read_fds' = fds
     /\ IF i < LastId
        THEN i' = i + 1 /\ UNCHANGED dpc
        ELSE i' = FirstId /\ dpc' = IF fds = {} THEN "build" ELSE "select"
     /\ UNCHANGED <<slots, kernel, thread, j, dispatch_fd, message, info, count>>

(* select: some descriptors are readable, or a timeout, or EBADF because   *)
(* one of them has been closed.                                            *)
Select ==
  LET ready == {f \in read_fds : Readable(f)} IN
  /\ dpc = "select"
  /\ IF read_fds \subseteq opened /\ ready # {}
     THEN dpc' = "scan" /\ read_fds' = ready
     ELSE dpc' = "build" /\ read_fds' = {}
  /\ UNCHANGED <<slots, kernel, thread, i, j, dispatch_fd, message, info, count>>

(* Read the slot again; FD_ISSET only knows the number.                    *)
ReadSlot ==
  /\ dpc = "scan"
  /\ IF fd_array[i] # DISPATCH_INVALID_FD /\ fd_array[i] \in read_fds
     THEN /\ dispatch_fd' = fd_array[i] /\ dpc' = "recv"
          /\ UNCHANGED <<i, j, read_fds, message, info, count>>
     ELSE Advance
  /\ UNCHANGED <<slots, kernel, thread>>

(* recv without waiting; only a whole message_t is transferred.            *)
Recv ==
  /\ dpc = "recv"
  /\ IF dispatch_fd \in opened /\ inq[dispatch_fd] # <<>>
     THEN LET packet == Head(inq[dispatch_fd]) IN
          /\ inq' = [inq EXCEPT ![dispatch_fd] = Tail(@)]
          /\ IF packet.size = "message_t"
             THEN /\ message' = packet.msg /\ dpc' = "route"
                  /\ UNCHANGED <<i, j, read_fds, dispatch_fd, info, count>>
             ELSE Advance
     ELSE Advance /\ UNCHANGED inq
  /\ UNCHANGED <<slots, opened, peer, thread>>

(* dispatch_get_fd for one module.                                         *)
RouteOne ==
  /\ dpc = "route" /\ message.dest # MODULE_ID_ALL
  /\ IF /\ message.dest \in Modules
        /\ fd_array[message.dest] # DISPATCH_INVALID_FD
     THEN /\ info' = <<fd_array[message.dest]>> /\ dpc' = "xmit"
          /\ UNCHANGED <<i, j, read_fds, dispatch_fd, message, count>>
     ELSE Advance
  /\ UNCHANGED <<slots, kernel, thread>>

(* dispatch_get_fd for everyone: the end of one turn of its loop.          *)
NextAddressee(fds) ==
  IF j < LastId
  THEN /\ j' = j + 1 /\ info' = fds /\ dpc' = "route"
       /\ UNCHANGED <<i, read_fds, dispatch_fd, message, count>>
  ELSE IF fds = <<>> THEN Advance
  ELSE /\ j' = FirstId /\ info' = fds /\ dpc' = "xmit"
       /\ UNCHANGED <<i, read_fds, dispatch_fd, message, count>>

(* Mutant of RouteAllFd: a broadcast goes back to its source.              *)
RouteAllFdToSource ==
  /\ dpc = "route" /\ message.dest = MODULE_ID_ALL
  /\ IF fd_array[j] # DISPATCH_INVALID_FD
     THEN /\ dispatch_fd' = fd_array[j] /\ dpc' = "mode"
          /\ UNCHANGED <<i, j, read_fds, message, info, count>>
     ELSE NextAddressee(info)
  /\ UNCHANGED <<slots, kernel, thread>>

(* The descriptor is read first: an empty slot and the source are skipped. *)
RouteAllFd ==
  /\ dpc = "route" /\ message.dest = MODULE_ID_ALL
  /\ IF fd_array[j] # DISPATCH_INVALID_FD /\ j # message.src
     THEN /\ dispatch_fd' = fd_array[j] /\ dpc' = "mode"
          /\ UNCHANGED <<i, j, read_fds, message, info, count>>
     ELSE NextAddressee(info)
  /\ UNCHANGED <<slots, kernel, thread>>

(* The mode is read after it, in a second access.                          *)
RouteAllMode ==
  /\ dpc = "mode"
  /\ NextAddressee(IF mode_array[j] = "SEND_RECV"
                   THEN Append(info, dispatch_fd) ELSE info)
  /\ UNCHANGED <<slots, kernel, thread>>

(* dispatch_transfer_msg goes on to the next descriptor of info.           *)
NextFd == IF Len(info) > 1
          THEN /\ info' = Tail(info) /\ count' = 0
               /\ UNCHANGED <<dpc, i, j, read_fds, dispatch_fd, message>>
          ELSE Advance

(* A signal interrupts send: three times and the descriptor is given up.   *)
Interrupted ==
  /\ MayInterrupt
  /\ IF count + 1 < 3
     THEN /\ count' = count + 1
          /\ UNCHANGED <<dpc, i, j, read_fds, dispatch_fd, message, info>>
     ELSE NextFd

(* Mutant of Transmit: errno alone is looked at after send, and holds the  *)
(* EINTR of an earlier try, so what has been sent is sent again.           *)
TransmitAgain ==
  /\ dpc = "xmit"
  /\ \/ /\ CanSend(Head(info))
        /\ Enqueue(Head(info), [size |-> "msg", msg |-> message])
        /\ IF count > 0 THEN Interrupted ELSE NextFd
     \/ /\ ~CanSend(Head(info))
        /\ NextFd
        /\ UNCHANGED inq
     \/ Interrupted /\ UNCHANGED inq
  /\ UNCHANGED <<slots, opened, peer, thread>>

(* One try of dispatch_send on the next descriptor of info: it sends; or   *)
(* fails, and the message is dropped for this descriptor; or is interrupted *)
(* and, after a pause in which the descriptor may change, tried again.     *)
Transmit ==
  /\ dpc = "xmit"
  /\ \/ /\ CanSend(Head(info))
        /\ Enqueue(Head(info), [size |-> "msg", msg |-> message])
        /\ NextFd
     \/ /\ ~CanSend(Head(info))
        /\ NextFd
        /\ UNCHANGED inq
     \/ Interrupted /\ UNCHANGED inq
  /\ UNCHANGED <<slots, opened, peer, thread>>

-----------------------------------------------------------------------------
Register(t) == \/ \E mode \in Modes : RegisterOpen(t, mode)
               \/ RegisterStore(t)
               \/ RegisterMode(t)

Delete(t) == DeleteClose(t) \/ DeleteClear(t) \/ DeleteOwn(t)

Exchange(t) == \/ \E dest \in SendTo : SendMsg(t, dest)
               \/ SendMultiMsg(t)
               \/ RecvMsg(t)

DispatchThread == \/ BuildFdSets \/ Select \/ ReadSlot \/ Recv
                  \/ RouteOne \/ RouteAllFd \/ RouteAllMode \/ Transmit

Next == \/ \E t \in Threads : Register(t) \/ Delete(t) \/ Exchange(t)
        \/ DispatchThread

Spec == Init /\ [][Next]_vars

(* The dispatch thread loops for ever, a thread finishes the registration  *)
(* it has begun, and module threads keep calling dispatch_recv_msg.        *)
Fairness ==
  /\ WF_vars(DispatchThread)
  /\ \A t \in Threads : /\ WF_vars(RegisterStore(t)) /\ WF_vars(RegisterMode(t))
                        /\ WF_vars(RecvMsg(t))

FairSpec == Spec /\ Fairness

-----------------------------------------------------------------------------
(* Properties.                                                             *)

Registered(t)  == pc[t] = "idle" /\ handle[t] # NoFd
DispatchEnd(t) == fd_array[ModuleOf[t]]
Inbox(t)       == IF handle[t] = NoFd THEN <<>> ELSE inq[handle[t]]
Outbox(t)      == IF Registered(t) /\ DispatchEnd(t) \in Fds
                  THEN inq[DispatchEnd(t)] ELSE <<>>

(* What has reached a thread: returned by dispatch_recv_msg, then waiting. *)
Seen(t) == received[t] \o [k \in DOMAIN Inbox(t) |-> Inbox(t)[k].msg]

(* Type invariant of the registration and routing state (dispatch.c).      *)
TypeOK ==
  /\ fd_array \in [Modules -> Fds \cup {DISPATCH_INVALID_FD}]
  /\ mode_array \in [Modules -> Modes]
  /\ lock \in Threads \cup {NoThread}
  /\ opened \subseteq Fds
  /\ peer \in [Fds -> Fds \cup {NoFd}]
  /\ inq \in [Fds -> Seq(Packet)] /\ \A f \in Fds : Len(inq[f]) <= Capacity
  /\ pc \in [Threads -> {"idle", "store", "mode", "clear", "close"}]
  /\ handle \in [Threads -> Fds \cup {NoFd}]
  /\ fd0 \in [Threads -> Fds \cup {NoFd}]
  /\ wanted \in [Threads -> Modes]
  /\ nsent \in [Threads -> 0 .. MaxSends]
  /\ received \in [Threads -> Seq(Msg)]
  /\ dpc \in {"build", "select", "scan", "recv", "route", "mode", "xmit"}
  /\ i \in Modules /\ j \in Modules
  /\ read_fds \subseteq Fds
  /\ dispatch_fd \in Fds \cup {NoFd}
  /\ message \in Msg \cup {NoMessage}
  /\ info \in Seq(Fds)
  /\ count \in 0 .. 2

(* Every thread that holds a channel has it served: both ends are open,    *)
(* fd_array names the end that is connected to the thread's, whatever      *)
(* other threads register and delete and whatever numbers the kernel gives *)
(* out again (dispatch_register_channel, dispatch_del_channel).            *)
ChannelServed ==
  \A t \in Threads : Registered(t) =>
     /\ {handle[t], DispatchEnd(t)} \subseteq opened
     /\ peer[handle[t]] = DispatchEnd(t)
     /\ peer[DispatchEnd(t)] = handle[t]

(* No two modules share a dispatch side descriptor, and a slot names a     *)
(* closed one only while dispatch_del_channel holds the lock: whoever      *)
(* takes the lock sees live descriptors only.                              *)
SlotsLive ==
  /\ \A m, k \in Modules :
       fd_array[m] = fd_array[k] => m = k \/ fd_array[m] = DISPATCH_INVALID_FD
  /\ lock = NoThread =>
       \A m \in Modules : fd_array[m] \in opened \cup {DISPATCH_INVALID_FD}

(* Registering and deleting leak no descriptor: an open one is a thread's, *)
(* or a slot's, or on its way into a slot.                                 *)
NoLeak ==
  opened \subseteq {handle[t] : t \in Threads} \cup {fd0[t] : t \in Threads}
                   \cup {fd_array[m] : m \in Modules}

(* Point to point messages reach their destination only, and a             *)
(* dispatch_send_multimsg never comes back to the module that sent it      *)
(* (dispatch_get_fd).                                                      *)
OnlyAddressed ==
  \A t \in Threads : \A k \in DOMAIN Seen(t) :
     LET m == Seen(t)[k] IN
     m.dest = ModuleOf[t] \/ (m.dest = MODULE_ID_ALL /\ m.src # ModuleOf[t])

(* A thread sees the messages of one sender, unicast or broadcast, in the  *)
(* order they were sent and each at most once (dispatch_thread_func).      *)
FifoPerSender ==
  \A t \in Threads : \A k, l \in DOMAIN Seen(t) :
     k < l /\ Seen(t)[k].by = Seen(t)[l].by => Seen(t)[k].n < Seen(t)[l].n

(* A module registered as SEND_ONLY is sent no broadcast (the comment in   *)
(* dispatch_get_fd: only modules registered as receivers are addressed).   *)
SendOnlyGetsNoBroadcast ==
  \A t \in Threads : \A k \in DOMAIN Seen(t) :
     wanted[t] = "SEND_ONLY" => Seen(t)[k].dest # MODULE_ID_ALL

(* A message queued towards the dispatch thread for a module that is       *)
(* registered to receive it is at last returned by that module's           *)
(* dispatch_recv_msg (dispatch_thread_func, dispatch_transfer_msg).        *)
Awaits(t, u, n) ==
  /\ Registered(u)
  /\ \E k \in DOMAIN Outbox(t) :
       LET m == Outbox(t)[k].msg IN
       /\ m.n = n
       /\ \/ m.dest = ModuleOf[u]
          \/ /\ m.dest = MODULE_ID_ALL /\ m.src # ModuleOf[u]
             /\ wanted[u] = "SEND_RECV"

Delivered ==
  \A t, u \in Threads, n \in 1 .. MaxSends :
     Awaits(t, u, n) ~> \E k \in DOMAIN received[u] :
                          received[u][k].by = t /\ received[u][k].n = n

(* No registered module is starved by the traffic of the others: a channel *)
(* that is full gets room again (the round of dispatch_thread_func).       *)
FullChannelDrains ==
  \A t \in Threads :
     (Registered(t) /\ ~CanSend(handle[t])) ~> CanSend(handle[t])
=============================================================================

--------------------------- MODULE DispatchProofs ---------------------------
(***************************************************************************)
(* Theorems about Dispatch, for any number of threads, modules and         *)
(* descriptors: type correctness; that registering and deleting keep every *)
(* channel served, every slot live and no descriptor leaked; and that      *)
(* messages reach the modules they are addressed to, in the sender's order,*)
(* as long as no channel is deleted.                                       *)
(***************************************************************************)
EXTENDS Dispatch, TLAPS

-----------------------------------------------------------------------------
(* Type correctness.  The type invariant is inductive only with what each  *)
(* control point knows of the variables it is about to use.                *)

ThreadTypes ==
  \A t \in Threads :
    /\ pc[t] = "store" => fd0[t] \in Fds /\ handle[t] \in Fds
    /\ pc[t] \in {"clear", "close"} => handle[t] \in Fds

DispatchTypes ==
  /\ dpc \in {"route", "mode", "xmit"} => message \in Msg
  /\ dpc \in {"recv", "mode"} => dispatch_fd \in Fds
  /\ dpc = "xmit" => info # <<>>

TypeInv == TypeOK /\ ThreadTypes /\ DispatchTypes

(* The queue operations keep queues of packets within their bound.         *)
QueueType == inq \in [Fds -> Seq(Packet)] /\ \A f \in Fds : Len(inq[f]) <= Capacity

(* A send that fits keeps the queues within Capacity.                      *)
LEMMA EnqueueType ==
  ASSUME TypeInv, NEW f \in Fds, CanSend(f), NEW packet \in Packet, Enqueue(f, packet)
  PROVE  QueueType'
<1>1. /\ peer[f] \in Fds /\ inq[peer[f]] \in Seq(Packet)
      /\ Len(inq[peer[f]]) < Capacity
  BY ConstantsAssumption DEF TypeInv, TypeOK, CanSend
<1>2. /\ Append(inq[peer[f]], packet) \in Seq(Packet)
      /\ Len(Append(inq[peer[f]], packet)) = Len(inq[peer[f]]) + 1
      /\ Len(inq[peer[f]]) \in Nat
  BY <1>1
<1>3. inq' = [inq EXCEPT ![peer[f]] = Append(inq[peer[f]], packet)]
  BY DEF Enqueue
<1>4. inq' \in [Fds -> Seq(Packet)]
  BY <1>2, <1>3 DEF TypeInv, TypeOK
<1>5. \A g \in Fds : Len(inq'[g]) <= Capacity
  BY <1>1, <1>2, <1>3, ConstantsAssumption DEF TypeInv, TypeOK
<1> QED BY <1>4, <1>5 DEF QueueType

(* Taking a packet off a queue gives a packet and leaves typed queues.     *)
LEMMA DequeueType ==
  ASSUME TypeInv, NEW f \in Fds, inq[f] # <<>>, inq' = [inq EXCEPT ![f] = Tail(@)]
  PROVE  QueueType' /\ Head(inq[f]) \in Packet
<1>1. inq[f] \in Seq(Packet) /\ Len(inq[f]) <= Capacity
  BY DEF TypeInv, TypeOK
<1>2. /\ Head(inq[f]) \in Packet
      /\ Tail(inq[f]) \in Seq(Packet)
      /\ Len(Tail(inq[f])) = Len(inq[f]) - 1
      /\ Len(inq[f]) \in Nat
  BY <1>1
<1>3. inq' \in [Fds -> Seq(Packet)]
  BY <1>2 DEF TypeInv, TypeOK
<1>4. \A g \in Fds : Len(inq'[g]) <= Capacity
  BY <1>1, <1>2, ConstantsAssumption DEF TypeInv, TypeOK
<1> QED BY <1>2, <1>3, <1>4 DEF QueueType

(* close() keeps the kernel's tables typed, whatever it is given.          *)
LEMMA CloseType ==
  ASSUME TypeInv, NEW f, Close(f)
  PROVE  QueueType' /\ opened' \subseteq Fds /\ peer' \in [Fds -> Fds \cup {NoFd}]
<1>1. <<>> \in Seq(Packet) /\ Len(<<>>) = 0
  OBVIOUS
<1>2. inq' \in [Fds -> Seq(Packet)]
  BY <1>1 DEF TypeInv, TypeOK, Close
<1>3. \A g \in Fds : Len(inq'[g]) <= Capacity
  BY <1>1, ConstantsAssumption DEF TypeInv, TypeOK, Close
<1>4. opened' \subseteq Fds /\ peer' \in [Fds -> Fds \cup {NoFd}]
  BY DEF TypeInv, TypeOK, Close
<1> QED BY <1>2, <1>3, <1>4 DEF QueueType

(* The types of the dispatch thread's variables.                           *)
DispatchVarsType ==
  /\ dpc \in {"build", "select", "scan", "recv", "route", "mode", "xmit"}
  /\ i \in Modules /\ j \in Modules
  /\ read_fds \subseteq Fds
  /\ dispatch_fd \in Fds \cup {NoFd}
  /\ message \in Msg \cup {NoMessage}
  /\ info \in Seq(Fds)
  /\ count \in 0 .. 2

(* The dispatch thread's loop counters stay among the module ids.          *)
LEMMA ModulesAreNumbers ==
  /\ FirstId \in Modules
  /\ \A m \in Modules : m < LastId => m + 1 \in Modules
BY ConstantsAssumption DEF FirstId, LastId, Modules

(* Ending a turn of the dispatch thread's loop leaves its variables typed. *)
LEMMA AdvanceType ==
  ASSUME TypeInv, Advance
  PROVE  DispatchVarsType' /\ DispatchTypes'
<1>1. i' \in Modules /\ j' \in Modules
  BY ModulesAreNumbers DEF Advance, TypeInv, TypeOK
<1>2. read_fds' \subseteq Fds /\ dpc' \in {"scan", "build"}
  BY DEF Advance, TypeInv, TypeOK
<1>3. /\ message' = NoMessage /\ dispatch_fd' = NoFd
      /\ info' \in Seq(Fds) /\ count' \in 0 .. 2
  BY DEF Advance
<1> QED BY <1>1, <1>2, <1>3 DEF DispatchVarsType, DispatchTypes

(* So does the end of a turn of the loop in dispatch_get_fd.               *)
LEMMA NextAddresseeType ==
  ASSUME TypeInv, message \in Msg, NEW fds \in Seq(Fds), NextAddressee(fds)
  PROVE  DispatchVarsType' /\ DispatchTypes'
<1>1. CASE Advance
  BY <1>1, AdvanceType
<1>2. CASE ~Advance
  <2>1. /\ j' \in Modules /\ i' \in Modules
        /\ info' = fds /\ message' = message /\ dispatch_fd' = dispatch_fd
        /\ read_fds' = read_fds /\ count' = count
    BY <1>2, ModulesAreNumbers DEF NextAddressee, TypeInv, TypeOK
  <2>2. dpc' = "route" \/ (dpc' = "xmit" /\ fds # <<>>)
    BY <1>2 DEF NextAddressee
  <2> QED BY <2>1, <2>2 DEF DispatchVarsType, DispatchTypes, TypeInv, TypeOK
<1> QED BY <1>1, <1>2

-----------------------------------------------------------------------------
(* The other groups of variables, and the steps that leave a group alone.  *)

SlotsType ==
  /\ fd_array \in [Modules -> Fds \cup {DISPATCH_INVALID_FD}]
  /\ mode_array \in [Modules -> Modes]
  /\ lock \in Threads \cup {NoThread}

KernelType == QueueType /\ opened \subseteq Fds /\ peer \in [Fds -> Fds \cup {NoFd}]

ThreadVarsType ==
  /\ pc \in [Threads -> {"idle", "store", "mode", "clear", "close"}]
  /\ handle \in [Threads -> Fds \cup {NoFd}]
  /\ fd0 \in [Threads -> Fds \cup {NoFd}]
  /\ wanted \in [Threads -> Modes]
  /\ nsent \in [Threads -> 0 .. MaxSends]
  /\ received \in [Threads -> Seq(Msg)]

(* The type invariant, group by group ...                                  *)
LEMMA TypeInvParts ==
  TypeInv <=> /\ SlotsType /\ KernelType /\ ThreadVarsType /\ ThreadTypes
              /\ DispatchVarsType /\ DispatchTypes
BY DEF TypeInv, TypeOK, SlotsType, KernelType, QueueType, ThreadVarsType,
       DispatchVarsType

(* ... and in the next state.                                              *)
LEMMA TypeInvNext ==
  /\ SlotsType' /\ KernelType' /\ ThreadVarsType' /\ ThreadTypes'
  /\ DispatchVarsType' /\ DispatchTypes'
  => TypeInv'
BY DEF TypeInv, TypeOK, SlotsType, KernelType, QueueType, ThreadVarsType,
       DispatchVarsType

(* A step that leaves a group of variables alone keeps its types.          *)
LEMMA UnchangedTypes ==
  ASSUME TypeInv
  PROVE  /\ UNCHANGED slots => SlotsType'
         /\ UNCHANGED kernel => KernelType'
         /\ UNCHANGED thread => ThreadVarsType' /\ ThreadTypes'
         /\ UNCHANGED dispatch => DispatchVarsType' /\ DispatchTypes'
<1>1. UNCHANGED slots => SlotsType'
  BY TypeInvParts DEF SlotsType, slots
<1>2. UNCHANGED kernel => KernelType'
  BY TypeInvParts DEF KernelType, QueueType, kernel
<1>3. UNCHANGED thread => ThreadVarsType' /\ ThreadTypes'
  BY TypeInvParts DEF ThreadVarsType, ThreadTypes, thread
<1>4. UNCHANGED dispatch => DispatchVarsType' /\ DispatchTypes'
  BY TypeInvParts DEF DispatchVarsType, DispatchTypes, dispatch
<1> QED BY <1>1, <1>2, <1>3, <1>4

(* The program starts well typed.                                          *)
LEMMA InitType == Init => TypeInv
<1> SUFFICES ASSUME Init PROVE TypeInv
  OBVIOUS
<1>1. SlotsType /\ ThreadVarsType /\ ThreadTypes
  <2>1. /\ 0 \in 0 .. MaxSends /\ <<>> \in Seq(Msg)
        /\ "SEND_RECV" \in Modes
    BY ConstantsAssumption DEF Modes
  <2> QED BY <2>1 DEF Init, SlotsType, ThreadVarsType, ThreadTypes
<1>2. KernelType
  <2>1. <<>> \in Seq(Packet) /\ Len(<<>>) = 0
    OBVIOUS
  <2> QED BY <2>1, ConstantsAssumption DEF Init, KernelType, QueueType
<1>3. DispatchVarsType /\ DispatchTypes
  <2>1. info \in Seq(Fds)
    BY DEF Init
  <2> QED BY <2>1, ModulesAreNumbers DEF Init, DispatchVarsType, DispatchTypes
<1> QED BY <1>1, <1>2, <1>3, TypeInvParts

-----------------------------------------------------------------------------
(* One lemma per kind of step.                                             *)

(* dispatch_register_channel keeps the types. *)
LEMMA RegisterType ==
  ASSUME TypeInv, NEW t \in Threads, Register(t)
  PROVE  TypeInv'
<1>0. ModuleOf[t] \in Modules
  BY ConstantsAssumption
<1>1. CASE \E mode \in Modes : RegisterOpen(t, mode)
  <2>1. PICK mode \in Modes : RegisterOpen(t, mode)
    BY <1>1
  <2>2. PICK f \in Fds \ opened, g \in Fds \ opened :
          /\ opened' = opened \cup {f, g}
          /\ peer' = [peer EXCEPT ![f] = g, ![g] = f]
          /\ fd0' = [fd0 EXCEPT ![t] = f]
          /\ handle' = [handle EXCEPT ![t] = g]
    BY <2>1 DEF RegisterOpen
  <2>3. KernelType'
    BY <2>1, <2>2, TypeInvParts DEF RegisterOpen, KernelType, QueueType
  <2>4. ThreadVarsType' /\ ThreadTypes'
    BY <2>1, <2>2, TypeInvParts DEF RegisterOpen, ThreadVarsType, ThreadTypes
  <2> QED BY <2>1, <2>3, <2>4, UnchangedTypes, TypeInvNext DEF RegisterOpen
<1>2. CASE RegisterStore(t)
  <2>1. fd0[t] \in Fds /\ handle[t] \in Fds
    BY <1>2, TypeInvParts DEF RegisterStore, ThreadTypes
  <2>2. SlotsType'
    BY <1>0, <1>2, <2>1, TypeInvParts DEF RegisterStore, SlotsType
  <2>3. ThreadVarsType' /\ ThreadTypes'
    BY <1>2, TypeInvParts DEF RegisterStore, ThreadVarsType, ThreadTypes
  <2> QED BY <1>2, <2>2, <2>3, UnchangedTypes, TypeInvNext DEF RegisterStore
<1>3. CASE RegisterMode(t)
  <2>1. SlotsType'
    BY <1>0, <1>3, TypeInvParts DEF RegisterMode, SlotsType, ThreadVarsType
  <2>2. ThreadVarsType' /\ ThreadTypes'
    BY <1>3, TypeInvParts DEF RegisterMode, ThreadVarsType, ThreadTypes
  <2> QED BY <1>3, <2>1, <2>2, UnchangedTypes, TypeInvNext DEF RegisterMode
<1> QED BY <1>1, <1>2, <1>3 DEF Register

(* dispatch_del_channel keeps the types.                                   *)
LEMMA DeleteType ==
  ASSUME TypeInv, NEW t \in Threads, Delete(t)
  PROVE  TypeInv'
<1>0. ModuleOf[t] \in Modules
  BY ConstantsAssumption
<1>1. CASE DeleteClose(t)
  <2>1. KernelType'
    BY <1>1, CloseType, TypeInvParts, UnchangedTypes DEF DeleteClose, KernelType
  <2>2. SlotsType'
    BY <1>1, TypeInvParts DEF DeleteClose, SlotsType
  <2>3. ThreadVarsType' /\ ThreadTypes'
    BY <1>1, TypeInvParts DEF DeleteClose, ThreadVarsType, ThreadTypes
  <2> QED BY <1>1, <2>1, <2>2, <2>3, UnchangedTypes, TypeInvNext DEF DeleteClose
<1>2. CASE DeleteClear(t)
  <2>1. SlotsType'
    BY <1>0, <1>2, TypeInvParts DEF DeleteClear, SlotsType, Modes
  <2>2. ThreadVarsType' /\ ThreadTypes'
    BY <1>2, TypeInvParts DEF DeleteClear, ThreadVarsType, ThreadTypes
  <2> QED BY <1>2, <2>1, <2>2, UnchangedTypes, TypeInvNext DEF DeleteClear
<1>3. CASE DeleteOwn(t)
  <2>1. KernelType'
    BY <1>3, CloseType, TypeInvParts, UnchangedTypes DEF DeleteOwn, KernelType
  <2>2. ThreadVarsType' /\ ThreadTypes'
    BY <1>3, TypeInvParts DEF DeleteOwn, ThreadVarsType, ThreadTypes
  <2> QED BY <1>3, <2>1, <2>2, UnchangedTypes, TypeInvNext DEF DeleteOwn
<1> QED BY <1>1, <1>2, <1>3 DEF Delete

(* A thread that sends to the dispatch thread or receives from it.         *)
LEMMA ExchangeType ==
  ASSUME TypeInv, NEW t \in Threads, Exchange(t)
  PROVE  TypeInv'
<1>0. ModuleOf[t] \in Dests /\ MODULE_ID_ALL \in Dests /\ MODULE_ID_UNSPECIFIED \in Dests
  BY ConstantsAssumption DEF Dests
<1>1. ASSUME NEW src \in Dests, NEW dest \in Dests, Send(t, src, dest)
      PROVE  TypeInv'
  <2> DEFINE n == IF Recycle THEN 0 ELSE nsent[t] + 1
             msg == [by |-> t, src |-> src, dest |-> dest, n |-> n]
             packet == [size |-> "message_t", msg |-> msg]
  <2>1. n \in 0 .. MaxSends /\ nsent' = [nsent EXCEPT ![t] = n]
    BY <1>1, TypeInvParts, ConstantsAssumption DEF Send, ThreadVarsType
  <2>2. packet \in Packet
    <3>1. msg \in Msg
      BY <2>1 DEF Msg
    <3> QED BY <3>1 DEF Packet
  <2>3. handle[t] \in Fds /\ CanSend(handle[t]) /\ Enqueue(handle[t], packet)
    BY <1>1, TypeInvParts DEF Send, CanSend, KernelType
  <2> HIDE DEF n, msg, packet
  <2>4. KernelType'
    BY <1>1, <2>2, <2>3, EnqueueType, TypeInvParts DEF Send, KernelType
  <2>5. ThreadVarsType' /\ ThreadTypes'
    BY <1>1, <2>1, TypeInvParts DEF Send, ThreadVarsType, ThreadTypes
  <2> QED BY <1>1, <2>4, <2>5, UnchangedTypes, TypeInvNext DEF Send
<1>2. CASE RecvMsg(t)
  <2>1. handle[t] \in Fds /\ inq[handle[t]] # <<>>
        /\ inq' = [inq EXCEPT ![handle[t]] = Tail(@)]
    BY <1>2, TypeInvParts DEF RecvMsg, KernelType
  <2>2. QueueType' /\ Head(inq[handle[t]]).msg \in Msg
    BY <2>1, DequeueType DEF Packet
  <2>3. KernelType'
    BY <1>2, <2>2, TypeInvParts DEF RecvMsg, KernelType
  <2>4. received' \in [Threads -> Seq(Msg)]
    <3>1. received[t] \in Seq(Msg)
      BY TypeInvParts DEF ThreadVarsType
    <3>2. Append(received[t], Head(inq[handle[t]]).msg) \in Seq(Msg)
      BY <2>2, <3>1
    <3> QED BY <1>2, <3>2, TypeInvParts DEF RecvMsg, ThreadVarsType
  <2>5. ThreadVarsType' /\ ThreadTypes'
    BY <1>2, <2>4, TypeInvParts DEF RecvMsg, ThreadVarsType, ThreadTypes
  <2> QED BY <1>2, <2>3, <2>5, UnchangedTypes, TypeInvNext DEF RecvMsg
<1>3. CASE \E dest \in SendTo : SendMsg(t, dest)
  BY <1>0, <1>1, <1>3, SendToAssumption DEF SendMsg
<1>4. CASE SendMultiMsg(t)
  BY <1>0, <1>1, <1>4 DEF SendMultiMsg
<1> QED BY <1>2, <1>3, <1>4 DEF Exchange

(* The dispatch thread changes its own variables and the queues.           *)
LEMMA DispatchType ==
  ASSUME TypeInv, DispatchThread
  PROVE  TypeInv'
<1>1. SlotsType' /\ ThreadVarsType' /\ ThreadTypes'
  BY UnchangedTypes DEF DispatchThread, BuildFdSets, Select, ReadSlot, Recv,
       RouteOne, RouteAllFd, RouteAllMode, Transmit
<1>2. SUFFICES KernelType' /\ DispatchVarsType' /\ DispatchTypes'
  BY <1>1, TypeInvNext
<1>3. CASE BuildFdSets
  <2>1. i' \in Modules /\ read_fds' \subseteq Fds /\ dpc' \in {"build", "select"}
    BY <1>3, ModulesAreNumbers, TypeInvParts
       DEF BuildFdSets, DispatchVarsType, SlotsType
  <2>2. DispatchVarsType' /\ DispatchTypes'
    BY <1>3, <2>1, TypeInvParts DEF BuildFdSets, DispatchVarsType, DispatchTypes
  <2> QED BY <1>3, <2>2, UnchangedTypes DEF BuildFdSets
<1>4. CASE Select
  <2>1. read_fds' \subseteq Fds /\ dpc' \in {"build", "scan"}
    BY <1>4, TypeInvParts DEF Select, DispatchVarsType
  <2>2. DispatchVarsType' /\ DispatchTypes'
    BY <1>4, <2>1, TypeInvParts DEF Select, DispatchVarsType, DispatchTypes
  <2> QED BY <1>4, <2>2, UnchangedTypes DEF Select
<1>5. CASE ReadSlot
  <2>1. CASE Advance
    BY <1>5, <2>1, AdvanceType, UnchangedTypes DEF ReadSlot
  <2>2. CASE ~Advance
    <3>1. /\ dispatch_fd' \in Fds /\ dpc' = "recv"
          /\ UNCHANGED <<i, j, read_fds, message, info, count>>
      BY <1>5, <2>2, TypeInvParts DEF ReadSlot, DispatchVarsType
    <3>2. DispatchVarsType' /\ DispatchTypes'
      BY <3>1, TypeInvParts DEF DispatchVarsType, DispatchTypes
    <3> QED BY <1>5, <3>2, UnchangedTypes DEF ReadSlot
  <2> QED BY <2>1, <2>2
<1>6. CASE Recv
  <2>1. CASE dispatch_fd \in opened /\ inq[dispatch_fd] # <<>>
    <3>1. dispatch_fd \in Fds
      BY <2>1, TypeInvParts DEF KernelType
    <3>2. QueueType' /\ Head(inq[dispatch_fd]).msg \in Msg
      BY <1>6, <2>1, <3>1, DequeueType DEF Recv, Packet
    <3>3. KernelType'
      BY <1>6, <3>2, TypeInvParts DEF Recv, KernelType
    <3>4. CASE Advance
      BY <3>3, <3>4, AdvanceType
    <3>5. CASE ~Advance
      <4>1. /\ message' \in Msg /\ dpc' = "route"
            /\ UNCHANGED <<i, j, read_fds, dispatch_fd, info, count>>
        BY <1>6, <2>1, <3>2, <3>5 DEF Recv
      <4>2. DispatchVarsType' /\ DispatchTypes'
        BY <4>1, TypeInvParts DEF DispatchVarsType, DispatchTypes
      <4> QED BY <3>3, <4>2
    <3> QED BY <3>4, <3>5
  <2>2. CASE ~(dispatch_fd \in opened /\ inq[dispatch_fd] # <<>>)
    <3>1. Advance /\ UNCHANGED kernel
      BY <1>6, <2>2 DEF Recv, kernel
    <3> QED BY <3>1, AdvanceType, UnchangedTypes
  <2> QED BY <2>1, <2>2
<1>7. CASE RouteOne
  <2>1. CASE Advance
    BY <1>7, <2>1, AdvanceType, UnchangedTypes DEF RouteOne
  <2>2. CASE ~Advance
    <3>1. /\ fd_array[message.dest] \in Fds
          /\ info' = <<fd_array[message.dest]>> /\ dpc' = "xmit"
          /\ UNCHANGED <<i, j, read_fds, dispatch_fd, message, count>>
      BY <1>7, <2>2, TypeInvParts DEF RouteOne, SlotsType
    <3>2. info' \in Seq(Fds) /\ info' # <<>>
      BY <3>1
    <3>3. message \in Msg
      BY <1>7, TypeInvParts DEF RouteOne, DispatchTypes
    <3>4. DispatchVarsType' /\ DispatchTypes'
      BY <3>1, <3>2, <3>3, TypeInvParts DEF DispatchVarsType, DispatchTypes
    <3> QED BY <1>7, <3>4, UnchangedTypes DEF RouteOne
  <2> QED BY <2>1, <2>2
<1>8. CASE RouteAllFd
  <2>1. message \in Msg /\ info \in Seq(Fds)
    BY <1>8, TypeInvParts DEF RouteAllFd, DispatchTypes, DispatchVarsType
  <2>2. CASE NextAddressee(info)
    BY <1>8, <2>1, <2>2, NextAddresseeType, UnchangedTypes DEF RouteAllFd
  <2>3. CASE ~NextAddressee(info)
    <3>1. /\ dispatch_fd' \in Fds /\ dpc' = "mode"
          /\ UNCHANGED <<i, j, read_fds, message, info, count>>
      BY <1>8, <2>3, TypeInvParts DEF RouteAllFd, SlotsType, DispatchVarsType
    <3>2. DispatchVarsType' /\ DispatchTypes'
      BY <2>1, <3>1, TypeInvParts DEF DispatchVarsType, DispatchTypes
    <3> QED BY <1>8, <3>2, UnchangedTypes DEF RouteAllFd
  <2> QED BY <2>2, <2>3
<1>9. CASE RouteAllMode
  <2>1. message \in Msg /\ info \in Seq(Fds) /\ dispatch_fd \in Fds
    BY <1>9, TypeInvParts DEF RouteAllMode, DispatchTypes, DispatchVarsType
  <2> DEFINE fds == IF mode_array[j] = "SEND_RECV"
                    THEN Append(info, dispatch_fd) ELSE info
  <2>2. fds \in Seq(Fds) /\ NextAddressee(fds)
    BY <1>9, <2>1 DEF RouteAllMode
  <2> QED BY <1>9, <2>1, <2>2, NextAddresseeType, UnchangedTypes DEF RouteAllMode
<1>10. CASE Transmit
  <2>1. /\ message \in Msg /\ info \in Seq(Fds) /\ info # <<>>
        /\ Head(info) \in Fds /\ Tail(info) \in Seq(Fds)
        /\ Len(Tail(info)) = Len(info) - 1 /\ Len(info) \in Nat
    BY <1>10, TypeInvParts DEF Transmit, DispatchTypes, DispatchVarsType
  <2>2. QueueType'
    <3>1. [size |-> "msg", msg |-> message] \in Packet
      BY <2>1 DEF Packet
    <3>2. CASE /\ CanSend(Head(info))
               /\ Enqueue(Head(info), [size |-> "msg", msg |-> message])
      BY <2>1, <3>1, <3>2, EnqueueType
    <3>3. CASE UNCHANGED inq
      BY <3>3, TypeInvParts DEF KernelType, QueueType
    <3> QED BY <1>10, <3>2, <3>3 DEF Transmit
  <2>3. KernelType'
    BY <1>10, <2>2, TypeInvParts DEF Transmit, KernelType
  <2>4. CASE ~Advance
    <3>1. /\ info' = info \/ (Len(info) > 1 /\ info' = Tail(info))
          /\ count' \in 0 .. 2
          /\ UNCHANGED <<dpc, i, j, read_fds, dispatch_fd, message>>
      BY <1>10, <2>4, TypeInvParts
      DEF Transmit, NextFd, Interrupted, DispatchVarsType
    <3>2. info' \in Seq(Fds) /\ info' # <<>>
      BY <2>1, <3>1
    <3>3. DispatchVarsType' /\ DispatchTypes'
      BY <2>1, <3>1, <3>2, TypeInvParts DEF DispatchVarsType, DispatchTypes
    <3> QED BY <2>3, <3>3
  <2>5. CASE Advance
    BY <2>3, <2>5, AdvanceType
  <2> QED BY <2>4, <2>5
<1> QED BY <1>3, <1>4, <1>5, <1>6, <1>7, <1>8, <1>9, <1>10 DEF DispatchThread

(* So does a step of some other part of the process.                       *)
LEMMA StutterType ==
  ASSUME TypeInv, UNCHANGED vars
  PROVE  TypeInv'
BY UnchangedTypes, TypeInvNext DEF vars

(* dispatch.c keeps its variables in their types, whatever the threads do. *)
THEOREM TypeCorrect == Spec => []TypeOK
<1>1. Init => TypeInv
  BY InitType
<1>2. TypeInv /\ [Next]_vars => TypeInv'
  BY RegisterType, DeleteType, ExchangeType, DispatchType, StutterType DEF Next
<1>3. TypeInv => TypeOK
  BY DEF TypeInv
<1> QED BY <1>1, <1>2, <1>3, PTL DEF Spec

-----------------------------------------------------------------------------
(* Registration and deletion.  ChannelServed, SlotsLive and NoLeak hold     *)
(* when the dispatcher is used as its callers use it: no two threads share  *)
(* a module id, and descriptor 0 is taken.  (Without the first, two threads *)
(* that register at once overwrite each other's slot; without the second, a *)
(* channel that is given the number 0 looks unregistered.)                  *)

OneThreadPerModule == \A t, u \in Threads : ModuleOf[t] = ModuleOf[u] => t = u
ZeroIsTaken        == DISPATCH_INVALID_FD \notin Fds

(* The inductive invariant says for each point of the two functions what a  *)
(* thread owns, that ownership is exclusive, and that a closed number stays *)
(* in a slot only under the lock, when the kernel may give it out again     *)
(* but nobody can store it in a second slot.                                *)

Paired(f, g) == /\ {f, g} \subseteq opened /\ f # g
                /\ peer[f] = g /\ peer[g] = f

Orphan(f) == f \in opened /\ peer[f] = NoFd

OwnershipOf(t) ==
  /\ pc[t] = "idle" => \/ handle[t] = NoFd /\ DispatchEnd(t) = DISPATCH_INVALID_FD
                       \/ Paired(handle[t], DispatchEnd(t))
  /\ pc[t] = "store" => /\ DispatchEnd(t) = DISPATCH_INVALID_FD
                        /\ Paired(handle[t], fd0[t])
  /\ pc[t] = "mode" => DispatchEnd(t) = fd0[t] /\ Paired(handle[t], fd0[t])
  /\ pc[t] = "clear" => DispatchEnd(t) # DISPATCH_INVALID_FD /\ Orphan(handle[t])
  /\ pc[t] = "close" => DispatchEnd(t) = DISPATCH_INVALID_FD /\ Orphan(handle[t])

Owns(t, f) ==
  \/ f = handle[t]
  \/ pc[t] \in {"store", "mode"} /\ f = fd0[t]
  \/ pc[t] = "idle" /\ f = DispatchEnd(t)

Exclusive ==
  /\ \A f \in opened : \E t \in Threads : Owns(t, f)
  /\ \A f \in opened : \A t, u \in Threads : Owns(t, f) /\ Owns(u, f) => t = u

SlotsOfThreads ==
  /\ \A m \in Modules : \/ fd_array[m] = DISPATCH_INVALID_FD
                        \/ \E t \in Threads : ModuleOf[t] = m
  /\ \A t, u \in Threads :
       DispatchEnd(t) = DispatchEnd(u) => t = u \/ DispatchEnd(t) = DISPATCH_INVALID_FD

LockHeld == \A t \in Threads : pc[t] \in {"mode", "clear"} => lock = t

ChannelInv == /\ \A t \in Threads : OwnershipOf(t)
              /\ Exclusive /\ SlotsOfThreads /\ LockHeld

(* Before any registration there is nothing to own.                        *)
LEMMA InitChannels == Init => ChannelInv
BY ConstantsAssumption DEF Init, ChannelInv, OwnershipOf, DispatchEnd, Exclusive,
     SlotsOfThreads, LockHeld, Modules

(* The variables the invariant speaks of.                                  *)
channels == <<fd_array, lock, opened, peer, pc, handle, fd0>>

(* A step that leaves them alone keeps the invariant.                      *)
LEMMA ChannelsUnchanged ==
  ASSUME ChannelInv, UNCHANGED channels
  PROVE  ChannelInv'
BY DEF ChannelInv, OwnershipOf, Paired, Orphan, Exclusive, Owns, SlotsOfThreads,
       LockHeld, DispatchEnd, channels

(* dispatch_send_msg and dispatch_recv_msg move packets only.              *)
LEMMA ExchangeLeavesChannels ==
  ASSUME NEW t \in Threads, Exchange(t)
  PROVE  UNCHANGED channels
BY DEF Exchange, SendMsg, SendMultiMsg, Send, RecvMsg, channels, slots

(* The socketpair made by dispatch_register_channel is its caller's alone. *)
LEMMA RegisterOpenChannels ==
  ASSUME TypeInv, ChannelInv, NEW t \in Threads, NEW mode \in Modes,
         RegisterOpen(t, mode), ZeroIsTaken
  PROVE  ChannelInv'
<1>1. PICK f \in Fds \ opened, g \in Fds \ opened :
        /\ f # g
        /\ opened' = opened \cup {f, g}
        /\ peer' = [peer EXCEPT ![f] = g, ![g] = f]
        /\ fd0' = [fd0 EXCEPT ![t] = f]
        /\ handle' = [handle EXCEPT ![t] = g]
  BY DEF RegisterOpen
<1>2. /\ pc[t] = "idle" /\ handle[t] = NoFd
      /\ DispatchEnd(t) = DISPATCH_INVALID_FD
      /\ pc' = [pc EXCEPT ![t] = "store"]
      /\ UNCHANGED <<fd_array, lock>>
  BY DEF RegisterOpen, DispatchEnd, slots
<1>3. /\ opened \subseteq Fds /\ peer \in [Fds -> Fds \cup {NoFd}]
      /\ pc[t] = "idle" /\ DOMAIN pc = Threads
      /\ fd0 \in [Threads -> Fds \cup {NoFd}]
      /\ handle \in [Threads -> Fds \cup {NoFd}]
  BY TypeInvParts, <1>2 DEF KernelType, ThreadVarsType
<1>4. peer'[f] = g /\ peer'[g] = f /\ \A h \in opened : peer'[h] = peer[h]
  BY <1>1, <1>3
<1>5. \A u \in Threads : OwnershipOf(u)'
  BY <1>1, <1>2, <1>3, <1>4 DEF ChannelInv, OwnershipOf, Paired, Orphan, DispatchEnd
<1>6. Exclusive'
  <2>1. \A u \in Threads \ {t} : \A h : Owns(u, h)' <=> Owns(u, h)
    BY <1>1, <1>2, <1>3 DEF Owns, DispatchEnd
  <2>2. \A h : Owns(t, h)' <=> h \in {f, g}
    BY <1>1, <1>2, <1>3 DEF Owns
  <2>3. \A h \in opened : ~Owns(t, h)
    BY <1>2, <1>3, ConstantsAssumption DEF Owns, ZeroIsTaken
  <2>4. \A u \in Threads \ {t}, h \in {f, g} : ~Owns(u, h)
    BY <1>1, <1>3, ConstantsAssumption
       DEF ChannelInv, OwnershipOf, Owns, Paired, Orphan, ZeroIsTaken, DispatchEnd, TypeInv, TypeOK
  <2> QED BY <1>1, <2>1, <2>2, <2>3, <2>4 DEF ChannelInv, Exclusive
<1>7. SlotsOfThreads' /\ LockHeld'
  BY <1>2, <1>3 DEF ChannelInv, SlotsOfThreads, LockHeld, DispatchEnd
<1> QED BY <1>5, <1>6, <1>7 DEF ChannelInv

(* Storing fd[0] under the lock makes no slot name another's descriptor.   *)
LEMMA RegisterStoreChannels ==
  ASSUME TypeInv, ChannelInv, NEW t \in Threads, RegisterStore(t),
         OneThreadPerModule, ZeroIsTaken
  PROVE  ChannelInv'
<1>1. /\ pc[t] = "store" /\ lock = NoThread /\ lock' = t
      /\ fd_array' = [fd_array EXCEPT ![ModuleOf[t]] = fd0[t]]
      /\ pc' = [pc EXCEPT ![t] = "mode"]
      /\ UNCHANGED <<opened, peer, handle, fd0>>
  BY DEF RegisterStore, kernel
<1>2. /\ DOMAIN pc = Threads /\ DOMAIN fd_array = Modules
      /\ ModuleOf \in [Threads -> Modules]
      /\ opened \subseteq Fds
  BY TypeInvParts, ConstantsAssumption DEF SlotsType, KernelType, ThreadVarsType
<1>3. /\ DispatchEnd(t)' = fd0[t]
      /\ \A u \in Threads \ {t} : DispatchEnd(u)' = DispatchEnd(u)
      /\ \A u \in Threads \ {t} : pc'[u] = pc[u]
      /\ pc'[t] = "mode"
  BY <1>1, <1>2 DEF DispatchEnd, OneThreadPerModule
<1>4. DispatchEnd(t) = DISPATCH_INVALID_FD /\ Paired(handle[t], fd0[t])
  BY <1>1 DEF ChannelInv, OwnershipOf
<1>5. \A u \in Threads : OwnershipOf(u)'
  BY <1>1, <1>3, <1>4 DEF ChannelInv, OwnershipOf, Paired, Orphan
<1>6. Exclusive'
  <2>1. \A u \in Threads : \A h : Owns(u, h)' <=> Owns(u, h)
    BY <1>1, <1>3 DEF Owns
  <2> QED BY <1>1, <2>1 DEF ChannelInv, Exclusive
<1>7. SlotsOfThreads'
  <2>1. \A m \in Modules : \/ fd_array'[m] = DISPATCH_INVALID_FD
                          \/ \E u \in Threads : ModuleOf[u] = m
    BY <1>1, <1>2 DEF ChannelInv, SlotsOfThreads
  <2>2. \A u \in Threads \ {t} : DispatchEnd(u) # fd0[t]
    <3>1. fd0[t] \in opened /\ Owns(t, fd0[t]) /\ fd0[t] # DISPATCH_INVALID_FD
      BY <1>1, <1>2, <1>4 DEF Paired, Owns, ZeroIsTaken
    <3> SUFFICES ASSUME NEW u \in Threads \ {t}, DispatchEnd(u) = fd0[t]
                 PROVE  Owns(u, fd0[t])
      BY <3>1 DEF ChannelInv, Exclusive
    <3>2. pc[u] \notin {"mode", "clear"}
      BY <1>1, ConstantsAssumption DEF ChannelInv, LockHeld
    <3>3. pc[u] \in {"idle", "store", "mode", "clear", "close"}
      BY TypeInvParts DEF ThreadVarsType
    <3> QED BY <3>1, <3>2, <3>3 DEF ChannelInv, OwnershipOf, Owns
  <2> QED BY <1>3, <2>1, <2>2 DEF ChannelInv, SlotsOfThreads
<1>8. LockHeld'
  BY <1>1, <1>3, ConstantsAssumption DEF ChannelInv, LockHeld
<1> QED BY <1>5, <1>6, <1>7, <1>8 DEF ChannelInv

(* Unlocking after the mode is stored leaves a finished channel.           *)
LEMMA RegisterModeChannels ==
  ASSUME TypeInv, ChannelInv, NEW t \in Threads, RegisterMode(t)
  PROVE  ChannelInv'
<1>1. /\ pc[t] = "mode" /\ lock' = NoThread
      /\ fd0' = [fd0 EXCEPT ![t] = NoFd]
      /\ pc' = [pc EXCEPT ![t] = "idle"]
      /\ UNCHANGED <<fd_array, opened, peer, handle>>
  BY DEF RegisterMode, kernel
<1>2. /\ DOMAIN pc = Threads /\ DOMAIN fd0 = Threads
  BY TypeInvParts DEF ThreadVarsType
<1>3. DispatchEnd(t) = fd0[t] /\ Paired(handle[t], fd0[t])
  BY <1>1 DEF ChannelInv, OwnershipOf
<1>4. \A u \in Threads : OwnershipOf(u)'
  BY <1>1, <1>2, <1>3 DEF ChannelInv, OwnershipOf, Paired, Orphan, DispatchEnd
<1>5. Exclusive'
  <2>1. \A u \in Threads : \A h : Owns(u, h)' <=> Owns(u, h)
    BY <1>1, <1>2, <1>3 DEF Owns, DispatchEnd
  <2> QED BY <1>1, <2>1 DEF ChannelInv, Exclusive
<1>6. SlotsOfThreads'
  BY <1>1 DEF ChannelInv, SlotsOfThreads, DispatchEnd
<1>7. LockHeld'
  BY <1>1, <1>2, ConstantsAssumption DEF ChannelInv, LockHeld
<1> QED BY <1>4, <1>5, <1>6, <1>7 DEF ChannelInv

(* A descriptor that a thread has is nobody else's, so closing it touches  *)
(* no other channel.                                                       *)
LEMMA CloseLeavesOthers ==
  ASSUME TypeInv, ChannelInv, ZeroIsTaken, NEW t \in Threads, NEW f \in opened,
         Owns(t, f), Close(f), NEW u \in Threads \ {t}
  PROVE  /\ \A h : Owns(u, h) => h # f
         /\ \A g, h : Owns(u, g) /\ Owns(u, h) /\ Paired(g, h) => Paired(g, h)'
         /\ \A h : Owns(u, h) /\ Orphan(h) => Orphan(h)'
<1>1. \A h : Owns(u, h) => h # f
  BY DEF ChannelInv, Exclusive
<1>2. /\ opened' = opened \ {f} /\ opened \subseteq Fds
      /\ \A h \in Fds \ {f} : peer[h] # f => peer'[h] = peer[h]
  BY TypeInvParts DEF Close, KernelType
<1>3. \A g, h : Owns(u, g) /\ Owns(u, h) /\ Paired(g, h) => Paired(g, h)'
  BY <1>1, <1>2 DEF Paired
<1>4. \A h : Owns(u, h) /\ Orphan(h) => Orphan(h)'
  <2>1. f # NoFd
    BY <1>2, ConstantsAssumption
  <2> QED BY <1>1, <1>2, <2>1 DEF Orphan
<1> QED BY <1>1, <1>3, <1>4

(* Closing the dispatch side orphans the caller's end and no other.        *)
LEMMA DeleteCloseChannels ==
  ASSUME TypeInv, ChannelInv, NEW t \in Threads, DeleteClose(t), ZeroIsTaken
  PROVE  ChannelInv'
<1>1. /\ pc[t] = "idle" /\ handle[t] # NoFd /\ lock = NoThread
      /\ UNCHANGED <<fd_array, handle, fd0>>
      /\ DOMAIN pc = Threads /\ opened \subseteq Fds
  BY TypeInvParts DEF DeleteClose, ThreadVarsType, KernelType
<1> DEFINE f == DispatchEnd(t)
<1>2. Paired(handle[t], f) /\ f \in opened /\ f # DISPATCH_INVALID_FD
  BY <1>1 DEF ChannelInv, OwnershipOf, Paired, ZeroIsTaken
<1>3. /\ Close(f) /\ lock' = t
      /\ pc' = [pc EXCEPT ![t] = "clear"]
  BY <1>2 DEF DeleteClose, DispatchEnd
<1>4. Owns(t, f) /\ Owns(t, handle[t])
  BY <1>1 DEF Owns
<1>5. \A u \in Threads : OwnershipOf(u)'
  <2>1. OwnershipOf(t)'
    <3>1. handle[t] \in opened' /\ peer'[handle[t]] = NoFd
      BY <1>1, <1>2, <1>3 DEF Close, Paired
    <3> QED BY <1>1, <1>2, <1>3, <3>1 DEF OwnershipOf, Orphan, DispatchEnd
  <2>2. ASSUME NEW u \in Threads \ {t} PROVE OwnershipOf(u)'
    <3>1. /\ pc'[u] = pc[u] /\ DispatchEnd(u)' = DispatchEnd(u)
          /\ handle'[u] = handle[u] /\ fd0'[u] = fd0[u]
          /\ OwnershipOf(u)
      BY <1>1, <1>3 DEF DispatchEnd, ChannelInv
    <3>2. /\ Owns(u, handle[u])
          /\ pc[u] \in {"store", "mode"} => Owns(u, fd0[u])
          /\ pc[u] = "idle" => Owns(u, DispatchEnd(u))
      BY DEF Owns
    <3>3. /\ \A g, h : Owns(u, g) /\ Owns(u, h) /\ Paired(g, h) => Paired(g, h)'
          /\ \A h : Owns(u, h) /\ Orphan(h) => Orphan(h)'
      BY <1>2, <1>3, <1>4, CloseLeavesOthers
    <3> HIDE DEF f
    <3> QED BY <3>1, <3>2, <3>3 DEF OwnershipOf, Paired, Orphan
  <2> QED BY <2>1, <2>2
<1>6. Exclusive'
  <2>1. \A u \in Threads \ {t} : \A h : Owns(u, h)' <=> Owns(u, h)
    BY <1>1, <1>3 DEF Owns, DispatchEnd
  <2>2. \A h : Owns(t, h)' <=> Owns(t, h) /\ h # f
    <3>1. f # handle[t]
      BY <1>2 DEF Paired
    <3> QED BY <1>1, <1>3, <3>1 DEF Owns, DispatchEnd
  <2>3. opened' = opened \ {f}
    BY <1>3 DEF Close
  <2> QED BY <2>1, <2>2, <2>3 DEF ChannelInv, Exclusive
<1>7. SlotsOfThreads'
  BY <1>1 DEF ChannelInv, SlotsOfThreads, DispatchEnd
<1>8. LockHeld'
  BY <1>1, <1>3, ConstantsAssumption DEF ChannelInv, LockHeld
<1> QED BY <1>5, <1>6, <1>7, <1>8 DEF ChannelInv

(* Resetting the slot touches no other module's slot.                      *)
LEMMA DeleteClearChannels ==
  ASSUME TypeInv, ChannelInv, NEW t \in Threads, DeleteClear(t), OneThreadPerModule
  PROVE  ChannelInv'
<1>1. /\ pc[t] = "clear" /\ lock' = NoThread
      /\ fd_array' = [fd_array EXCEPT ![ModuleOf[t]] = DISPATCH_INVALID_FD]
      /\ pc' = [pc EXCEPT ![t] = "close"]
      /\ UNCHANGED <<opened, peer, handle, fd0>>
  BY DEF DeleteClear, kernel
<1>2. /\ DOMAIN pc = Threads /\ DOMAIN fd_array = Modules
      /\ ModuleOf \in [Threads -> Modules]
  BY TypeInvParts, ConstantsAssumption DEF SlotsType, ThreadVarsType
<1>3. /\ DispatchEnd(t)' = DISPATCH_INVALID_FD
      /\ \A u \in Threads \ {t} : DispatchEnd(u)' = DispatchEnd(u)
      /\ \A u \in Threads \ {t} : pc'[u] = pc[u]
      /\ pc'[t] = "close"
  BY <1>1, <1>2 DEF DispatchEnd, OneThreadPerModule
<1>4. \A u \in Threads : OwnershipOf(u)'
  BY <1>1, <1>3 DEF ChannelInv, OwnershipOf, Paired, Orphan
<1>5. Exclusive'
  <2>1. \A u \in Threads : \A h : Owns(u, h)' <=> Owns(u, h)
    BY <1>1, <1>3 DEF Owns
  <2> QED BY <1>1, <2>1 DEF ChannelInv, Exclusive
<1>6. SlotsOfThreads'
  <2>1. \A m \in Modules : \/ fd_array'[m] = DISPATCH_INVALID_FD
                          \/ \E u \in Threads : ModuleOf[u] = m
    BY <1>1, <1>2 DEF ChannelInv, SlotsOfThreads
  <2> QED BY <1>3, <2>1 DEF ChannelInv, SlotsOfThreads
<1>7. LockHeld'
  BY <1>1, <1>3, ConstantsAssumption DEF ChannelInv, LockHeld
<1> QED BY <1>4, <1>5, <1>6, <1>7 DEF ChannelInv

(* Closing the caller's end leaves it with nothing.                        *)
LEMMA DeleteOwnChannels ==
  ASSUME TypeInv, ChannelInv, NEW t \in Threads, DeleteOwn(t), ZeroIsTaken
  PROVE  ChannelInv'
<1> DEFINE f == handle[t]
<1>1. /\ pc[t] = "close"
      /\ handle' = [handle EXCEPT ![t] = NoFd]
      /\ pc' = [pc EXCEPT ![t] = "idle"]
      /\ UNCHANGED <<fd_array, lock, fd0>>
      /\ DOMAIN pc = Threads /\ DOMAIN handle = Threads /\ opened \subseteq Fds
  BY TypeInvParts DEF DeleteOwn, ThreadVarsType, KernelType, slots
<1>2. f \in opened /\ DispatchEnd(t) = DISPATCH_INVALID_FD
  BY <1>1 DEF ChannelInv, OwnershipOf, Orphan
<1>3. Close(f)
  BY <1>1, <1>2 DEF DeleteOwn, ZeroIsTaken
<1>4. Owns(t, f)
  BY DEF Owns
<1>5. \A u \in Threads : OwnershipOf(u)'
  <2>1. OwnershipOf(t)'
    BY <1>1, <1>2 DEF OwnershipOf, DispatchEnd
  <2>2. ASSUME NEW u \in Threads \ {t} PROVE OwnershipOf(u)'
    <3>1. /\ pc'[u] = pc[u] /\ DispatchEnd(u)' = DispatchEnd(u)
          /\ handle'[u] = handle[u] /\ fd0'[u] = fd0[u]
          /\ OwnershipOf(u)
      BY <1>1 DEF DispatchEnd, ChannelInv
    <3>2. /\ Owns(u, handle[u])
          /\ pc[u] \in {"store", "mode"} => Owns(u, fd0[u])
          /\ pc[u] = "idle" => Owns(u, DispatchEnd(u))
      BY DEF Owns
    <3>3. /\ \A g, h : Owns(u, g) /\ Owns(u, h) /\ Paired(g, h) => Paired(g, h)'
          /\ \A h : Owns(u, h) /\ Orphan(h) => Orphan(h)'
      BY <1>2, <1>3, <1>4, CloseLeavesOthers
    <3> HIDE DEF f
    <3> QED BY <3>1, <3>2, <3>3 DEF OwnershipOf, Paired, Orphan
  <2> QED BY <2>1, <2>2
<1>6. Exclusive'
  <2>1. \A u \in Threads \ {t} : \A h : Owns(u, h)' <=> Owns(u, h)
    BY <1>1 DEF Owns, DispatchEnd
  <2>2. \A h \in opened : Owns(t, h) => h = f
    BY <1>1 DEF Owns
  <2>3. \A h \in Fds : ~Owns(t, h)'
    BY <1>1, <1>2, ConstantsAssumption DEF Owns, DispatchEnd, ZeroIsTaken
  <2>4. opened' = opened \ {f}
    BY <1>3 DEF Close
  <2> QED BY <1>1, <2>1, <2>2, <2>3, <2>4 DEF ChannelInv, Exclusive
<1>7. SlotsOfThreads' /\ LockHeld'
  BY <1>1 DEF ChannelInv, SlotsOfThreads, LockHeld, DispatchEnd
<1> QED BY <1>5, <1>6, <1>7 DEF ChannelInv

-----------------------------------------------------------------------------
(* Every step of the program preserves the invariant of the channels.      *)
LEMMA StepChannels ==
  ASSUME OneThreadPerModule, ZeroIsTaken, TypeInv, ChannelInv, [Next]_vars
  PROVE  ChannelInv'
<1>1. ASSUME NEW t \in Threads, Register(t) PROVE ChannelInv'
  BY <1>1, RegisterOpenChannels, RegisterStoreChannels, RegisterModeChannels
     DEF Register
<1>2. ASSUME NEW t \in Threads, Delete(t) PROVE ChannelInv'
  BY <1>2, DeleteCloseChannels, DeleteClearChannels, DeleteOwnChannels DEF Delete
<1>3. ASSUME NEW t \in Threads, Exchange(t) PROVE ChannelInv'
  BY <1>3, ExchangeLeavesChannels, ChannelsUnchanged
<1>4. CASE DispatchThread
  <2>1. UNCHANGED channels
    BY <1>4 DEF DispatchThread, BuildFdSets, Select, ReadSlot, Recv, RouteOne,
         RouteAllFd, RouteAllMode, Transmit, channels, slots, kernel, thread
  <2> QED BY <2>1, ChannelsUnchanged
<1>5. CASE UNCHANGED vars
  <2>1. UNCHANGED channels
    BY <1>5 DEF vars, channels, slots, kernel, thread
  <2> QED BY <2>1, ChannelsUnchanged
<1> QED BY <1>1, <1>2, <1>3, <1>4, <1>5 DEF Next

(* What the invariant says of registered threads.                          *)
LEMMA ServedByInv == ChannelInv => ChannelServed
BY DEF ChannelInv, OwnershipOf, Paired, ChannelServed, Registered

(* What it says of slots.                                                  *)
LEMMA LiveByInv ==
  ASSUME TypeInv, ChannelInv
  PROVE  SlotsLive
<1>1. ASSUME NEW m \in Modules, NEW k \in Modules, fd_array[m] = fd_array[k],
             fd_array[m] # DISPATCH_INVALID_FD
      PROVE  m = k
  <2>1. PICK t \in Threads : ModuleOf[t] = m
    BY <1>1 DEF ChannelInv, SlotsOfThreads
  <2>2. PICK u \in Threads : ModuleOf[u] = k
    BY <1>1 DEF ChannelInv, SlotsOfThreads
  <2>3. t = u
    BY <1>1, <2>1, <2>2 DEF ChannelInv, SlotsOfThreads, DispatchEnd
  <2> QED BY <2>1, <2>2, <2>3
<1>2. ASSUME lock = NoThread, NEW m \in Modules, fd_array[m] # DISPATCH_INVALID_FD
      PROVE  fd_array[m] \in opened
  <2>1. PICK t \in Threads : ModuleOf[t] = m
    BY <1>2 DEF ChannelInv, SlotsOfThreads
  <2>2. pc[t] = "idle"
    <3>1. pc[t] \notin {"mode", "clear"}
      BY <1>2, ConstantsAssumption DEF ChannelInv, LockHeld
    <3>2. pc[t] \in {"idle", "store", "mode", "clear", "close"}
      BY TypeInvParts DEF ThreadVarsType
    <3> QED BY <1>2, <2>1, <3>1, <3>2 DEF ChannelInv, OwnershipOf, DispatchEnd
  <2> QED BY <1>2, <2>1, <2>2 DEF ChannelInv, OwnershipOf, Paired, DispatchEnd
<1> QED BY <1>1, <1>2 DEF SlotsLive

(* What it says of open descriptors.                                       *)
LEMMA NoLeakByInv ==
  ASSUME ChannelInv
  PROVE  NoLeak
<1> SUFFICES ASSUME NEW f \in opened
             PROVE  f \in {handle[t] : t \in Threads} \cup {fd0[t] : t \in Threads}
                            \cup {fd_array[m] : m \in Modules}
  BY DEF NoLeak
<1>1. PICK t \in Threads : Owns(t, f)
  BY DEF ChannelInv, Exclusive
<1>2. ModuleOf[t] \in Modules
  BY ConstantsAssumption
<1> QED BY <1>1, <1>2 DEF Owns, DispatchEnd

(* The invariant of the channels holds throughout (dispatch.c).            *)
THEOREM ChannelsInvariant ==
  ASSUME OneThreadPerModule, ZeroIsTaken
  PROVE  Spec => [](TypeInv /\ ChannelInv)
<1>1. Init => TypeInv /\ ChannelInv
  BY InitType, InitChannels
<1>2. TypeInv /\ [Next]_vars => TypeInv'
  BY RegisterType, DeleteType, ExchangeType, DispatchType, StutterType DEF Next
<1>3. TypeInv /\ ChannelInv /\ [Next]_vars => ChannelInv'
  BY StepChannels
<1> QED BY <1>1, <1>2, <1>3, PTL DEF Spec

(* Every registered thread's channel is served, at every moment of every   *)
(* interleaving of registrations, deletions and traffic (dispatch.c).      *)
THEOREM ChannelsServed ==
  ASSUME OneThreadPerModule, ZeroIsTaken
  PROVE  Spec => []ChannelServed
<1>1. TypeInv /\ ChannelInv => ChannelServed
  BY ServedByInv
<1> QED BY <1>1, ChannelsInvariant, PTL

(* Slots are distinct, and live whenever the lock is free (dispatch.c).    *)
THEOREM SlotsAreLive ==
  ASSUME OneThreadPerModule, ZeroIsTaken
  PROVE  Spec => []SlotsLive
<1>1. TypeInv /\ ChannelInv => SlotsLive
  BY LiveByInv
<1> QED BY <1>1, ChannelsInvariant, PTL

(* No descriptor is lost by registering and deleting (dispatch.c).         *)
THEOREM NothingLeaks ==
  ASSUME OneThreadPerModule, ZeroIsTaken
  PROVE  Spec => []NoLeak
<1>1. TypeInv /\ ChannelInv => NoLeak
  BY NoLeakByInv
<1> QED BY <1>1, ChannelsInvariant, PTL

-----------------------------------------------------------------------------
(* Routing.  As long as no channel is deleted, what the dispatch thread     *)
(* read from fd_array stays true: a slot that is taken keeps its number.    *)

NothingDeleted == Deleters = {}

Stable ==
  /\ \A t \in Threads : pc[t] \in {"idle", "store", "mode"}
  /\ \A f \in Fds \ opened : inq[f] = <<>>

(* The queue of what a thread has sent and the dispatch thread not taken.  *)
Sent(t) == IF handle[t] = NoFd THEN <<>> ELSE inq[peer[handle[t]]]

Addressed(m, id) == m.dest = id \/ (m.dest = MODULE_ID_ALL /\ m.src # id)

(* What the dispatch thread knows of the descriptors it goes by.           *)
RoutingState ==
  /\ dpc \in {"build", "select", "scan", "recv"} => info = <<>> /\ j = FirstId
  /\ dpc = "recv" => dispatch_fd = fd_array[i]
  /\ dpc = "mode" => /\ dispatch_fd = fd_array[j]
                     /\ message.dest = MODULE_ID_ALL /\ message.src # j
  /\ \A k \in DOMAIN info : \E m \in Modules :
       /\ info[k] = fd_array[m] /\ Addressed(message, m)
       /\ dpc \in {"route", "mode"} => m < j
  /\ \A k, l \in DOMAIN info : info[k] = info[l] => k = l

RoutingInv == Stable /\ RoutingState /\ OnlyAddressed

(* Before, after and among what is still on its way: the messages of one   *)
(* sender are seen first, then comes the one in transfer, then those that   *)
(* wait, in the order of their numbers.                                    *)
SentInOrder ==
  \A t \in Threads : \A k \in DOMAIN Sent(t) :
    /\ Sent(t)[k].size = "message_t" /\ Sent(t)[k].msg.by = t
    /\ Sent(t)[k].msg.n <= nsent[t]
    /\ \A l \in DOMAIN Sent(t) : k < l => Sent(t)[k].msg.n < Sent(t)[l].msg.n

BeforeSent(m) == /\ m.n <= nsent[m.by]
                 /\ \A k \in DOMAIN Sent(m.by) : m.n < Sent(m.by)[k].msg.n

SeenBefore(u, m) ==
  \A k \in DOMAIN Seen(u) : Seen(u)[k].by = m.by => Seen(u)[k].n < m.n

SeenInOrder == \A u \in Threads : \A k \in DOMAIN Seen(u) : BeforeSent(Seen(u)[k])

TransferInOrder ==
  /\ dpc \in {"route", "mode", "xmit"} => BeforeSent(message)
  /\ dpc \in {"route", "mode"} => \A u \in Threads : SeenBefore(u, message)
  /\ dpc = "xmit" =>
       \A u \in Threads : \A k \in DOMAIN info :
         DispatchEnd(u) = info[k] => SeenBefore(u, message)

OrderInv == SentInOrder /\ SeenInOrder /\ TransferInOrder /\ FifoPerSender

-----------------------------------------------------------------------------
(* The two queues of each thread and what the steps do to them.            *)

Settled == TypeInv /\ ChannelInv /\ Stable

(* The ends of a thread's socketpair are both open, and its slot names the *)
(* one that its handle is connected to.                                    *)
LEMMA Ends ==
  ASSUME Settled, ZeroIsTaken, NEW t \in Threads
  PROVE  /\ handle[t] = NoFd => DispatchEnd(t) = DISPATCH_INVALID_FD /\ pc[t] = "idle"
         /\ handle[t] # NoFd => /\ Paired(handle[t], peer[handle[t]])
                                /\ Owns(t, peer[handle[t]])
         /\ DispatchEnd(t) # DISPATCH_INVALID_FD =>
              handle[t] # NoFd /\ DispatchEnd(t) = peer[handle[t]]
<1>1. OwnershipOf(t) /\ pc[t] \in {"idle", "store", "mode"}
  BY DEF Settled, ChannelInv, Stable
<1>2. opened \subseteq Fds /\ NoFd \notin opened
  BY ConstantsAssumption, TypeInvParts DEF Settled, KernelType
<1>3. DISPATCH_INVALID_FD \notin opened
  BY <1>2 DEF ZeroIsTaken
<1>4. CASE handle[t] = NoFd
  BY <1>1, <1>2, <1>4 DEF OwnershipOf, Paired
<1>5. CASE handle[t] # NoFd /\ pc[t] = "idle"
  BY <1>1, <1>5 DEF OwnershipOf, Paired, Owns
<1>6. CASE pc[t] = "store"
  BY <1>1, <1>2, <1>6 DEF OwnershipOf, Paired, Owns
<1>7. CASE pc[t] = "mode"
  BY <1>1, <1>2, <1>7 DEF OwnershipOf, Paired, Owns
<1> QED BY <1>1, <1>4, <1>5, <1>6, <1>7

(* Different threads have different ends.                                  *)
LEMMA EndsApart ==
  ASSUME Settled, ZeroIsTaken, NEW t \in Threads, NEW u \in Threads, t # u,
         handle[t] # NoFd
  PROVE  /\ handle[u] \notin {handle[t], peer[handle[t]]}
         /\ handle[u] # NoFd => peer[handle[u]] \notin {handle[t], peer[handle[t]]}
<1>1. /\ Paired(handle[t], peer[handle[t]])
      /\ Owns(t, handle[t]) /\ Owns(t, peer[handle[t]]) /\ Owns(u, handle[u])
      /\ handle[u] # NoFd => Owns(u, peer[handle[u]])
  BY Ends DEF Owns
<1> QED BY <1>1 DEF Settled, ChannelInv, Exclusive, Paired

(* A slot that is taken names the dispatch side of its module's thread.    *)
LEMMA SlotOfThread ==
  ASSUME Settled, ZeroIsTaken, NEW m \in Modules, fd_array[m] # DISPATCH_INVALID_FD
  PROVE  \E t \in Threads : /\ ModuleOf[t] = m /\ DispatchEnd(t) = fd_array[m]
                            /\ handle[t] # NoFd /\ peer[handle[t]] = fd_array[m]
<1>1. PICK t \in Threads : ModuleOf[t] = m
  BY DEF Settled, ChannelInv, SlotsOfThreads
<1>2. DispatchEnd(t) = fd_array[m]
  BY <1>1 DEF DispatchEnd
<1> QED BY <1>1, <1>2, Ends

(* What the queues hold.                                                   *)
LEMMA QueuesHold ==
  ASSUME Settled, ZeroIsTaken, NEW t \in Threads
  PROVE  /\ Inbox(t) \in Seq(Packet) /\ Sent(t) \in Seq(Packet)
         /\ handle[t] # NoFd => handle[t] \in Fds /\ peer[handle[t]] \in Fds
<1>1. inq \in [Fds -> Seq(Packet)] /\ opened \subseteq Fds /\ <<>> \in Seq(Packet)
  BY TypeInvParts DEF Settled, KernelType, QueueType
<1>2. handle[t] # NoFd => handle[t] \in Fds /\ peer[handle[t]] \in Fds
  BY <1>1, Ends DEF Paired
<1> QED BY <1>1, <1>2 DEF Inbox, Sent

(* A queue on the dispatch side that changes is what one thread has sent.  *)
LEMMA DispatchQueueChanged ==
  ASSUME Settled, ZeroIsTaken, UNCHANGED <<handle, peer>>,
         NEW t \in Threads, handle[t] # NoFd,
         NEW q, inq' = [inq EXCEPT ![peer[handle[t]]] = q]
  PROVE  /\ Sent(t)' = q
         /\ \A u \in Threads \ {t} : Sent(u)' = Sent(u)
         /\ \A u \in Threads : Inbox(u)' = Inbox(u)
<1>1. inq \in [Fds -> Seq(Packet)] /\ peer[handle[t]] \in Fds
  BY TypeInvParts, QueuesHold DEF Settled, KernelType, QueueType
<1>2. \A f \in Fds \ {peer[handle[t]]} : inq'[f] = inq[f]
  BY <1>1
<1>3. Sent(t)' = q
  BY <1>1 DEF Sent
<1>4. ASSUME NEW u \in Threads \ {t} PROVE Sent(u)' = Sent(u)
  BY <1>2, EndsApart, QueuesHold DEF Sent
<1>5. ASSUME NEW u \in Threads PROVE Inbox(u)' = Inbox(u)
  <2>1. handle[u] # peer[handle[t]]
    BY Ends, EndsApart DEF Paired
  <2> QED BY <1>2, <2>1, QueuesHold DEF Inbox
<1> QED BY <1>3, <1>4, <1>5

(* One on the other side is what waits for one thread.                     *)
LEMMA ThreadQueueChanged ==
  ASSUME Settled, ZeroIsTaken, UNCHANGED <<handle, peer>>,
         NEW t \in Threads, handle[t] # NoFd,
         NEW q, inq' = [inq EXCEPT ![handle[t]] = q]
  PROVE  /\ Inbox(t)' = q
         /\ \A u \in Threads \ {t} : Inbox(u)' = Inbox(u)
         /\ \A u \in Threads : Sent(u)' = Sent(u)
<1>1. inq \in [Fds -> Seq(Packet)] /\ handle[t] \in Fds
  BY TypeInvParts, QueuesHold DEF Settled, KernelType, QueueType
<1>2. \A f \in Fds \ {handle[t]} : inq'[f] = inq[f]
  BY <1>1
<1>3. Inbox(t)' = q
  BY <1>1 DEF Inbox
<1>4. ASSUME NEW u \in Threads \ {t} PROVE Inbox(u)' = Inbox(u)
  BY <1>2, EndsApart, QueuesHold DEF Inbox
<1>5. ASSUME NEW u \in Threads PROVE Sent(u)' = Sent(u)
  <2>1. handle[u] # NoFd => peer[handle[u]] # handle[t]
    BY Ends, EndsApart DEF Paired
  <2> QED BY <1>2, <2>1, QueuesHold DEF Sent
<1> QED BY <1>3, <1>4, <1>5

(* Without deletions a thread is never in the middle of one, and only the  *)
(* queues of open descriptors fill.                                        *)
LEMMA StableKept ==
  ASSUME Settled, ZeroIsTaken, NothingDeleted, [Next]_vars
  PROVE  Stable'
<1>1. /\ \A t \in Threads : pc[t] \in {"idle", "store", "mode"}
      /\ \A f \in Fds \ opened : inq[f] = <<>>
      /\ DOMAIN pc = Threads /\ inq \in [Fds -> Seq(Packet)]
  BY TypeInvParts DEF Settled, Stable, ThreadVarsType, KernelType, QueueType
<1>2. \A t \in Threads : ~Delete(t)
  BY <1>1 DEF NothingDeleted, Delete, DeleteClose, DeleteClear, DeleteOwn
<1>3. ASSUME NEW t \in Threads, Register(t) PROVE Stable'
  <2>1. opened \subseteq opened' /\ UNCHANGED inq
    BY <1>3 DEF Register, RegisterOpen, RegisterStore, RegisterMode, kernel
  <2>2. \A u \in Threads : pc'[u] \in {"idle", "store", "mode"}
    BY <1>1, <1>3 DEF Register, RegisterOpen, RegisterStore, RegisterMode
  <2> QED BY <1>1, <2>1, <2>2 DEF Stable
<1>4. ASSUME UNCHANGED <<pc, opened>>, NEW f \in opened, NEW q,
             inq' = [inq EXCEPT ![f] = q]
      PROVE  Stable'
  BY <1>1, <1>4 DEF Stable
<1>5. ASSUME UNCHANGED <<pc, opened, inq>> PROVE Stable'
  BY <1>1, <1>5 DEF Stable
<1>6. \A f : CanSend(f) => f \in Fds /\ peer[f] \in opened
  <2>1. \A f \in opened : \E t \in Threads : Owns(t, f)
    BY DEF Settled, ChannelInv, Exclusive
  <2>2. ASSUME NEW f, CanSend(f) PROVE peer[f] \in opened
    <3>1. PICK t \in Threads : Owns(t, f) /\ f \in opened /\ peer[f] # NoFd
      BY <2>1, <2>2 DEF CanSend
    <3>2. OwnershipOf(t)
      BY DEF Settled, ChannelInv
    <3>3. f # NoFd /\ f # DISPATCH_INVALID_FD
      BY <3>1, ConstantsAssumption, TypeInvParts DEF Settled, KernelType, ZeroIsTaken
    <3> QED BY <1>1, <3>1, <3>2, <3>3 DEF OwnershipOf, Owns, Paired
  <2> QED BY <2>2, TypeInvParts DEF CanSend, Settled, KernelType
<1>7. ASSUME NEW t \in Threads, Exchange(t) PROVE Stable'
  <2>1. CASE RecvMsg(t)
    BY <1>4, <2>1 DEF RecvMsg
  <2>2. ASSUME NEW src, NEW dest, Send(t, src, dest) PROVE Stable'
    BY <1>4, <1>6, <2>2 DEF Send, Enqueue
  <2> QED BY <1>7, <2>1, <2>2 DEF Exchange, SendMsg, SendMultiMsg
<1>8. CASE DispatchThread
  <2>1. UNCHANGED <<pc, opened>>
    BY <1>8 DEF DispatchThread, BuildFdSets, Select, ReadSlot, Recv, RouteOne,
         RouteAllFd, RouteAllMode, Transmit, kernel, thread
  <2>2. CASE Recv
    BY <1>4, <1>5, <2>1, <2>2 DEF Recv
  <2>3. CASE Transmit
    BY <1>4, <1>5, <1>6, <2>1, <2>3 DEF Transmit, Enqueue
  <2>4. CASE ~Recv /\ ~Transmit
    BY <1>5, <1>8, <2>1, <2>4 DEF DispatchThread, BuildFdSets, Select, ReadSlot,
         RouteOne, RouteAllFd, RouteAllMode, kernel
  <2> QED BY <2>2, <2>3, <2>4
<1>9. CASE UNCHANGED vars
  BY <1>5, <1>9 DEF vars, kernel, thread
<1> QED BY <1>2, <1>3, <1>7, <1>8, <1>9 DEF Next

(* A slot that is taken keeps its number.                                  *)
LEMMA SlotsKept ==
  ASSUME Settled, NothingDeleted, [Next]_vars,
         NEW m \in Modules, fd_array[m] # DISPATCH_INVALID_FD
  PROVE  fd_array'[m] = fd_array[m]
<1>1. ASSUME NEW t \in Threads, RegisterStore(t) PROVE fd_array'[m] = fd_array[m]
  <2>1. DispatchEnd(t) = DISPATCH_INVALID_FD
    BY <1>1 DEF RegisterStore, Settled, ChannelInv, OwnershipOf
  <2> QED BY <1>1, <2>1, TypeInvParts DEF RegisterStore, DispatchEnd, Settled, SlotsType
<1>2. \A t \in Threads : ~Delete(t)
  BY DEF NothingDeleted, Delete, DeleteClose, DeleteClear, DeleteOwn, Settled, Stable
<1>3. ASSUME NEW t \in Threads, Register(t) \/ Exchange(t)
      PROVE  fd_array'[m] = fd_array[m]
  BY <1>1, <1>3 DEF Register, RegisterOpen, RegisterMode, Exchange, SendMsg,
       SendMultiMsg, Send, RecvMsg, slots
<1>4. CASE DispatchThread \/ UNCHANGED vars
  BY <1>4 DEF DispatchThread, BuildFdSets, Select, ReadSlot, Recv, RouteOne,
       RouteAllFd, RouteAllMode, Transmit, vars, slots
<1> QED BY <1>2, <1>3, <1>4 DEF Next

(* Registering changes no queue, and what a new channel holds is empty.    *)
LEMMA RegisterQuiet ==
  ASSUME Settled, Settled', ZeroIsTaken, NEW t \in Threads, Register(t),
         NEW u \in Threads
  PROVE  Sent(u)' = Sent(u) /\ Inbox(u)' = Inbox(u) /\ Seen(u)' = Seen(u)
<1>1. CASE RegisterStore(t) \/ RegisterMode(t)
  BY <1>1 DEF RegisterStore, RegisterMode, kernel, Sent, Inbox, Seen
<1>2. CASE \E mode \in Modes : RegisterOpen(t, mode)
  <2>1. PICK f \in Fds \ opened, g \in Fds \ opened :
          /\ f # g /\ handle[t] = NoFd
          /\ peer' = [peer EXCEPT ![f] = g, ![g] = f]
          /\ handle' = [handle EXCEPT ![t] = g]
          /\ UNCHANGED <<inq, received>>
    BY <1>2 DEF RegisterOpen
  <2>2. /\ DOMAIN handle = Threads /\ DOMAIN peer = Fds
        /\ inq[f] = <<>> /\ inq[g] = <<>> /\ g # NoFd /\ opened \subseteq Fds
    BY TypeInvParts, ConstantsAssumption
       DEF Settled, ThreadVarsType, KernelType, Stable
  <2>3. Sent(u)' = Sent(u) /\ Inbox(u)' = Inbox(u)
    <3>1. CASE u = t
      BY <2>1, <2>2, <3>1 DEF Sent, Inbox
    <3>2. CASE u # t
      <4>1. handle'[u] = handle[u]
        BY <2>1, <2>2, <3>2
      <4>2. handle[u] # NoFd => handle[u] \in opened
        BY Ends DEF Paired
      <4>3. handle[u] # NoFd => peer'[handle[u]] = peer[handle[u]]
        BY <2>1, <2>2, <4>2
      <4> QED BY <2>1, <4>1, <4>3 DEF Sent, Inbox
    <3> QED BY <3>1, <3>2
  <2> QED BY <2>1, <2>3 DEF Seen
<1> QED BY <1>1, <1>2 DEF Register

(* What has been seen, when a packet is added to the queue or received.    *)
Msgs(q) == [k \in DOMAIN q |-> q[k].msg]

LEMMA SeenIs ==
  ASSUME NEW r \in Seq(Msg), NEW q \in Seq(Packet)
  PROVE  /\ r \o Msgs(q) \in Seq(Msg)
         /\ Len(r \o Msgs(q)) = Len(r) + Len(q)
         /\ \A k \in 1 .. Len(r) + Len(q) :
              (r \o Msgs(q))[k] = IF k <= Len(r) THEN r[k] ELSE q[k - Len(r)].msg
<1> DEFINE m == Msgs(q)
<1>1. /\ m \in Seq(Msg) /\ Len(m) = Len(q)
      /\ \A k \in 1 .. Len(q) : m[k] = q[k].msg
  <2>1. DOMAIN q = 1 .. Len(q) /\ \A k \in 1 .. Len(q) : q[k] \in Packet
    OBVIOUS
  <2>2. \A k \in 1 .. Len(q) : q[k].msg \in Msg
    BY <2>1 DEF Packet
  <2> QED BY <2>1, <2>2 DEF Msgs
<1>2. Len(q) \in Nat /\ Len(r) \in Nat
  OBVIOUS
<1> HIDE DEF m
<1>3. r \o m \in Seq(Msg) /\ Len(r \o m) = Len(r) + Len(m)
  BY <1>1
<1>4. \A k \in 1 .. Len(r) + Len(m) :
        (r \o m)[k] = IF k <= Len(r) THEN r[k] ELSE m[k - Len(r)]
  BY <1>1
<1>5. ASSUME NEW k \in 1 .. Len(r) + Len(q)
      PROVE  (r \o m)[k] = IF k <= Len(r) THEN r[k] ELSE q[k - Len(r)].msg
  <2>1. CASE k <= Len(r)
    BY <1>1, <1>4, <2>1
  <2>2. CASE ~(k <= Len(r))
    <3>1. k - Len(r) \in 1 .. Len(q)
      BY <1>2, <2>2
    <3> QED BY <1>1, <1>4, <2>2, <3>1
  <2> QED BY <2>1, <2>2
<1> QED BY <1>1, <1>3, <1>5 DEF m

(* What a thread sees are messages.                                        *)
LEMMA SeenType ==
  ASSUME Settled, ZeroIsTaken, NEW u \in Threads
  PROVE  Seen(u) \in Seq(Msg)
<1>1. received[u] \in Seq(Msg) /\ Inbox(u) \in Seq(Packet)
  BY TypeInvParts, QueuesHold DEF Settled, ThreadVarsType
<1>2. Seen(u) = received[u] \o Msgs(Inbox(u))
  BY DEF Seen, Msgs
<1> QED BY <1>1, <1>2, SeenIs

LEMMA SeenAppended ==
  ASSUME NEW r \in Seq(Msg), NEW q \in Seq(Packet), NEW p \in Packet
  PROVE  /\ r \o Msgs(Append(q, p)) \in Seq(Msg)
         /\ Len(r \o Msgs(Append(q, p))) = Len(r \o Msgs(q)) + 1
         /\ \A k \in 1 .. Len(r \o Msgs(q)) :
              (r \o Msgs(Append(q, p)))[k] = (r \o Msgs(q))[k]
         /\ (r \o Msgs(Append(q, p)))[Len(r \o Msgs(q)) + 1] = p.msg
<1> DEFINE s == r \o Msgs(q)
           a == Append(q, p)
           t == r \o Msgs(a)
<1>1. /\ a \in Seq(Packet) /\ Len(a) = Len(q) + 1 /\ a[Len(q) + 1] = p
      /\ \A k \in 1 .. Len(q) : a[k] = q[k]
      /\ Len(q) \in Nat /\ Len(r) \in Nat
  OBVIOUS
<1>2. /\ Len(s) = Len(r) + Len(q)
      /\ \A k \in 1 .. Len(r) + Len(q) :
           s[k] = IF k <= Len(r) THEN r[k] ELSE q[k - Len(r)].msg
  BY SeenIs
<1>3. /\ t \in Seq(Msg) /\ Len(t) = Len(r) + Len(a)
      /\ \A k \in 1 .. Len(r) + Len(a) :
           t[k] = IF k <= Len(r) THEN r[k] ELSE a[k - Len(r)].msg
  BY <1>1, SeenIs
<1> HIDE DEF s, a, t
<1>4. \A k \in 1 .. Len(s) : t[k] = s[k]
  <2> SUFFICES ASSUME NEW k \in 1 .. Len(r) + Len(q) PROVE t[k] = s[k]
    BY <1>2
  <2>1. CASE k <= Len(r)
    BY <1>1, <1>2, <1>3, <2>1
  <2>2. CASE ~(k <= Len(r))
    <3>1. /\ k - Len(r) \in 1 .. Len(q) /\ k \in 1 .. Len(r) + Len(a)
      BY <1>1, <2>2
    <3>2. t[k] = a[k - Len(r)].msg
      BY <1>3, <2>2, <3>1
    <3>3. s[k] = q[k - Len(r)].msg
      BY <1>2, <2>2
    <3> QED BY <1>1, <3>1, <3>2, <3>3
  <2> QED BY <2>1, <2>2
<1>5. t[Len(s) + 1] = p.msg
  <2>1. Len(s) + 1 \in 1 .. Len(r) + Len(a) /\ ~(Len(s) + 1 <= Len(r))
        /\ Len(s) + 1 - Len(r) = Len(q) + 1
    BY <1>1, <1>2
  <2> QED BY <1>1, <1>3, <2>1
<1>6. Len(t) = Len(s) + 1
  BY <1>1, <1>2, <1>3
<1> QED BY <1>3, <1>4, <1>5, <1>6 DEF s, a, t

LEMMA SeenReceived ==
  ASSUME NEW r \in Seq(Msg), NEW q \in Seq(Packet), q # <<>>
  PROVE  Append(r, Head(q).msg) \o Msgs(Tail(q)) = r \o Msgs(q)
<1> DEFINE r1 == Append(r, Head(q).msg)
           q1 == Tail(q)
           s == r \o Msgs(q)
           t == r1 \o Msgs(q1)
<1>1. /\ Head(q) \in Packet /\ Head(q) = q[1]
      /\ q1 \in Seq(Packet) /\ Len(q1) = Len(q) - 1
      /\ \A k \in 1 .. Len(q) - 1 : q1[k] = q[k + 1]
      /\ Len(q) \in Nat \ {0} /\ Len(r) \in Nat
  OBVIOUS
<1>2. /\ r1 \in Seq(Msg) /\ Len(r1) = Len(r) + 1
      /\ \A k \in 1 .. Len(r) : r1[k] = r[k]
      /\ r1[Len(r) + 1] = q[1].msg
  BY <1>1 DEF Packet
<1>3. /\ s \in Seq(Msg) /\ Len(s) = Len(r) + Len(q)
      /\ \A k \in 1 .. Len(r) + Len(q) :
           s[k] = IF k <= Len(r) THEN r[k] ELSE q[k - Len(r)].msg
  BY SeenIs
<1>4. /\ t \in Seq(Msg) /\ Len(t) = Len(r1) + Len(q1)
      /\ \A k \in 1 .. Len(r1) + Len(q1) :
           t[k] = IF k <= Len(r1) THEN r1[k] ELSE q1[k - Len(r1)].msg
  <2> HIDE DEF r1, q1
  <2> QED BY <1>1, <1>2, SeenIs
<1> HIDE DEF s, t, r1, q1
<1>5. Len(t) = Len(s)
  BY <1>1, <1>2, <1>3, <1>4
<1>6. \A k \in 1 .. Len(s) : t[k] = s[k]
  <2> SUFFICES ASSUME NEW k \in 1 .. Len(r) + Len(q) PROVE t[k] = s[k]
    BY <1>3
  <2>0. Len(r1) = Len(r) + 1 /\ Len(q1) = Len(q) - 1
    BY <1>1, <1>2
  <2>1. CASE k <= Len(r)
    <3>1. k \in 1 .. Len(r) /\ k <= Len(r1) /\ k \in 1 .. Len(r1) + Len(q1)
      BY <1>1, <2>0, <2>1
    <3> QED BY <1>2, <1>3, <1>4, <2>1, <3>1
  <2>2. CASE k = Len(r) + 1
    BY <1>1, <1>2, <1>3, <1>4, <2>2
  <2>3. CASE k > Len(r) + 1
    <3>1. k - Len(r1) \in 1 .. Len(q) - 1 /\ k - Len(r1) + 1 = k - Len(r)
      BY <1>1, <1>2, <2>3
    <3>2. t[k] = q1[k - Len(r1)].msg
      <4>1. k \in 1 .. Len(r1) + Len(q1) /\ ~(k <= Len(r1))
        BY <1>1, <2>0, <2>3
      <4> QED BY <1>4, <4>1
    <3>3. s[k] = q[k - Len(r)].msg
      BY <1>1, <1>3, <2>3
    <3> QED BY <1>1, <3>1, <3>2, <3>3
  <2> QED BY <1>1, <2>1, <2>2, <2>3
<1>7. t = s
  <2>1. s \in Seq(Msg) /\ t \in Seq(Msg)
    BY <1>3, <1>4
  <2>2. s \in [1 .. Len(s) -> Msg] /\ t \in [1 .. Len(t) -> Msg]
    BY <2>1
  <2> QED BY <1>5, <1>6, <2>2
<1> QED BY <1>7 DEF s, t, r1, q1

(* dispatch_send adds a packet to what its caller has sent.                *)
LEMMA SendQueues ==
  ASSUME Settled, ZeroIsTaken, NEW t \in Threads, NEW src, NEW dest,
         Send(t, src, dest)
  PROVE  LET n == IF Recycle THEN 0 ELSE nsent[t] + 1
             msg == [by |-> t, src |-> src, dest |-> dest, n |-> n]
         IN /\ Sent(t)' = Append(Sent(t), [size |-> "message_t", msg |-> msg])
            /\ \A u \in Threads \ {t} : Sent(u)' = Sent(u)
            /\ \A u \in Threads : Inbox(u)' = Inbox(u) /\ Seen(u)' = Seen(u)
<1> DEFINE n == IF Recycle THEN 0 ELSE nsent[t] + 1
           msg == [by |-> t, src |-> src, dest |-> dest, n |-> n]
           q == Append(inq[peer[handle[t]]], [size |-> "message_t", msg |-> msg])
<1>1. /\ handle[t] # NoFd /\ UNCHANGED <<handle, peer, received>>
      /\ inq' = [inq EXCEPT ![peer[handle[t]]] = q]
  BY DEF Send, Enqueue
<1> HIDE DEF msg
<1>2. /\ Sent(t)' = q
      /\ \A u \in Threads \ {t} : Sent(u)' = Sent(u)
      /\ \A u \in Threads : Inbox(u)' = Inbox(u)
  BY <1>1, DispatchQueueChanged
<1>3. q = Append(Sent(t), [size |-> "message_t", msg |-> msg])
  BY <1>1 DEF Sent
<1>4. \A u \in Threads : Seen(u)' = Seen(u)
  BY <1>1, <1>2 DEF Seen
<1> QED BY <1>2, <1>3, <1>4 DEF msg

(* dispatch_recv_msg takes a packet: where messages are numbered, it goes  *)
(* from the queue to what was received; otherwise it is forgotten.         *)
LEMMA RecvMsgQueues ==
  ASSUME Settled, ZeroIsTaken, NEW t \in Threads, RecvMsg(t)
  PROVE  /\ Inbox(t) # <<>> /\ Inbox(t)' = Tail(Inbox(t))
         /\ \A u \in Threads \ {t} : Inbox(u)' = Inbox(u) /\ Seen(u)' = Seen(u)
         /\ \A u \in Threads : Sent(u)' = Sent(u)
         /\ ~Recycle => Seen(t)' = Seen(t)
         /\ \A k \in DOMAIN Seen(t)' : \E l \in DOMAIN Seen(t) : Seen(t)'[k] = Seen(t)[l]
<1>1. handle[t] # NoFd /\ UNCHANGED <<handle, peer>>
  BY ConstantsAssumption, TypeInvParts DEF RecvMsg, Settled, KernelType
<1>2. /\ Inbox(t) = inq[handle[t]] /\ Inbox(t) # <<>>
      /\ inq' = [inq EXCEPT ![handle[t]] = Tail(Inbox(t))]
      /\ received' = IF Recycle THEN received
                     ELSE [received EXCEPT ![t] = Append(@, Head(Inbox(t)).msg)]
  BY <1>1 DEF Inbox, RecvMsg
<1>3. /\ Inbox(t)' = Tail(Inbox(t))
      /\ \A u \in Threads \ {t} : Inbox(u)' = Inbox(u)
      /\ \A u \in Threads : Sent(u)' = Sent(u)
  BY <1>1, <1>2, ThreadQueueChanged
<1>4. /\ Inbox(t) \in Seq(Packet) /\ received \in [Threads -> Seq(Msg)]
  BY QueuesHold, TypeInvParts DEF Settled, ThreadVarsType
<1>5. \A u \in Threads \ {t} : Seen(u)' = Seen(u)
  <2>1. \A u \in Threads \ {t} : received'[u] = received[u]
    BY <1>2, <1>4
  <2> QED BY <1>3, <2>1 DEF Seen
<1>6. CASE ~Recycle
  <2>1. received'[t] = Append(received[t], Head(Inbox(t)).msg)
    BY <1>2, <1>4, <1>6
  <2>2. Seen(t)' = received'[t] \o Msgs(Inbox(t)')
        /\ Seen(t) = received[t] \o Msgs(Inbox(t))
    BY DEF Seen, Msgs
  <2>3. Seen(t)' = Seen(t)
    BY <1>2, <1>3, <1>4, <2>1, <2>2, SeenReceived
  <2> QED BY <1>2, <1>3, <1>5, <2>3
<1>7. CASE Recycle
  <2> DEFINE r == received[t]
             q == Inbox(t)
  <2>1. Seen(t)' = r \o Msgs(Tail(q)) /\ Seen(t) = r \o Msgs(q)
    BY <1>2, <1>3, <1>7 DEF Seen, Msgs
  <2>2. /\ q \in Seq(Packet) /\ r \in Seq(Msg) /\ q # <<>>
    BY <1>2, <1>4
  <2> HIDE DEF q, r
  <2>3. /\ Tail(q) \in Seq(Packet) /\ Len(Tail(q)) = Len(q) - 1
        /\ \A k \in 1 .. Len(q) - 1 : Tail(q)[k] = q[k + 1]
        /\ Len(q) \in Nat /\ Len(r) \in Nat
    BY <2>2
  <2>4. /\ DOMAIN (r \o Msgs(Tail(q))) = 1 .. Len(r) + Len(q) - 1
        /\ DOMAIN (r \o Msgs(q)) = 1 .. Len(r) + Len(q)
    <3>1. /\ r \o Msgs(Tail(q)) \in Seq(Msg) /\ r \o Msgs(q) \in Seq(Msg)
          /\ Len(r \o Msgs(Tail(q))) = Len(r) + (Len(q) - 1)
          /\ Len(r \o Msgs(q)) = Len(r) + Len(q)
      BY <2>2, <2>3, SeenIs
    <3> QED BY <2>3, <3>1
  <2> DEFINE s == r \o Msgs(q)
             s1 == r \o Msgs(Tail(q))
  <2>5. ASSUME NEW k \in 1 .. Len(r) + Len(q) - 1
        PROVE  \E l \in 1 .. Len(r) + Len(q) : s1[k] = s[l]
    <3>0. k \in 1 .. Len(r) + Len(q) /\ k + 1 \in 1 .. Len(r) + Len(q)
      BY <2>3
    <3>1. CASE k <= Len(r)
      <4>1. s1[k] = r[k] /\ s[k] = r[k]
        BY <2>2, <2>3, <3>1, SeenIs
      <4> HIDE DEF s, s1
      <4> QED BY <3>0, <4>1
    <3>2. CASE ~(k <= Len(r))
      <4>1. k - Len(r) \in 1 .. Len(q) - 1 /\ k + 1 - Len(r) = k - Len(r) + 1
        BY <2>3, <3>2
      <4>2. s1[k] = Tail(q)[k - Len(r)].msg
        BY <2>2, <2>3, <3>2, SeenIs
      <4>3. s[k + 1] = q[k + 1 - Len(r)].msg
        BY <2>2, <2>3, <3>2, SeenIs
      <4>4. Tail(q)[k - Len(r)] = q[k + 1 - Len(r)]
        BY <2>3, <4>1
      <4> HIDE DEF s, s1
      <4> QED BY <3>0, <4>2, <4>3, <4>4
    <3> QED BY <3>1, <3>2
  <2> QED BY <1>2, <1>3, <1>5, <1>7, <2>1, <2>4, <2>5
<1> QED BY <1>6, <1>7

(* recv in the dispatch thread takes the head of what one thread has sent. *)
LEMMA RecvQueues ==
  ASSUME Settled, RoutingState, ZeroIsTaken, Recv, ~UNCHANGED inq
  PROVE  \E t \in Threads :
           /\ Sent(t) # <<>> /\ Sent(t)' = Tail(Sent(t))
           /\ \A u \in Threads \ {t} : Sent(u)' = Sent(u)
           /\ \A u \in Threads : Inbox(u)' = Inbox(u) /\ Seen(u)' = Seen(u)
           /\ IF Head(Sent(t)).size = "message_t"
              THEN /\ message' = Head(Sent(t)).msg /\ dpc' = "route"
                   /\ UNCHANGED <<i, j, read_fds, dispatch_fd, info>>
              ELSE Advance
<1>1. /\ dispatch_fd = fd_array[i] /\ dispatch_fd \in Fds /\ i \in Modules
  BY TypeInvParts DEF Recv, RoutingState, Settled, DispatchTypes, DispatchVarsType
<1>2. PICK t \in Threads : handle[t] # NoFd /\ peer[handle[t]] = dispatch_fd
  BY <1>1, SlotOfThread DEF ZeroIsTaken
<1>3. Sent(t) = inq[dispatch_fd]
  BY <1>2 DEF Sent
<1>4. /\ Sent(t) # <<>> /\ UNCHANGED <<handle, peer, received>>
      /\ inq' = [inq EXCEPT ![peer[handle[t]]] = Tail(Sent(t))]
      /\ IF Head(Sent(t)).size = "message_t"
         THEN /\ message' = Head(Sent(t)).msg /\ dpc' = "route"
              /\ UNCHANGED <<i, j, read_fds, dispatch_fd, info>>
         ELSE Advance
  BY <1>2, <1>3 DEF Recv, thread
<1>5. /\ Sent(t)' = Tail(Sent(t))
      /\ \A u \in Threads \ {t} : Sent(u)' = Sent(u)
      /\ \A u \in Threads : Inbox(u)' = Inbox(u)
  BY <1>2, <1>4, DispatchQueueChanged
<1>6. \A u \in Threads : Seen(u)' = Seen(u)
  BY <1>4, <1>5 DEF Seen
<1> QED BY <1>4, <1>5, <1>6

(* dispatch_send in the dispatch thread adds the message to what one       *)
(* addressee sees.                                                         *)
LEMMA TransmitQueues ==
  ASSUME Settled, RoutingState, ZeroIsTaken, Transmit, ~UNCHANGED inq
  PROVE  \E t \in Threads :
           /\ DispatchEnd(t) = Head(info)
           /\ Inbox(t)' = Append(Inbox(t), [size |-> "msg", msg |-> message])
           /\ \A u \in Threads \ {t} : Inbox(u)' = Inbox(u) /\ Seen(u)' = Seen(u)
           /\ \A u \in Threads : Sent(u)' = Sent(u)
           /\ Seen(t)' \in Seq(Msg) /\ Len(Seen(t)') = Len(Seen(t)) + 1
           /\ \A k \in 1 .. Len(Seen(t)) : Seen(t)'[k] = Seen(t)[k]
           /\ Seen(t)'[Len(Seen(t)) + 1] = message
<1>1. /\ info \in Seq(Fds) /\ info # <<>> /\ message \in Msg
      /\ UNCHANGED <<handle, peer, received>>
      /\ Enqueue(Head(info), [size |-> "msg", msg |-> message])
  BY TypeInvParts DEF Transmit, Settled, DispatchVarsType, DispatchTypes, thread
<1>2. /\ Head(info) \in Fds
      /\ \E m \in Modules : Head(info) = fd_array[m]
  BY <1>1 DEF RoutingState
<1>3. PICK t \in Threads : /\ handle[t] # NoFd /\ DispatchEnd(t) = Head(info)
                           /\ peer[handle[t]] = Head(info)
  BY <1>2, SlotOfThread DEF ZeroIsTaken
<1>4. peer[Head(info)] = handle[t]
  BY <1>3, Ends DEF Paired
<1> DEFINE p == [size |-> "msg", msg |-> message]
<1>5. inq' = [inq EXCEPT ![handle[t]] = Append(Inbox(t), p)]
  BY <1>1, <1>3, <1>4 DEF Enqueue, Inbox
<1> HIDE DEF p
<1>6. /\ Inbox(t)' = Append(Inbox(t), p)
      /\ \A u \in Threads \ {t} : Inbox(u)' = Inbox(u)
      /\ \A u \in Threads : Sent(u)' = Sent(u)
  BY <1>1, <1>3, <1>5, ThreadQueueChanged
<1>7. \A u \in Threads \ {t} : Seen(u)' = Seen(u)
  BY <1>1, <1>6 DEF Seen
<1>8. p \in Packet /\ p.msg = message
  BY <1>1 DEF p, Packet
<1>9. /\ Seen(t)' \in Seq(Msg) /\ Len(Seen(t)') = Len(Seen(t)) + 1
      /\ \A k \in 1 .. Len(Seen(t)) : Seen(t)'[k] = Seen(t)[k]
      /\ Seen(t)'[Len(Seen(t)) + 1] = message
  <2>1. /\ Seen(t)' = received[t] \o Msgs(Append(Inbox(t), p))
        /\ Seen(t) = received[t] \o Msgs(Inbox(t))
    BY <1>1, <1>6 DEF Seen, Msgs
  <2>2. received[t] \in Seq(Msg) /\ Inbox(t) \in Seq(Packet)
    BY TypeInvParts, QueuesHold DEF Settled, ThreadVarsType
  <2>3. PICK r \in Seq(Msg), q \in Seq(Packet) : r = received[t] /\ q = Inbox(t)
    BY <2>2
  <2> DEFINE before == r \o Msgs(q)
             after  == r \o Msgs(Append(q, p))
  <2>4. Seen(t)' = after /\ Seen(t) = before
    BY <2>1, <2>3
  <2>5. /\ after \in Seq(Msg) /\ Len(after) = Len(before) + 1
        /\ \A k \in 1 .. Len(before) : after[k] = before[k]
        /\ after[Len(before) + 1] = message
    BY <1>8, SeenAppended
  <2> HIDE DEF before, after
  <2> QED BY <2>4, <2>5
<1> QED BY <1>3, <1>6, <1>7, <1>9 DEF p

(* No other step of the dispatch thread changes a queue.                   *)
LEMMA DispatchQuiet ==
  ASSUME DispatchThread \/ UNCHANGED vars, UNCHANGED inq, NEW u \in Threads
  PROVE  Sent(u)' = Sent(u) /\ Inbox(u)' = Inbox(u) /\ Seen(u)' = Seen(u)
<1>1. UNCHANGED <<handle, peer, received>>
  BY DEF DispatchThread, BuildFdSets, Select, ReadSlot, Recv, RouteOne,
       RouteAllFd, RouteAllMode, Transmit, vars, kernel, thread
<1>2. Sent(u)' = Sent(u) /\ Inbox(u)' = Inbox(u)
  BY <1>1 DEF Sent, Inbox
<1> QED BY <1>1, <1>2 DEF Seen

-----------------------------------------------------------------------------
(* What the dispatch thread goes by stays true.                            *)

(* The end of a turn forgets the descriptors.                              *)
LEMMA AdvanceRouting ==
  ASSUME Advance
  PROVE  RoutingState'
<1>1. /\ info' = <<>> /\ j' = FirstId /\ dpc' \in {"scan", "build"}
      /\ DOMAIN info' = {}
  BY DEF Advance
<1> QED BY <1>1 DEF RoutingState

(* The slots of other threads may fill while it works.                     *)
LEMMA ThreadsKeepRouting ==
  ASSUME Settled, RoutingState, ZeroIsTaken, NothingDeleted, [Next]_vars,
         UNCHANGED dispatch
  PROVE  RoutingState'
<1>1. /\ UNCHANGED <<dpc, i, j, dispatch_fd, message, info>>
      /\ i \in Modules /\ j \in Modules /\ info \in Seq(Fds)
      /\ dpc \in {"recv", "mode"} => dispatch_fd \in Fds
  BY TypeInvParts DEF dispatch, Settled, DispatchVarsType, DispatchTypes
<1>2. \A m \in Modules : fd_array[m] \in Fds => fd_array'[m] = fd_array[m]
  BY SlotsKept DEF ZeroIsTaken
<1>3. ASSUME NEW k \in DOMAIN info
      PROVE  \E m \in Modules : /\ info[k] = fd_array'[m] /\ Addressed(message, m)
                                /\ dpc \in {"route", "mode"} => m < j
  <2>1. info[k] \in Fds
    BY <1>1, <1>3
  <2> QED BY <1>2, <2>1 DEF RoutingState
<1> QED BY <1>1, <1>2, <1>3 DEF RoutingState, Addressed

(* What is gathered for the addressees up to j, in dispatch_get_fd.        *)
LEMMA NextAddresseeRouting ==
  ASSUME Settled, UNCHANGED slots, dpc \in {"route", "mode"}, NEW fds \in Seq(Fds),
         \A k \in DOMAIN fds : \E m \in Modules :
            fds[k] = fd_array[m] /\ Addressed(message, m) /\ m <= j,
         \A k, l \in DOMAIN fds : fds[k] = fds[l] => k = l,
         NextAddressee(fds)
  PROVE  RoutingState'
<1>1. CASE Advance
  BY <1>1, AdvanceRouting
<1>2. CASE ~Advance
  <2>1. /\ UNCHANGED <<fd_array, message>> /\ info' = fds
        /\ (dpc' = "route" /\ j' = j + 1) \/ dpc' = "xmit"
    BY <1>2 DEF NextAddressee, slots
  <2>2. j \in Nat /\ \A m \in Modules : m \in Int
    BY TypeInvParts, ConstantsAssumption
       DEF Settled, DispatchVarsType, Modules, FirstId, LastId
  <2>3. \A k \in DOMAIN info' : \E m \in Modules :
          /\ info'[k] = fd_array'[m] /\ Addressed(message', m)
          /\ dpc' \in {"route", "mode"} => m < j'
    BY <2>1, <2>2
  <2>4. \A k, l \in DOMAIN info' : info'[k] = info'[l] => k = l
    BY <2>1
  <2> QED BY <2>1, <2>3, <2>4 DEF RoutingState, Addressed
<1> QED BY <1>1, <1>2

(* The steps of the dispatch thread.                                       *)
LEMMA DispatchRouting ==
  ASSUME Settled, RoutingState, ZeroIsTaken, OneThreadPerModule, DispatchThread
  PROVE  RoutingState'
<1>0. /\ info \in Seq(Fds) /\ i \in Modules /\ j \in Modules
      /\ dpc = "mode" => dispatch_fd \in Fds
      /\ \A m \in Modules : m \in Int
      /\ fd_array \in [Modules -> Fds \cup {DISPATCH_INVALID_FD}]
  BY TypeInvParts, ConstantsAssumption
     DEF Settled, DispatchVarsType, DispatchTypes, SlotsType, Modules, FirstId, LastId
<1>1. UNCHANGED slots
  BY DEF DispatchThread, BuildFdSets, Select, ReadSlot, Recv, RouteOne,
         RouteAllFd, RouteAllMode, Transmit
<1>2. CASE BuildFdSets \/ Select
  <2>1. /\ dpc \in {"build", "select"} /\ dpc' \in {"build", "select", "scan"}
        /\ UNCHANGED <<j, info>>
    BY <1>2 DEF BuildFdSets, Select
  <2>2. info = <<>> /\ j = FirstId /\ DOMAIN info = {}
    BY <2>1 DEF RoutingState
  <2> QED BY <2>1, <2>2 DEF RoutingState
<1>3. CASE ReadSlot /\ ~Advance
  <2>1. /\ dpc = "scan" /\ dpc' = "recv" /\ dispatch_fd' = fd_array[i]
        /\ UNCHANGED <<i, j, info, fd_array>>
    BY <1>1, <1>3 DEF ReadSlot, slots
  <2>2. info = <<>> /\ j = FirstId /\ DOMAIN info = {}
    BY <2>1 DEF RoutingState
  <2> QED BY <2>1, <2>2 DEF RoutingState
<1>4. CASE Recv /\ ~Advance
  <2>1. dpc = "recv" /\ dpc' = "route" /\ UNCHANGED info
    BY <1>4 DEF Recv
  <2>2. info = <<>> /\ DOMAIN info = {}
    BY <2>1 DEF RoutingState
  <2> QED BY <2>1, <2>2 DEF RoutingState
<1>5. CASE RouteOne /\ ~Advance
  <2>1. /\ message.dest \in Modules /\ info' = <<fd_array[message.dest]>>
        /\ dpc' = "xmit" /\ UNCHANGED <<message, fd_array>>
    BY <1>1, <1>5 DEF RouteOne, slots
  <2>2. DOMAIN info' = {1} /\ info'[1] = fd_array'[message.dest]
    BY <2>1
  <2>3. Addressed(message', message.dest)
    BY <2>1 DEF Addressed
  <2> QED BY <2>1, <2>2, <2>3 DEF RoutingState
<1>6. CASE RouteAllFd /\ NextAddressee(info)
  <2>1. dpc = "route"
    BY <1>6 DEF RouteAllFd
  <2> QED BY <1>0, <1>1, <1>6, <2>1, NextAddresseeRouting DEF RoutingState
<1>7. CASE RouteAllFd /\ ~NextAddressee(info)
  <2>1. /\ dpc = "route" /\ message.dest = MODULE_ID_ALL /\ j # message.src
        /\ dpc' = "mode" /\ dispatch_fd' = fd_array[j]
        /\ UNCHANGED <<i, j, message, info, fd_array>>
    BY <1>1, <1>7 DEF RouteAllFd, slots
  <2> QED BY <2>1 DEF RoutingState, Addressed
<1>8. CASE RouteAllMode
  <2>1. /\ dpc = "mode" /\ dispatch_fd = fd_array[j] /\ dispatch_fd \in Fds
        /\ Addressed(message, j)
    BY <1>0, <1>8 DEF RouteAllMode, RoutingState, Addressed
  <2>2. \A k \in DOMAIN info : \E m \in Modules :
          info[k] = fd_array[m] /\ Addressed(message, m) /\ m < j
    BY <2>1 DEF RoutingState
  <2> DEFINE fds == Append(info, dispatch_fd)
             n == Len(info) + 1
  <2>3. /\ fds \in Seq(Fds) /\ DOMAIN fds = DOMAIN info \cup {n}
        /\ fds[n] = dispatch_fd /\ n \notin DOMAIN info
        /\ \A k \in DOMAIN info : fds[k] = info[k]
    BY <1>0, <2>1
  <2> HIDE DEF fds, n
  <2>4. \A k \in DOMAIN fds : \E m \in Modules :
          fds[k] = fd_array[m] /\ Addressed(message, m) /\ m <= j
    BY <1>0, <2>1, <2>2, <2>3
  <2>5. ASSUME NEW k \in DOMAIN info PROVE info[k] # dispatch_fd
    <3>1. PICK m \in Modules : info[k] = fd_array[m] /\ m < j
      BY <2>2
    <3>2. m # j
      BY <1>0, <3>1
    <3>3. fd_array[m] # fd_array[j]
      BY <1>0, <2>1, <3>2, LiveByInv DEF Settled, SlotsLive, ZeroIsTaken
    <3> QED BY <2>1, <3>1, <3>3
  <2>6. \A k, l \in DOMAIN fds : fds[k] = fds[l] => k = l
    BY <2>3, <2>5 DEF RoutingState
  <2>7. CASE NextAddressee(fds)
    BY <1>1, <2>1, <2>3, <2>4, <2>6, <2>7, NextAddresseeRouting
  <2>8. CASE NextAddressee(info)
    <3>1. \A k \in DOMAIN info : \E m \in Modules :
            info[k] = fd_array[m] /\ Addressed(message, m) /\ m <= j
      BY <1>0, <2>2
    <3> QED BY <1>0, <1>1, <2>1, <2>8, <3>1, NextAddresseeRouting DEF RoutingState
  <2> QED BY <1>8, <2>7, <2>8 DEF RouteAllMode, fds
<1>9. CASE Transmit /\ ~Advance
  <2>0. /\ dpc = "xmit" /\ UNCHANGED <<dpc, message, fd_array>>
        /\ info' = info \/ (Len(info) > 1 /\ info' = Tail(info))
    BY <1>1, <1>9 DEF Transmit, NextFd, Interrupted, slots
  <2> SUFFICES ASSUME info' # info PROVE RoutingState'
    BY <2>0 DEF RoutingState
  <2>1. Len(info) > 1 /\ info' = Tail(info) /\ UNCHANGED <<message, fd_array>>
    BY <2>0
  <2>2. /\ DOMAIN info' = 1 .. Len(info) - 1
        /\ \A k \in DOMAIN info' : info'[k] = info[k + 1] /\ k + 1 \in DOMAIN info
    BY <1>0, <2>1
  <2>3. \A k \in DOMAIN info' : \E m \in Modules :
          info'[k] = fd_array'[m] /\ Addressed(message', m)
    BY <2>1, <2>2 DEF RoutingState
  <2>4. ASSUME NEW k \in DOMAIN info', NEW l \in DOMAIN info', info'[k] = info'[l]
        PROVE  k = l
    <3>1. k + 1 = l + 1
      BY <2>2, <2>4 DEF RoutingState
    <3> QED BY <2>2, <3>1
  <2> QED BY <2>0, <2>1, <2>3, <2>4 DEF RoutingState
<1>10. CASE Advance
  BY <1>10, AdvanceRouting
<1> QED BY <1>2, <1>3, <1>4, <1>5, <1>6, <1>7, <1>8, <1>9, <1>10 DEF DispatchThread

(* Every step keeps what the dispatch thread goes by.                      *)
LEMMA StepRouting ==
  ASSUME Settled, RoutingState, ZeroIsTaken, OneThreadPerModule, NothingDeleted,
         [Next]_vars
  PROVE  RoutingState'
<1>1. CASE DispatchThread
  BY <1>1, DispatchRouting
<1>2. CASE ~DispatchThread
  <2>1. UNCHANGED dispatch
    BY <1>2 DEF Next, Register, RegisterOpen, RegisterStore, RegisterMode, Delete,
         DeleteClose, DeleteClear, DeleteOwn, Exchange, SendMsg, SendMultiMsg, Send,
         RecvMsg, vars
  <2> QED BY <2>1, ThreadsKeepRouting
<1> QED BY <1>1, <1>2

(* Only messages for a thread join what the thread has seen.               *)
LEMMA StepAddressed ==
  ASSUME Settled, Settled', RoutingState, OnlyAddressed, ZeroIsTaken,
         OneThreadPerModule, NothingDeleted, [Next]_vars
  PROVE  OnlyAddressed'
<1>1. ASSUME \A u \in Threads : \A k \in DOMAIN Seen(u)' :
               \/ \E l \in DOMAIN Seen(u) : Seen(u)'[k] = Seen(u)[l]
               \/ Addressed(Seen(u)'[k], ModuleOf[u])
      PROVE  OnlyAddressed'
  BY <1>1 DEF OnlyAddressed, Addressed
<1>2. ASSUME \A u \in Threads : Seen(u)' = Seen(u) PROVE OnlyAddressed'
  BY <1>2, Zenon DEF OnlyAddressed
<1>3. \A t \in Threads : ~Delete(t)
  BY DEF NothingDeleted, Delete, DeleteClose, DeleteClear, DeleteOwn, Settled, Stable
<1>4. ASSUME NEW t \in Threads, Register(t) PROVE OnlyAddressed'
  BY <1>2, <1>4, RegisterQuiet
<1>5. ASSUME NEW t \in Threads, NEW src, NEW dest, Send(t, src, dest)
      PROVE  OnlyAddressed'
  BY <1>2, <1>5, SendQueues
<1>6. ASSUME NEW t \in Threads, RecvMsg(t) PROVE OnlyAddressed'
  <2>1. \A u \in Threads \ {t} : Seen(u)' = Seen(u)
    BY <1>6, RecvMsgQueues
  <2>2. \A k \in DOMAIN Seen(t)' : \E l \in DOMAIN Seen(t) : Seen(t)'[k] = Seen(t)[l]
    BY <1>6, RecvMsgQueues
  <2> QED BY <1>1, <2>1, <2>2
<1>7. ASSUME NEW t \in Threads, Exchange(t) PROVE OnlyAddressed'
  BY <1>5, <1>6, <1>7 DEF Exchange, SendMsg, SendMultiMsg
<1>8. CASE Transmit /\ ~UNCHANGED inq
  <2>1. PICK t \in Threads :
          /\ DispatchEnd(t) = Head(info)
          /\ \A u \in Threads \ {t} : Seen(u)' = Seen(u)
          /\ Seen(t)' \in Seq(Msg) /\ Len(Seen(t)') = Len(Seen(t)) + 1
          /\ \A k \in 1 .. Len(Seen(t)) : Seen(t)'[k] = Seen(t)[k]
          /\ Seen(t)'[Len(Seen(t)) + 1] = message
    BY <1>8, TransmitQueues
  <2>2. Addressed(message, ModuleOf[t])
    <3>1. /\ info \in Seq(Fds) /\ info # <<>>
      BY <1>8, TypeInvParts DEF Transmit, Settled, DispatchVarsType, DispatchTypes
    <3>2. 1 \in DOMAIN info /\ Head(info) = info[1] /\ Head(info) \in Fds
      BY <3>1
    <3>3. PICK m \in Modules : Head(info) = fd_array[m] /\ Addressed(message, m)
      BY <3>2 DEF RoutingState
    <3>4. ModuleOf[t] \in Modules /\ fd_array[ModuleOf[t]] = fd_array[m]
      BY <2>1, <3>3, ConstantsAssumption DEF DispatchEnd
    <3>5. ModuleOf[t] = m
      BY <3>2, <3>3, <3>4, LiveByInv DEF Settled, SlotsLive, ZeroIsTaken
    <3> QED BY <3>3, <3>5
  <2>3. /\ DOMAIN Seen(t) = 1 .. Len(Seen(t)) /\ Len(Seen(t)) \in Nat
        /\ DOMAIN Seen(t)' = 1 .. Len(Seen(t)')
    BY <2>1, SeenType
  <2>4. ASSUME NEW k \in DOMAIN Seen(t)'
        PROVE  \/ \E l \in DOMAIN Seen(t) : Seen(t)'[k] = Seen(t)[l]
               \/ Addressed(Seen(t)'[k], ModuleOf[t])
    <3>1. k \in 1 .. Len(Seen(t)) \/ k = Len(Seen(t)) + 1
      BY <2>1, <2>3
    <3> QED BY <2>1, <2>2, <2>3, <3>1
  <2> QED BY <1>1, <2>1, <2>4
<1>9. CASE Recv /\ ~UNCHANGED inq
  BY <1>2, <1>9, RecvQueues
<1>10. CASE (DispatchThread \/ UNCHANGED vars) /\ UNCHANGED inq
  BY <1>2, <1>10, DispatchQuiet
<1>11. DispatchThread /\ ~UNCHANGED inq => Transmit \/ Recv
  BY DEF DispatchThread, BuildFdSets, Select, ReadSlot, RouteOne,
         RouteAllFd, RouteAllMode, kernel
<1>12. UNCHANGED vars => UNCHANGED inq
  BY DEF vars, kernel
<1> QED BY <1>3, <1>4, <1>7, <1>8, <1>9, <1>10, <1>11, <1>12 DEF Next

(* Before anything is sent nothing is wrong.                               *)
LEMMA InitRouting == Init => Settled /\ RoutingInv
<1> SUFFICES ASSUME Init PROVE Settled /\ RoutingInv
  OBVIOUS
<1>1. Stable
  BY DEF Init, Stable
<1>2. RoutingState
  <2>1. info = <<>> /\ DOMAIN info = {} /\ dpc = "build" /\ j = FirstId
    BY DEF Init
  <2> QED BY <2>1 DEF RoutingState
<1>3. \A u \in Threads : Seen(u) = <<>>
  BY DEF Init, Seen, Inbox
<1>4. OnlyAddressed
  BY <1>3 DEF OnlyAddressed
<1> QED BY <1>1, <1>2, <1>4, InitType, InitChannels DEF Settled, RoutingInv

LEMMA StepSettled ==
  ASSUME Settled, ZeroIsTaken, OneThreadPerModule, NothingDeleted, [Next]_vars
  PROVE  Settled'
<1>1. TypeInv'
  BY RegisterType, DeleteType, ExchangeType, DispatchType, StutterType DEF Next, Settled
<1>2. ChannelInv'
  BY StepChannels DEF Settled
<1> QED BY <1>1, <1>2, StableKept DEF Settled

(* The invariant of routing holds throughout, when no channel is deleted.  *)
THEOREM RoutingInvariant ==
  ASSUME OneThreadPerModule, ZeroIsTaken, NothingDeleted
  PROVE  Spec => [](Settled /\ RoutingInv)
<1>1. Init => Settled /\ RoutingInv
  BY InitRouting
<1>2. Settled /\ RoutingInv /\ [Next]_vars => (Settled /\ RoutingInv)'
  <2> SUFFICES ASSUME Settled, RoutingInv, [Next]_vars
               PROVE  Settled' /\ RoutingInv'
    OBVIOUS
  <2>1. Settled'
    BY StepSettled
  <2>2. RoutingState'
    BY StepRouting DEF RoutingInv
  <2>3. OnlyAddressed'
    BY <2>1, StepAddressed DEF RoutingInv
  <2> QED BY <2>1, <2>2, <2>3 DEF RoutingInv, Settled
<1> QED BY <1>1, <1>2, PTL DEF Spec

(* A message reaches the modules it is addressed to and no other, for any  *)
(* number of modules, threads and messages, as long as no channel is       *)
(* deleted: a deletion lets the kernel give the number that the dispatch   *)
(* thread has read to another module (dispatch_get_fd).                    *)
THEOREM OnlyTheAddressed ==
  ASSUME OneThreadPerModule, ZeroIsTaken, NothingDeleted
  PROVE  Spec => []OnlyAddressed
<1>1. Settled /\ RoutingInv => OnlyAddressed
  BY DEF RoutingInv
<1> QED BY <1>1, RoutingInvariant, PTL

-----------------------------------------------------------------------------
(* The order of the messages of one sender.                                *)

(* A step that changes no queue keeps the order of what is in them.        *)
QueuesSame ==
  /\ \A u \in Threads : Sent(u)' = Sent(u) /\ Inbox(u)' = Inbox(u) /\ Seen(u)' = Seen(u)
  /\ UNCHANGED nsent

LEMMA MessageTypes ==
  ASSUME Settled, ZeroIsTaken, NEW u \in Threads
  PROVE  /\ \A k \in DOMAIN Seen(u) : Seen(u)[k] \in Msg
         /\ \A k \in DOMAIN Sent(u) : Sent(u)[k].msg \in Msg
         /\ nsent[u] \in Nat
         /\ \A m \in Msg : m.n \in Nat /\ m.by \in Threads
<1>1. Seen(u) \in Seq(Msg) /\ Sent(u) \in Seq(Packet)
  BY SeenType, QueuesHold
<1>2. \A k \in DOMAIN Seen(u) : Seen(u)[k] \in Msg
  BY <1>1
<1>3. \A k \in DOMAIN Sent(u) : Sent(u)[k] \in Packet
  BY <1>1
<1>4. \A k \in DOMAIN Sent(u) : Sent(u)[k].msg \in Msg
  BY <1>3 DEF Packet
<1>5. nsent[u] \in Nat
  BY TypeInvParts, ConstantsAssumption DEF Settled, ThreadVarsType
<1>6. \A m \in Msg : m.n \in Nat /\ m.by \in Threads
  BY ConstantsAssumption DEF Msg
<1> QED BY <1>2, <1>4, <1>5, <1>6

(* Nothing said of a message that came before changes when no queue does.  *)
LEMMA BeforeKept ==
  ASSUME QueuesSame, NEW m \in Msg
  PROVE  /\ BeforeSent(m) => BeforeSent(m)'
         /\ \A u \in Threads : SeenBefore(u, m) => SeenBefore(u, m)'
<1>1. m.by \in Threads
  BY DEF Msg
<1>2. BeforeSent(m) => BeforeSent(m)'
  BY <1>1 DEF QueuesSame, BeforeSent
<1>3. ASSUME NEW u \in Threads, SeenBefore(u, m) PROVE SeenBefore(u, m)'
  <2>1. Seen(u)' = Seen(u)
    BY DEF QueuesSame
  <2> QED BY <1>3, <2>1, Zenon DEF SeenBefore
<1> QED BY <1>2, <1>3

LEMMA QueuesKeepOrder ==
  ASSUME Settled, ZeroIsTaken, OrderInv, QueuesSame
  PROVE  SentInOrder' /\ SeenInOrder' /\ FifoPerSender'
<1>1. SentInOrder'
  BY DEF OrderInv, SentInOrder, QueuesSame
<1>2. SeenInOrder'
  <2> SUFFICES ASSUME NEW u \in Threads, NEW k \in DOMAIN Seen(u)'
               PROVE  BeforeSent(Seen(u)[k])'
    BY DEF SeenInOrder
  <2>1. Seen(u)' = Seen(u)
    BY DEF QueuesSame
  <2>2. Seen(u)[k] \in Msg /\ BeforeSent(Seen(u)[k])
    BY <2>1, MessageTypes DEF OrderInv, SeenInOrder
  <2>3. PICK m \in Msg : m = Seen(u)[k]
    BY <2>2
  <2>4. BeforeSent(m)'
    BY <2>2, <2>3, BeforeKept
  <2> QED BY <2>1, <2>3, <2>4 DEF BeforeSent
<1>3. FifoPerSender'
  BY DEF OrderInv, FifoPerSender, QueuesSame
<1> QED BY <1>1, <1>2, <1>3

(* recv takes a packet, or the turn is over.                               *)
LEMMA RecvTakes ==
  ASSUME Settled, Recv, UNCHANGED inq
  PROVE  Advance
<1> SUFFICES ASSUME ~Advance PROVE FALSE
  OBVIOUS
<1>1. /\ dispatch_fd \in Fds /\ inq[dispatch_fd] # <<>>
      /\ inq' = [inq EXCEPT ![dispatch_fd] = Tail(@)]
  BY TypeInvParts DEF Recv, Settled, KernelType
<1> DEFINE q == inq[dispatch_fd]
<1>2. q \in Seq(Packet) /\ inq \in [Fds -> Seq(Packet)]
  BY <1>1, TypeInvParts DEF Settled, KernelType, QueueType
<1>3. Tail(q) = q
  BY <1>1, <1>2
<1>4. Len(Tail(q)) = Len(q) - 1 /\ Len(q) \in Nat
  BY <1>1, <1>2
<1> HIDE DEF q
<1> QED BY <1>3, <1>4

(* A message in transfer keeps its place while it is routed.               *)
LEMMA TransferKept ==
  ASSUME Settled, Settled', ZeroIsTaken, OneThreadPerModule, NothingDeleted,
         [Next]_vars, RoutingState, OrderInv, QueuesSame,
         Recv => UNCHANGED inq
  PROVE  TransferInOrder'
<1>1. CASE dpc' \notin {"route", "mode", "xmit"}
  BY <1>1 DEF TransferInOrder
<1>2. CASE dpc' \in {"route", "mode", "xmit"}
  <2>1. ~Advance
    BY <1>2 DEF Advance
  <2>2. CASE DispatchThread
    <3>1. /\ UNCHANGED <<slots, message>> /\ dpc \in {"route", "mode", "xmit"}
          /\ \/ dpc \in {"route", "mode"}
             \/ /\ dpc = "xmit" /\ dpc' = "xmit"
                /\ info' = info \/ (info' = Tail(info) /\ Len(info) > 1)
      <4>1. ~Recv
        BY <2>1, RecvTakes
      <4>2. DispatchThread /\ ~Recv /\ ~Advance /\ dpc' \in {"route", "mode", "xmit"}
        BY <1>2, <2>1, <2>2, <4>1
      <4>3. ~BuildFdSets /\ ~Select /\ ~ReadSlot
        BY <4>2 DEF BuildFdSets, Select, ReadSlot
      <4>4. RouteOne \/ RouteAllFd \/ RouteAllMode =>
              /\ UNCHANGED <<slots, message>> /\ dpc \in {"route", "mode"}
        BY <4>2 DEF RouteOne, RouteAllFd, RouteAllMode, NextAddressee
      <4>5. Transmit => /\ UNCHANGED <<slots, message, dpc>> /\ dpc = "xmit"
                        /\ info' = info \/ (info' = Tail(info) /\ Len(info) > 1)
        BY <4>2 DEF Transmit, NextFd, Interrupted
      <4> QED BY <4>2, <4>3, <4>4, <4>5 DEF DispatchThread
    <3>2. message \in Msg /\ info \in Seq(Fds)
      BY <3>1, TypeInvParts DEF Settled, DispatchTypes, DispatchVarsType
    <3>3. BeforeSent(message)'
      <4>1. PICK m \in Msg : m = message
        BY <3>2
      <4>2. BeforeSent(m)'
        BY <3>1, <4>1, BeforeKept DEF OrderInv, TransferInOrder
      <4> QED BY <3>1, <4>1, <4>2 DEF BeforeSent
    <3>4. ASSUME NEW u \in Threads, SeenBefore(u, message)
          PROVE  SeenBefore(u, message)'
      <4>1. PICK m \in Msg : m = message
        BY <3>2
      <4>2. SeenBefore(u, m)'
        BY <3>4, <4>1, BeforeKept
      <4> QED BY <3>1, <4>1, <4>2, Zenon DEF SeenBefore
    <3>5. CASE dpc \in {"route", "mode"}
      BY <3>3, <3>4, <3>5 DEF OrderInv, TransferInOrder
    <3>6. CASE /\ dpc = "xmit" /\ dpc' = "xmit"
               /\ info' = info \/ (info' = Tail(info) /\ Len(info) > 1)
      <4>1. \A k \in DOMAIN info' : \E l \in DOMAIN info : info'[k] = info[l]
        <5>1. Tail(info) = info' => \A k \in DOMAIN info' :
                /\ Len(info) > 1 => info'[k] = info[k + 1] /\ k + 1 \in DOMAIN info
          BY <3>2
        <5> QED BY <3>6, <5>1
      <4>2. \A u \in Threads : DispatchEnd(u)' = DispatchEnd(u)
        BY <3>1 DEF DispatchEnd, slots
      <4> QED BY <3>3, <3>4, <3>6, <4>1, <4>2 DEF OrderInv, TransferInOrder
    <3> QED BY <3>1, <3>5, <3>6
  <2>3. CASE ~DispatchThread
    <3>1. UNCHANGED <<dpc, message, info>>
      BY <2>3 DEF Next, Register, RegisterOpen, RegisterStore, RegisterMode, Delete,
           DeleteClose, DeleteClear, DeleteOwn, Exchange, SendMsg, SendMultiMsg,
           Send, RecvMsg, vars, dispatch
    <3>2. message \in Msg /\ info \in Seq(Fds)
      BY <1>2, <3>1, TypeInvParts DEF Settled, DispatchTypes, DispatchVarsType
    <3>3. PICK m \in Msg : m = message
      BY <3>2
    <3>4. BeforeSent(m) /\ BeforeSent(m)'
      BY <1>2, <3>1, <3>3, BeforeKept DEF OrderInv, TransferInOrder
    <3>5. \A u \in Threads : SeenBefore(u, m) => SeenBefore(u, m)'
      BY BeforeKept
    <3>6. ASSUME NEW u \in Threads, NEW k \in DOMAIN info, DispatchEnd(u)' = info[k]
          PROVE  DispatchEnd(u) = info[k]
      <4>1. PICK n \in Modules : info[k] = fd_array[n] /\ info[k] \in Fds
        BY <3>2, <3>6 DEF RoutingState
      <4>2. fd_array'[n] = fd_array[n]
        BY <4>1, SlotsKept DEF ZeroIsTaken
      <4>3. PICK t \in Threads : ModuleOf[t] = n /\ DispatchEnd(t) = info[k]
        BY <4>1, SlotOfThread DEF ZeroIsTaken
      <4>4. DispatchEnd(t)' = DispatchEnd(u)'
        BY <3>6, <4>1, <4>2, <4>3 DEF DispatchEnd
      <4>5. t = u
        BY <3>6, <4>1, <4>4 DEF Settled, ChannelInv, SlotsOfThreads, ZeroIsTaken
      <4> QED BY <4>3, <4>5
    <3>7. BeforeSent(message)'
      BY <3>1, <3>3, <3>4 DEF BeforeSent
    <3>8. \A u \in Threads : SeenBefore(u, message) => SeenBefore(u, message)'
      BY <3>1, <3>3, <3>5, Zenon DEF SeenBefore
    <3> QED BY <3>1, <3>6, <3>7, <3>8 DEF OrderInv, TransferInOrder
  <2> QED BY <2>2, <2>3
<1> QED BY <1>1, <1>2

(* What dispatch_send adds comes after everything its sender sent before.  *)
LEMMA SendOrder ==
  ASSUME Settled, Settled', ZeroIsTaken, OneThreadPerModule, NothingDeleted,
         [Next]_vars, ~Recycle, RoutingState, OrderInv,
         NEW t \in Threads, NEW src, NEW dest, Send(t, src, dest)
  PROVE  OrderInv'
<1> DEFINE n == nsent[t] + 1
           msg == [by |-> t, src |-> src, dest |-> dest, n |-> n]
           p == [size |-> "message_t", msg |-> msg]
           q == Sent(t)
           q1 == Append(q, p)
<1>1. /\ Sent(t)' = q1
      /\ \A u \in Threads \ {t} : Sent(u)' = Sent(u)
      /\ \A u \in Threads : Inbox(u)' = Inbox(u) /\ Seen(u)' = Seen(u)
  BY SendQueues
<1>2. /\ nsent' = [nsent EXCEPT ![t] = n]
      /\ UNCHANGED <<fd_array, dpc, message, info>>
  BY DEF Send, slots, dispatch
<1>3. /\ nsent[t] \in Nat /\ nsent'[t] = n
      /\ \A u \in Threads \ {t} : nsent'[u] = nsent[u]
  BY <1>2, MessageTypes, TypeInvParts DEF Settled, ThreadVarsType
<1>4. /\ DOMAIN q = 1 .. Len(q) /\ DOMAIN q1 = 1 .. Len(q) + 1
      /\ q1[Len(q) + 1] = p /\ \A k \in 1 .. Len(q) : q1[k] = q[k]
      /\ Len(q) \in Nat
  <2>1. q \in Seq(Packet)
    BY QueuesHold
  <2> HIDE DEF q, p
  <2> QED BY <2>1
<1>5. p.size = "message_t" /\ p.msg = msg /\ msg.by = t /\ msg.n = n
  OBVIOUS
<1> HIDE DEF q, q1, p, msg
<1>6. \A k \in DOMAIN q : /\ q[k].size = "message_t" /\ q[k].msg.by = t
                          /\ q[k].msg.n <= nsent[t] /\ q[k].msg.n \in Nat
                          /\ \A l \in DOMAIN q : k < l => q[k].msg.n < q[l].msg.n
  BY MessageTypes DEF OrderInv, SentInOrder, q
<1>7. SentInOrder'
  <2>1. ASSUME NEW k \in DOMAIN q1
        PROVE  /\ q1[k].size = "message_t" /\ q1[k].msg.by = t
               /\ q1[k].msg.n <= nsent'[t]
               /\ \A l \in DOMAIN q1 : k < l => q1[k].msg.n < q1[l].msg.n
    <3>1. CASE k = Len(q) + 1
      BY <1>3, <1>4, <1>5, <3>1 DEF n
    <3>2. CASE k \in DOMAIN q
      <4>1. q1[k] = q[k] /\ q[k].msg.n <= nsent[t] /\ q[k].msg.n \in Nat
        BY <1>4, <1>6, <3>2
      <4>2. ASSUME NEW l \in DOMAIN q1, k < l PROVE q1[k].msg.n < q1[l].msg.n
        <5>1. CASE l \in DOMAIN q
          BY <1>4, <1>6, <3>2, <4>1, <4>2, <5>1
        <5>2. CASE l = Len(q) + 1
          BY <1>3, <1>4, <1>5, <4>1, <5>2 DEF n
        <5> QED BY <1>4, <5>1, <5>2
      <4> QED BY <1>3, <1>6, <3>2, <4>1, <4>2 DEF n
    <3> QED BY <1>4, <3>1, <3>2
  <2>2. \A u \in Threads \ {t} : Sent(u)' = Sent(u) /\ nsent'[u] = nsent[u]
    BY <1>1, <1>3
  <2>3. Sent(t)' = q1
    BY <1>1
  <2> QED BY <2>1, <2>2, <2>3 DEF OrderInv, SentInOrder
<1>8. ASSUME NEW m \in Msg, BeforeSent(m) PROVE BeforeSent(m)'
  <2>1. m.by \in Threads /\ m.n \in Nat
    BY MessageTypes
  <2>2. CASE m.by # t
    BY <1>1, <1>3, <1>8, <2>1, <2>2 DEF BeforeSent
  <2>3. CASE m.by = t
    <3>1. m.n <= nsent[t] /\ \A k \in DOMAIN q : m.n < q[k].msg.n
      BY <1>8, <2>3 DEF BeforeSent, q
    <3>2. m.n < n
      BY <1>3, <2>1, <3>1 DEF n
    <3>3. \A k \in DOMAIN q1 : m.n < q1[k].msg.n
      BY <1>4, <1>5, <3>1, <3>2
    <3>4. m.n <= nsent'[t]
      BY <1>3, <2>1, <3>2
    <3>5. Sent(t)' = q1
      BY <1>1
    <3> QED BY <2>3, <3>3, <3>4, <3>5 DEF BeforeSent
  <2> QED BY <2>2, <2>3
<1>9. SeenInOrder'
  <2> SUFFICES ASSUME NEW u \in Threads, NEW k \in DOMAIN Seen(u)'
               PROVE  BeforeSent(Seen(u)[k])'
    BY DEF SeenInOrder
  <2>1. PICK m \in Msg : m = Seen(u)[k]
    BY <1>1, MessageTypes
  <2>2. BeforeSent(m)'
    BY <1>1, <1>8, <2>1 DEF OrderInv, SeenInOrder
  <2> QED BY <1>1, <2>1, <2>2 DEF BeforeSent
<1>10. TransferInOrder'
  <2>1. \A u \in Threads : SeenBefore(u, message) => SeenBefore(u, message)'
    BY <1>1, <1>2, Zenon DEF SeenBefore
  <2>2. dpc \in {"route", "mode", "xmit"} => BeforeSent(message)'
    <3> SUFFICES ASSUME dpc \in {"route", "mode", "xmit"} PROVE BeforeSent(message)'
      OBVIOUS
    <3>1. message \in Msg
      BY TypeInvParts DEF Settled, DispatchTypes
    <3>2. PICK m \in Msg : m = message
      BY <3>1
    <3>3. BeforeSent(m)'
      BY <1>8, <3>2 DEF OrderInv, TransferInOrder
    <3> QED BY <1>2, <3>2, <3>3 DEF BeforeSent
  <2>3. \A u \in Threads : DispatchEnd(u)' = DispatchEnd(u)
    BY <1>2 DEF DispatchEnd
  <2> QED BY <1>2, <2>1, <2>2, <2>3 DEF OrderInv, TransferInOrder
<1>11. FifoPerSender'
  BY <1>1 DEF OrderInv, FifoPerSender
<1> QED BY <1>7, <1>9, <1>10, <1>11 DEF OrderInv

(* What the dispatch thread takes is the oldest that waits, and later than *)
(* all that was seen.                                                      *)
LEMMA RecvOrder ==
  ASSUME Settled, ZeroIsTaken, RoutingState, OrderInv, Recv, ~UNCHANGED inq
  PROVE  OrderInv'
<1>1. PICK t \in Threads :
        /\ Sent(t) # <<>> /\ Sent(t)' = Tail(Sent(t))
        /\ \A u \in Threads \ {t} : Sent(u)' = Sent(u)
        /\ \A u \in Threads : Inbox(u)' = Inbox(u) /\ Seen(u)' = Seen(u)
        /\ IF Head(Sent(t)).size = "message_t"
           THEN /\ message' = Head(Sent(t)).msg /\ dpc' = "route"
                /\ UNCHANGED <<i, j, read_fds, dispatch_fd, info>>
           ELSE Advance
  BY RecvQueues
<1>2. UNCHANGED nsent
  BY DEF Recv, thread
<1> DEFINE q == Sent(t)
           q1 == Tail(q)
<1>3. /\ DOMAIN q = 1 .. Len(q) /\ Len(q) \in Nat \ {0}
      /\ DOMAIN q1 = 1 .. Len(q) - 1 /\ Head(q) = q[1]
      /\ \A k \in DOMAIN q1 : q1[k] = q[k + 1] /\ k + 1 \in DOMAIN q
      /\ 1 \in DOMAIN q
  <2>1. q \in Seq(Packet) /\ q # <<>>
    BY <1>1, QueuesHold
  <2> HIDE DEF q
  <2> QED BY <2>1
<1>4. Sent(t)' = q1
  BY <1>1
<1> HIDE DEF q, q1
<1>5. \A k \in DOMAIN q : /\ q[k].size = "message_t" /\ q[k].msg.by = t
                          /\ q[k].msg.n <= nsent[t] /\ q[k].msg \in Msg
                          /\ \A l \in DOMAIN q : k < l => q[k].msg.n < q[l].msg.n
  BY MessageTypes DEF OrderInv, SentInOrder, q
<1>6. SentInOrder'
  <2>1. \A k \in DOMAIN q1 :
          /\ q1[k].size = "message_t" /\ q1[k].msg.by = t /\ q1[k].msg.n <= nsent[t]
          /\ \A l \in DOMAIN q1 : k < l => q1[k].msg.n < q1[l].msg.n
    BY <1>3, <1>5
  <2> QED BY <1>1, <1>2, <1>4, <2>1 DEF OrderInv, SentInOrder
<1>7. ASSUME NEW m \in Msg, BeforeSent(m) PROVE BeforeSent(m)'
  <2>1. m.by \in Threads
    BY MessageTypes
  <2>2. CASE m.by # t
    BY <1>1, <1>2, <1>7, <2>1, <2>2 DEF BeforeSent
  <2>3. CASE m.by = t
    <3>1. m.n <= nsent[t] /\ \A k \in DOMAIN q : m.n < q[k].msg.n
      BY <1>7, <2>3 DEF BeforeSent, q
    <3>2. \A k \in DOMAIN q1 : m.n < q1[k].msg.n
      BY <1>3, <3>1
    <3> QED BY <1>2, <1>4, <2>3, <3>1, <3>2 DEF BeforeSent
  <2> QED BY <2>2, <2>3
<1>8. SeenInOrder'
  <2> SUFFICES ASSUME NEW u \in Threads, NEW k \in DOMAIN Seen(u)'
               PROVE  BeforeSent(Seen(u)[k])'
    BY DEF SeenInOrder
  <2>1. PICK m \in Msg : m = Seen(u)[k]
    BY <1>1, MessageTypes
  <2>2. BeforeSent(m)'
    BY <1>1, <1>7, <2>1 DEF OrderInv, SeenInOrder
  <2> QED BY <1>1, <2>1, <2>2 DEF BeforeSent
<1>9. TransferInOrder'
  <2>1. message' = q[1].msg /\ dpc' = "route"
    BY <1>1, <1>3, <1>5 DEF q
  <2>2. BeforeSent(message)'
    <3>1. /\ q[1].msg.by = t /\ q[1].msg.n <= nsent[t]
          /\ \A l \in DOMAIN q : 1 < l => q[1].msg.n < q[l].msg.n
      BY <1>3, <1>5
    <3>2. \A k \in DOMAIN q1 : q[1].msg.n < q1[k].msg.n
      BY <1>3, <3>1
    <3> QED BY <1>2, <1>4, <2>1, <3>1, <3>2 DEF BeforeSent
  <2>3. ASSUME NEW u \in Threads PROVE SeenBefore(u, message)'
    <3>1. q[1].msg.by = t
      BY <1>3, <1>5
    <3>2. ASSUME NEW k \in DOMAIN Seen(u), Seen(u)[k].by = t
          PROVE  Seen(u)[k].n < q[1].msg.n
      BY <1>3, <3>2 DEF OrderInv, SeenInOrder, BeforeSent, q
    <3>3. Seen(u)' = Seen(u)
      BY <1>1
    <3> QED BY <2>1, <3>1, <3>2, <3>3 DEF SeenBefore
  <2> QED BY <2>1, <2>2, <2>3 DEF TransferInOrder
<1>10. FifoPerSender'
  BY <1>1 DEF OrderInv, FifoPerSender
<1> QED BY <1>6, <1>8, <1>9, <1>10 DEF OrderInv

(* A message is sent on once to each addressee, after all earlier ones.    *)
LEMMA TransmitOrder ==
  ASSUME Settled, ZeroIsTaken, RoutingState, OrderInv, Transmit, ~UNCHANGED inq
  PROVE  OrderInv'
<1>1. PICK t \in Threads :
        /\ DispatchEnd(t) = Head(info)
        /\ Inbox(t)' = Append(Inbox(t), [size |-> "msg", msg |-> message])
        /\ \A u \in Threads \ {t} : Inbox(u)' = Inbox(u) /\ Seen(u)' = Seen(u)
        /\ \A u \in Threads : Sent(u)' = Sent(u)
        /\ Seen(t)' \in Seq(Msg) /\ Len(Seen(t)') = Len(Seen(t)) + 1
        /\ \A k \in 1 .. Len(Seen(t)) : Seen(t)'[k] = Seen(t)[k]
        /\ Seen(t)'[Len(Seen(t)) + 1] = message
  BY TransmitQueues
<1>2. /\ dpc = "xmit" /\ message \in Msg /\ info \in Seq(Fds) /\ info # <<>>
      /\ UNCHANGED <<nsent, fd_array>>
      /\ Advance \/ (UNCHANGED <<dpc, message>> /\ info' = Tail(info) /\ Len(info) > 1)
  BY TypeInvParts
  DEF Transmit, NextFd, Interrupted, Settled, DispatchVarsType, DispatchTypes, thread, slots
<1>3. /\ Head(info) = info[1] /\ 1 \in DOMAIN info
      /\ \A k \in DOMAIN Tail(info) : /\ Tail(info)[k] = info[k + 1]
                                      /\ k + 1 \in DOMAIN info /\ k + 1 # 1
  BY <1>2
<1>4. BeforeSent(message) /\ SeenBefore(t, message)
  BY <1>1, <1>2, <1>3 DEF OrderInv, TransferInOrder
<1> DEFINE s == Seen(t)
           n == Len(Seen(t)) + 1
<1>5. /\ DOMAIN s = 1 .. Len(s) /\ Len(s) \in Nat
      /\ DOMAIN Seen(t)' = DOMAIN s \cup {n} /\ Seen(t)'[n] = message
      /\ \A k \in DOMAIN s : Seen(t)'[k] = s[k] /\ k < n
  <2>1. s \in Seq(Msg)
    BY SeenType
  <2>2. /\ DOMAIN s = 1 .. Len(s) /\ Len(s) \in Nat
        /\ DOMAIN Seen(t)' = 1 .. Len(s) + 1
    BY <1>1, <2>1
  <2> QED BY <1>1, <2>2
<1> HIDE DEF n
<1>6. SentInOrder'
  BY <1>1, <1>2 DEF OrderInv, SentInOrder
<1>7. \A m \in Msg : BeforeSent(m) => BeforeSent(m)'
  BY <1>1, <1>2, MessageTypes DEF BeforeSent
<1>8. SeenInOrder'
  <2> SUFFICES ASSUME NEW u \in Threads, NEW k \in DOMAIN Seen(u)'
               PROVE  BeforeSent(Seen(u)[k])'
    BY DEF SeenInOrder
  <2>1. CASE u = t /\ k = n
    <3>1. PICK m \in Msg : m = message
      BY <1>2
    <3>2. BeforeSent(m)'
      BY <1>4, <1>7, <3>1
    <3> QED BY <1>5, <2>1, <3>1, <3>2 DEF BeforeSent
  <2>2. CASE ~(u = t /\ k = n)
    <3>1. k \in DOMAIN Seen(u) /\ Seen(u)'[k] = Seen(u)[k]
      BY <1>1, <1>5, <2>2
    <3>2. PICK m \in Msg : m = Seen(u)[k]
      BY <3>1, MessageTypes
    <3>3. BeforeSent(m)'
      BY <1>7, <3>1, <3>2 DEF OrderInv, SeenInOrder
    <3> QED BY <3>1, <3>2, <3>3 DEF BeforeSent
  <2> QED BY <2>1, <2>2
<1>9. TransferInOrder'
  <2>1. CASE Advance
    <3>1. dpc' \in {"scan", "build"}
      BY <2>1 DEF Advance
    <3> QED BY <3>1 DEF TransferInOrder
  <2>2. CASE ~Advance
    <3>1. UNCHANGED <<dpc, message>> /\ info' = Tail(info)
      BY <1>2, <2>2
    <3>2. BeforeSent(message)'
      <4>1. PICK m \in Msg : m = message
        BY <1>2
      <4>2. BeforeSent(m)'
        BY <1>4, <1>7, <4>1
      <4> QED BY <3>1, <4>1, <4>2 DEF BeforeSent
    <3>3. ASSUME NEW u \in Threads, NEW k \in DOMAIN info',
                 DispatchEnd(u)' = info'[k]
          PROVE  SeenBefore(u, message)'
      <4>1. /\ k + 1 \in DOMAIN info /\ DispatchEnd(u) = info[k + 1]
            /\ info[k + 1] # info[1]
        BY <1>2, <1>3, <3>1, <3>3 DEF DispatchEnd, RoutingState
      <4>2. u # t /\ Seen(u)' = Seen(u)
        BY <1>1, <1>3, <4>1
      <4>3. SeenBefore(u, message)
        BY <1>2, <4>1 DEF OrderInv, TransferInOrder
      <4> QED BY <3>1, <4>2, <4>3, Zenon DEF SeenBefore
    <3> QED BY <1>2, <3>1, <3>2, <3>3 DEF TransferInOrder
  <2> QED BY <2>1, <2>2
<1>10. FifoPerSender'
  <2>1. \A k, l \in DOMAIN Seen(t)' :
          k < l /\ Seen(t)'[k].by = Seen(t)'[l].by => Seen(t)'[k].n < Seen(t)'[l].n
    <3> SUFFICES ASSUME NEW k \in DOMAIN Seen(t)', NEW l \in DOMAIN Seen(t)', k < l,
                        Seen(t)'[k].by = Seen(t)'[l].by
                 PROVE  Seen(t)'[k].n < Seen(t)'[l].n
      OBVIOUS
    <3>1. k \in DOMAIN s /\ Seen(t)'[k] = s[k]
      BY <1>5 DEF n
    <3>2. CASE l = n
      BY <1>4, <1>5, <3>1, <3>2 DEF SeenBefore
    <3>3. CASE l \in DOMAIN s
      BY <1>5, <3>1, <3>3 DEF OrderInv, FifoPerSender
    <3> QED BY <1>5, <3>2, <3>3
  <2> QED BY <1>1, <2>1 DEF OrderInv, FifoPerSender
<1> QED BY <1>6, <1>8, <1>9, <1>10 DEF OrderInv

(* dispatch_recv_msg does not change what has been seen.                   *)
LEMMA RecvMsgOrder ==
  ASSUME Settled, Settled', ZeroIsTaken, OneThreadPerModule, NothingDeleted,
         [Next]_vars, ~Recycle, RoutingState, OrderInv,
         NEW t \in Threads, RecvMsg(t)
  PROVE  OrderInv'
<1> DEFINE b == Inbox(t)
<1>1. /\ b # <<>> /\ Inbox(t)' = Tail(b)
      /\ \A u \in Threads \ {t} : Inbox(u)' = Inbox(u) /\ Seen(u)' = Seen(u)
      /\ \A u \in Threads : Sent(u)' = Sent(u)
      /\ Seen(t)' = Seen(t)
  BY RecvMsgQueues
<1>2. /\ UNCHANGED <<nsent, fd_array, dpc, message, info>>
  BY DEF RecvMsg, slots, dispatch
<1> HIDE DEF b
<1>5. \A u \in Threads : Seen(u)' = Seen(u)
  BY <1>1
<1>7. SentInOrder' /\ SeenInOrder' /\ FifoPerSender'
  <2>1. SentInOrder'
    BY <1>1, <1>2 DEF OrderInv, SentInOrder
  <2>2. FifoPerSender'
    BY <1>5 DEF OrderInv, FifoPerSender
  <2>3. SeenInOrder'
    <3> SUFFICES ASSUME NEW u \in Threads, NEW k \in DOMAIN Seen(u)'
                 PROVE  BeforeSent(Seen(u)[k])'
      BY DEF SeenInOrder
    <3>1. k \in DOMAIN Seen(u) /\ Seen(u)'[k] = Seen(u)[k]
      BY <1>5
    <3>2. Seen(u)[k].by \in Threads
      BY <3>1, MessageTypes
    <3> QED BY <1>1, <1>2, <3>1, <3>2 DEF OrderInv, SeenInOrder, BeforeSent
  <2> QED BY <2>1, <2>2, <2>3
<1>8. TransferInOrder'
  <2>1. \A u \in Threads : SeenBefore(u, message) => SeenBefore(u, message)'
    BY <1>2, <1>5, Zenon DEF SeenBefore
  <2>2. dpc \in {"route", "mode", "xmit"} => BeforeSent(message)'
    <3> SUFFICES ASSUME dpc \in {"route", "mode", "xmit"} PROVE BeforeSent(message)'
      OBVIOUS
    <3>1. message.by \in Threads
      BY TypeInvParts DEF Settled, DispatchTypes, Msg
    <3> QED BY <1>1, <1>2, <3>1 DEF OrderInv, TransferInOrder, BeforeSent
  <2>3. \A u \in Threads : DispatchEnd(u)' = DispatchEnd(u)
    BY <1>2 DEF DispatchEnd
  <2> QED BY <1>2, <2>1, <2>2, <2>3 DEF OrderInv, TransferInOrder
<1> QED BY <1>7, <1>8 DEF OrderInv

(* Every step keeps the order.                                             *)
LEMMA StepOrder ==
  ASSUME Settled, Settled', ZeroIsTaken, OneThreadPerModule, NothingDeleted,
         [Next]_vars, ~Recycle, RoutingState, OrderInv
  PROVE  OrderInv'
<1>1. ASSUME QueuesSame, Recv => UNCHANGED inq PROVE OrderInv'
  BY <1>1, QueuesKeepOrder, TransferKept DEF OrderInv
<1>2. \A t \in Threads : ~Delete(t)
  BY DEF NothingDeleted, Delete, DeleteClose, DeleteClear, DeleteOwn, Settled, Stable
<1>3. ASSUME NEW t \in Threads, Register(t) PROVE OrderInv'
  <2>1. QueuesSame
    BY <1>3, RegisterQuiet DEF QueuesSame, Register, RegisterOpen, RegisterStore,
         RegisterMode
  <2>2. UNCHANGED inq
    BY <1>3 DEF Register, RegisterOpen, RegisterStore, RegisterMode, kernel
  <2> QED BY <1>1, <2>1, <2>2
<1>4. ASSUME NEW t \in Threads, Exchange(t) PROVE OrderInv'
  BY <1>4, SendOrder, RecvMsgOrder DEF Exchange, SendMsg, SendMultiMsg
<1>5. CASE Recv /\ ~UNCHANGED inq
  BY <1>5, RecvOrder
<1>6. CASE Transmit /\ ~UNCHANGED inq
  BY <1>6, TransmitOrder
<1>7. CASE (DispatchThread \/ UNCHANGED vars) /\ UNCHANGED inq
  <2>1. UNCHANGED nsent
    BY <1>7 DEF DispatchThread, BuildFdSets, Select, ReadSlot, Recv, RouteOne,
         RouteAllFd, RouteAllMode, Transmit, vars, thread
  <2>2. QueuesSame
    BY <1>7, <2>1, DispatchQuiet DEF QueuesSame
  <2> QED BY <1>1, <1>7, <2>2
<1>8. DispatchThread /\ ~UNCHANGED inq => Transmit \/ Recv
  BY DEF DispatchThread, BuildFdSets, Select, ReadSlot, RouteOne,
         RouteAllFd, RouteAllMode, kernel
<1>9. UNCHANGED vars => UNCHANGED inq
  BY DEF vars, kernel
<1> QED BY <1>2, <1>3, <1>4, <1>5, <1>6, <1>7, <1>8, <1>9 DEF Next

(* Before anything is sent everything is in order.                         *)
LEMMA InitOrder == Init => OrderInv
<1> SUFFICES ASSUME Init PROVE OrderInv
  OBVIOUS
<1>1. \A u \in Threads : Seen(u) = <<>> /\ Sent(u) = <<>> /\ Inbox(u) = <<>>
  BY DEF Init, Seen, Sent, Inbox
<1>2. dpc = "build"
  BY DEF Init
<1> QED BY <1>1, <1>2 DEF OrderInv, SentInOrder, SeenInOrder, TransferInOrder,
             FifoPerSender

(* A thread sees the messages of one sender in the order they were sent,   *)
(* unicast and broadcast, and each at most once, for any number of         *)
(* modules and messages, whatever is dropped on the way, as long as no      *)
(* channel is deleted (dispatch_thread_func).                              *)
THEOREM OrderPerSender ==
  ASSUME OneThreadPerModule, ZeroIsTaken, NothingDeleted, ~Recycle
  PROVE  Spec => []FifoPerSender
<1>1. Init => OrderInv
  BY InitOrder
<1>2. Settled /\ RoutingInv => RoutingState
  BY DEF RoutingInv
<1>3. (Settled /\ RoutingState) /\ Settled' /\ OrderInv /\ [Next]_vars => OrderInv'
  BY StepOrder
<1>4. OrderInv => FifoPerSender
  BY DEF OrderInv
<1> QED BY <1>1, <1>2, <1>3, <1>4, RoutingInvariant, PTL DEF Spec
=============================================================================

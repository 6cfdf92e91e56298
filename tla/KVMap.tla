------------------------------- MODULE KVMap -------------------------------
(***************************************************************************)
(* What mapfile.h promises: a map from keys to values that threads set,    *)
(* get and delete as if each call happened at one moment between its       *)
(* invocation and its return, and that survives power failures: a call     *)
(* that has not returned has happened or not, for each key on its own, and *)
(* nothing else is lost.  A set may fail only for want of room: a row of   *)
(* the hash table holds TABLE_ROW_SIZE keys.                               *)
(*                                                                         *)
(* An I/O error may end any call, and then it has changed nothing.         *)
(* To empty the map takes two steps, for it gives up the file first: what  *)
(* calls see is the empty map at once, but until that has reached the disk *)
(* a power failure may bring the old one back, and an error in between     *)
(* leaves it so.  While there is no file, or one cut short, calls fail.    *)
(***************************************************************************)
EXTENDS Naturals

CONSTANTS Threads, Keys, Values, Absent, hash_gen, TABLE_ROW_SIZE

VARIABLES kv,       \* the map, as it is on the disk
          emptied,  \* the map has been emptied, and that is not on the disk
          usable,   \* there is a whole file
          req,      \* the call a thread has made and not yet returned from
          ans       \* its result, once it has taken effect

vars == <<kv, emptied, usable, req, ans>>

NoRequest == [op |-> "none"]
NoAnswer  == [ok |-> FALSE, val |-> "pending"]
Underway  == [ok |-> FALSE, val |-> "underway"]

Success   == [ok |-> TRUE, val |-> Absent]
Failure   == [ok |-> FALSE, val |-> Absent]
Error     == [ok |-> FALSE, val |-> "error"]
Found(v)  == [ok |-> TRUE, val |-> v]

Requests == [op : {"set"}, key : Keys, val : Values]
            \cup [op : {"get", "del"}, key : Keys] \cup [op : {"emp"}]

EmptyMap == [k \in Keys |-> Absent]

(* The map as calls see it.                                                *)
Seen == IF emptied THEN EmptyMap ELSE kv

Init == /\ kv = EmptyMap
        /\ emptied = FALSE
        /\ usable = FALSE
        /\ req = [t \in Threads |-> NoRequest]
        /\ ans = [t \in Threads |-> NoAnswer]

Call(t) == /\ req[t] = NoRequest
           /\ req'[t] \in Requests
           /\ req' = [req EXCEPT ![t] = req'[t]]
           /\ UNCHANGED <<kv, emptied, usable, ans>>

Answer(t, a) == ans' = [ans EXCEPT ![t] = a]

(* The map is m, and on the disk.                                          *)
Store(m) == kv' = m /\ emptied' = FALSE /\ usable /\ UNCHANGED usable

(* As many keys as a row has slots are stored in the row of k.             *)
RowFull(k) ==
  \E stored \in [1 .. TABLE_ROW_SIZE ->
                   {l \in Keys : hash_gen[l] = hash_gen[k] /\ Seen[l] # Absent}] :
    \A i, j \in 1 .. TABLE_ROW_SIZE : stored[i] = stored[j] => i = j

DoSet(t) == LET r == req[t] IN
  /\ r.op = "set"
  /\ \/ Answer(t, Success) /\ Store([Seen EXCEPT ![r.key] = r.val])
     \/ /\ Answer(t, Failure)
        /\ usable /\ Seen[r.key] = Absent /\ RowFull(r.key)
        /\ UNCHANGED <<kv, emptied, usable>>

DoGet(t) == LET v == Seen[req[t].key] IN
  /\ req[t].op = "get"
  /\ Answer(t, IF v = Absent THEN Failure ELSE Found(v))
  /\ UNCHANGED <<kv, emptied, usable>>

DoDel(t) == /\ req[t].op = "del"
            /\ Answer(t, Success)
            /\ Store([Seen EXCEPT ![req[t].key] = Absent])

DoFail(t) == /\ req[t].op \in {"set", "del"}
             /\ ~usable
             /\ Answer(t, Failure)
             /\ UNCHANGED <<kv, emptied, usable>>

DoError(t) == /\ req[t] # NoRequest
              /\ Answer(t, Error)
              /\ UNCHANGED <<kv, emptied, usable>>

BeginEmp(t) == /\ req[t].op = "emp"
               /\ Answer(t, Underway)
               /\ emptied' = TRUE /\ usable' = FALSE
               /\ UNCHANGED kv

(* One call at a time, and none while the map is being emptied.            *)
Do(t) == /\ ans[t] = NoAnswer
         /\ \A u \in Threads : ans[u] # Underway
         /\ UNCHANGED req
         /\ \/ DoSet(t) \/ DoGet(t) \/ DoDel(t) \/ DoFail(t) \/ DoError(t)
            \/ BeginEmp(t)

EndEmp(t) == /\ ans[t] = Underway
             /\ UNCHANGED req
             /\ \/ Answer(t, Success) /\ Store(EmptyMap)
                \/ Answer(t, Error) /\ UNCHANGED <<kv, emptied, usable>>

Return(t) == /\ ans[t] \notin {NoAnswer, Underway}
             /\ req' = [req EXCEPT ![t] = NoRequest]
             /\ Answer(t, NoAnswer)
             /\ UNCHANGED <<kv, emptied, usable>>

(* The file of an empty map is made whole: by the first that opens it, or  *)
(* by the call that is emptying it.                                        *)
Provide == /\ ~usable /\ Seen = EmptyMap
           /\ usable' = TRUE
           /\ UNCHANGED <<kv, emptied, req, ans>>

(* The emptied map reaches the disk, by an open's fsync.                   *)
Reach == /\ emptied /\ emptied' = FALSE
         /\ kv' = EmptyMap
         /\ UNCHANGED <<usable, req, ans>>

(* What an unfinished call may have made of a key.                         *)
Effects(k) ==
  LET unfinished(op) == {t \in Threads : /\ ans[t] = NoAnswer
                                         /\ req[t].op = op /\ req[t].key = k}
  IN {req[t].val : t \in unfinished("set")} \cup {Absent : t \in unfinished("del")}

(* Only a map that is empty, or has been emptied, loses its file; or the   *)
(* one that was emptied comes back as it was, file and all.                *)
Crash == /\ req' = [t \in Threads |-> NoRequest]
         /\ ans' = [t \in Threads |-> NoAnswer]
         /\ emptied' = FALSE
         /\ \/ /\ DOMAIN kv' = Keys
               /\ \A k \in Keys : kv'[k] \in {Seen[k]} \cup Effects(k)
               /\ \/ UNCHANGED usable
                  \/ usable' = FALSE /\ kv' = EmptyMap
            \/ emptied /\ UNCHANGED kv /\ usable' \in BOOLEAN

Next == \/ \E t \in Threads : Call(t) \/ Do(t) \/ EndEmp(t) \/ Return(t)
        \/ Provide \/ Reach \/ Crash

Spec == Init /\ [][Next]_vars
=============================================================================

--------------------------- MODULE ProtocolConvert ---------------------------
(***************************************************************************)
(* protocol_convert.c: the pairs of property names that translate between  *)
(* the cloud and the devices, in five linked lists of allocated nodes.     *)
(* protocol_init empties the heads and has protocol_read_ini_to_list read  *)
(* the ini file; that function is not in the repository, only that it      *)
(* calls protocol_insert_list, once per line of a section, is known.       *)
(*                                                                         *)
(* One thread uses a context.  A malloc that fails, or a name of a wrong   *)
(* length, ends an insertion at that point; each malloc is an action.      *)
(***************************************************************************)
EXTENDS Naturals, Sequences, SequencesExt

CONSTANTS
  Nodes,      \* bound: the nodes that memory has room for
  Sections,   \* bound: the sections of the ini file that have lines
  NoNode

Lists == {"light", "electric_power", "environment", "security", "misc"}

ASSUME ListsAssumption == Sections \subseteq Lists /\ NoNode \notin Nodes

VARIABLES
  list_head,   \* the heads of the context's lists
  link,        \* the next pointer of a node
  heap,        \* allocated: nodes and the buffers for their two names
  step,        \* what the thread is doing
  section,     \* the list it inserts into or frees
  node,        \* the node it is making or freeing
  inserted,    \* history: the nodes of each list in the order of insertion
  lost         \* history: nodes whose list head was overwritten

lists     == <<list_head, link, heap>>
conv_vars == <<lists, step, section, node, inserted, lost>>

(* The three allocations of an entry.                                      *)
Node(n)  == <<"property_entry_node_t", n>>
Cloud(n) == <<"p_cloud_property_name", n>>
Rex(n)   == <<"p_rex_device_property_name", n>>
Blocks(n) == {Node(n), Cloud(n), Rex(n)}

ConvInit ==
  /\ list_head = [l \in Lists |-> NoNode]
  /\ link = [n \in Nodes |-> NoNode]
  /\ heap = {}
  /\ step = "closed" /\ section = "light" /\ node = NoNode
  /\ inserted = [l \in Lists |-> <<>>]
  /\ lost = {}

-----------------------------------------------------------------------------
(* protocol_init: the heads are cleared whatever they point to.            *)
protocol_init ==
  /\ step = "closed"
  /\ list_head' = [l \in Lists |-> NoNode]
  /\ step' = "read"
  /\ inserted' = [l \in Lists |-> <<>>]
  /\ lost' = lost \cup UNION {Range(inserted[l]) : l \in Lists}
  /\ UNCHANGED <<link, heap, section, node>>

(* The end of the ini file.                                                *)
IniEnd ==
  /\ step = "read"
  /\ step' = "open"
  /\ UNCHANGED <<lists, section, node, inserted, lost>>

(* protocol_insert_list: the node, ...                                     *)
InsertNode(l) ==
  /\ step = "read"
  /\ \E n \in {m \in Nodes : Node(m) \notin heap} :
       heap' = heap \cup {Node(n)} /\ node' = n
  /\ section' = l /\ step' = "cloud"
  /\ UNCHANGED <<list_head, link, inserted, lost>>

(* ... the cloud's name or a failure that frees the node, ...              *)
InsertCloudName ==
  /\ step = "cloud"
  /\ \/ heap' = heap \cup {Cloud(node)} /\ step' = "rex" /\ UNCHANGED node
     \/ heap' = heap \ {Node(node)} /\ step' = "read" /\ node' = NoNode
  /\ UNCHANGED <<list_head, link, section, inserted, lost>>

(* Mutant of InsertRexName: the failure frees the node only.               *)
InsertRexNameLeak ==
  /\ step = "rex"
  /\ \/ heap' = heap \cup {Rex(node)} /\ step' = "link" /\ UNCHANGED node
     \/ heap' = heap \ {Node(node)} /\ step' = "read" /\ node' = NoNode
  /\ UNCHANGED <<list_head, link, section, inserted, lost>>

(* ... the device's name or a failure that frees both, ...                 *)
InsertRexName ==
  /\ step = "rex"
  /\ \/ heap' = heap \cup {Rex(node)} /\ step' = "link" /\ UNCHANGED node
     \/ /\ heap' = heap \ {Node(node), Cloud(node)}
        /\ step' = "read" /\ node' = NoNode
  /\ UNCHANGED <<list_head, link, section, inserted, lost>>

(* Mutant of InsertLink: what followed the first node is dropped.          *)
InsertLinkDrop ==
  LET head == list_head[section] IN
  /\ step = "link"
  /\ IF head = NoNode
     THEN /\ list_head' = [list_head EXCEPT ![section] = node]
          /\ link' = [link EXCEPT ![node] = NoNode]
     ELSE /\ link' = [link EXCEPT ![node] = NoNode, ![head] = node]
          /\ UNCHANGED list_head
  /\ inserted' = [inserted EXCEPT ![section] = Append(@, node)]
  /\ step' = "read" /\ node' = NoNode
  /\ UNCHANGED <<heap, section, lost>>

(* ... and the link: the first node stays first, later ones come after it. *)
InsertLink ==
  LET head == list_head[section] IN
  /\ step = "link"
  /\ IF head = NoNode
     THEN /\ list_head' = [list_head EXCEPT ![section] = node]
          /\ link' = [link EXCEPT ![node] = NoNode]
     ELSE /\ link' = [link EXCEPT ![node] = link[head], ![head] = node]
          /\ UNCHANGED list_head
  /\ inserted' = [inserted EXCEPT ![section] = Append(@, node)]
  /\ step' = "read" /\ node' = NoNode
  /\ UNCHANGED <<heap, section, lost>>

-----------------------------------------------------------------------------
(* protocol_destroy goes through three of the five lists.                  *)
Destroyed == <<"light", "electric_power", "environment">>

DestroyBegin ==
  /\ step = "open"
  /\ step' = "free" /\ section' = Destroyed[1]
  /\ node' = list_head[Destroyed[1]]
  /\ UNCHANGED <<lists, inserted, lost>>

(* The loop's body: the next pointer is read before the node is freed.     *)
DestroyNode ==
  /\ step = "free" /\ node # NoNode
  /\ heap' = heap \ Blocks(node)
  /\ node' = link[node]
  /\ link' = [link EXCEPT ![node] = NoNode]
  /\ UNCHANGED <<list_head, step, section, inserted, lost>>

(* A list is done; the next of the three, or the return.                   *)
DestroyList ==
  LET k == CHOOSE k \in DOMAIN Destroyed : Destroyed[k] = section IN
  /\ step = "free" /\ node = NoNode
  /\ list_head' = [list_head EXCEPT ![section] = NoNode]
  /\ inserted' = [inserted EXCEPT ![section] = <<>>]
  /\ IF k < Len(Destroyed)
     THEN /\ section' = Destroyed[k + 1] /\ node' = list_head[Destroyed[k + 1]]
          /\ UNCHANGED step
     ELSE step' = "closed" /\ section' = "light" /\ UNCHANGED node
  /\ UNCHANGED <<link, heap, lost>>

ConvNext ==
  \/ protocol_init \/ IniEnd
  \/ \E l \in Sections : InsertNode(l)
  \/ InsertCloudName \/ InsertRexName \/ InsertLink
  \/ DestroyBegin \/ DestroyNode \/ DestroyList

ConvSpec == ConvInit /\ [][ConvNext]_conv_vars

-----------------------------------------------------------------------------
(* Properties.                                                             *)

(* The order of a list: what was inserted first, then the rest, latest     *)
(* first.                                                                  *)
Expected(l) == IF inserted[l] = <<>> THEN <<>>
               ELSE <<Head(inserted[l])>> \o Reverse(Tail(inserted[l]))

(* Whatever insertions fail, a list holds every pair that was inserted and *)
(* nothing else: from the head, the links lead through exactly those nodes *)
(* (protocol_insert_list).                                                 *)
ListsComplete ==
  \A l \in Lists : LET nodes == Expected(l) IN
     step # "free" =>
       /\ list_head[l] = IF nodes = <<>> THEN NoNode ELSE nodes[1]
       /\ \A k \in DOMAIN nodes :
            link[nodes[k]] = IF k < Len(nodes) THEN nodes[k + 1] ELSE NoNode

(* Outside a call, memory holds whole entries: an entry of a list, or one  *)
(* lost by an earlier protocol_init, with both of its names.  Failed       *)
(* insertions leave nothing behind and protocol_destroy no half of an      *)
(* entry (protocol_insert_list, protocol_destroy).                         *)
EntriesWhole ==
  step \in {"closed", "read", "open"} =>
    heap = UNION {Blocks(n) : n \in lost \cup UNION {Range(inserted[l]) : l \in Lists}}

(* "free all protocol conversion link list memory": after protocol_destroy *)
(* nothing that was allocated since protocol_init is left                  *)
(* (protocol_convert.h).                                                   *)
DestroyFreesAll ==
  step = "closed" => heap = UNION {Blocks(n) : n \in lost}
==============================================================================

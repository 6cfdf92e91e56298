------------------------------- MODULE JsonApi -------------------------------
(***************************************************************************)
(* json_api.c: a configuration file is read into memory and parsed into a  *)
(* tree, and values two levels down in the tree are copied out.            *)
(*                                                                         *)
(* json_read_file asks for the size of the file, and reads as many bytes   *)
(* after opening it: another process can rewrite the file at every moment, *)
(* in place or by renaming a new one over it.  A file is a text, whole or  *)
(* cut short; cJSON_Parse is external: it makes a tree of a whole text     *)
(* that is JSON and returns NULL otherwise.                                *)
(***************************************************************************)
EXTENDS Naturals

CONSTANTS
  Texts,
  TextSize,                 \* the size of a text
  JsonTexts,                \* the texts that are JSON
  ItemOf,                   \* what is at <<key, sub_key>> in the tree of one
  JSON_CONF_FILE_MAX_SIZE,
  KeyPairs,                 \* bound: the <<key, sub_key>> that are looked up
  NoTree, NoText, NoItem

ASSUME JsonAssumption ==
  /\ TextSize \in [Texts -> Nat \ {0}]
  /\ JsonTexts \subseteq Texts
  /\ NoTree \notin Texts /\ NoText \notin Texts

VARIABLES
  conf_file,   \* the file at filepath
  stream,      \* what an open FILE reads from
  json_pc,     \* where the thread is in json_read_file
  size,        \* of the file, as stat has told
  buf,         \* the allocated buffer: its room and what is in it
  json_root,   \* the caller's tree
  value_buf    \* the caller's buffer for values: the item it holds

read_vars == <<stream, size, buf, json_root>>
json_vars == <<conf_file, json_pc, read_vars, value_buf>>

NoFile    == [text |-> NoText, len |-> 0]
ConfFiles == {[text |-> x, len |-> n] :
                x \in Texts, n \in 0 .. JSON_CONF_FILE_MAX_SIZE + 1}
NoBuffer  == [room |-> 0, text |-> NoText, len |-> 0]

JsonInit ==
  /\ conf_file = NoFile /\ stream = NoFile
  /\ json_pc = "idle" /\ size = 0 /\ buf = NoBuffer
  /\ json_root = NoTree
  /\ value_buf = NoItem

-----------------------------------------------------------------------------
(* Another process writes the file, with a new text or a part of it.       *)
Rewrite ==
  /\ conf_file' \in {f \in ConfFiles : f.len <= TextSize[f.text]} \cup {NoFile}
  /\ stream' \in IF stream = NoFile \/ conf_file' = NoFile THEN {stream}
                 ELSE {stream, conf_file'}
  /\ UNCHANGED <<json_pc, size, buf, json_root, value_buf>>

At(label) == json_pc' = label

(* json_get_file_size: an empty or absent file or one that is too big      *)
(* fails.                                                                  *)
Stat ==
  /\ json_pc = "idle"
  /\ conf_file.len \in 1 .. JSON_CONF_FILE_MAX_SIZE
  /\ size' = conf_file.len
  /\ At("malloc")
  /\ UNCHANGED <<conf_file, stream, buf, json_root, value_buf>>

(* Mutant of Malloc: no room for the NUL.                                  *)
MallocSize ==
  /\ json_pc = "malloc"
  /\ \/ buf' = [NoBuffer EXCEPT !.room = size] /\ At("fopen")
     \/ At("idle") /\ UNCHANGED buf
  /\ UNCHANGED <<conf_file, stream, size, json_root, value_buf>>

Malloc ==
  /\ json_pc = "malloc"
  /\ \/ buf' = [NoBuffer EXCEPT !.room = size + 1] /\ At("fopen")
     \/ At("idle") /\ UNCHANGED buf
  /\ UNCHANGED <<conf_file, stream, size, json_root, value_buf>>

(* The file may be gone by now, and fopen can fail for other reasons.      *)
Fopen ==
  /\ json_pc = "fopen"
  /\ \/ buf' = NoBuffer /\ At("idle") /\ UNCHANGED stream
     \/ /\ conf_file # NoFile
        /\ stream' = conf_file /\ At("fread") /\ UNCHANGED buf
  /\ UNCHANGED <<conf_file, size, json_root, value_buf>>

(* Mutant of Fread: the failure does not close the file.                   *)
FreadOpen ==
  /\ json_pc = "fread"
  /\ \/ buf' = NoBuffer /\ At("idle") /\ UNCHANGED stream
     \/ /\ stream.len >= size
        /\ buf' = [buf EXCEPT !.text = stream.text, !.len = size]
        /\ stream' = NoFile /\ At("parse")
  /\ UNCHANGED <<conf_file, size, json_root, value_buf>>

(* fread and fclose.  A file that has become shorter fails, as does a read *)
(* that the kernel refuses.                                                *)
Fread ==
  /\ json_pc = "fread"
  /\ stream' = NoFile
  /\ \/ buf' = NoBuffer /\ At("idle")
     \/ /\ stream.len >= size
        /\ buf' = [buf EXCEPT !.text = stream.text, !.len = size]
        /\ At("parse")
  /\ UNCHANGED <<conf_file, size, json_root, value_buf>>

(* The tree is the caller's, and the call a success, even if it is NULL.   *)
Parse ==
  /\ json_pc = "parse"
  /\ json_root' = IF buf.text \in JsonTexts /\ buf.len = TextSize[buf.text]
                  THEN buf.text ELSE NoTree
  /\ buf' = NoBuffer
  /\ At("idle")
  /\ UNCHANGED <<conf_file, stream, size, value_buf>>

(* json_get_sub_value, of items that are strings: the buffer is cleared    *)
(* before the tree is searched, but keeps what it held when there is no    *)
(* tree.                                                                   *)
json_get_sub_value(pair) ==
  /\ json_pc = "idle"
  /\ value_buf' = IF json_root = NoTree THEN value_buf ELSE ItemOf[json_root][pair]
  /\ UNCHANGED <<conf_file, json_pc, read_vars>>

JsonNext == \/ Rewrite
            \/ Stat \/ Malloc \/ Fopen \/ Fread \/ Parse
            \/ \E pair \in KeyPairs : json_get_sub_value(pair)

JsonSpec == JsonInit /\ [][JsonNext]_json_vars

-----------------------------------------------------------------------------
(* Properties.                                                             *)

(* However the file changes while it is read and wherever the call fails,  *)
(* json_read_file returns with its buffer freed and its FILE closed.       *)
JsonReleased == json_pc = "idle" => buf = NoBuffer /\ stream = NoFile

(* The text that cJSON_Parse gets ends within the buffer, although it was  *)
(* read after the file was measured (json_read_file).                      *)
TextEnds == json_pc = "parse" => buf.len < buf.room
==============================================================================

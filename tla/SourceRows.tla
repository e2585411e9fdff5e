------------------------------ MODULE SourceRows ------------------------------
(***************************************************************************)
(* One message as the collector stores it, and what a transaction may do    *)
(* to it.  A row stands for the message's line in source_messages, its      *)
(* lines in source_message_versions and its lines in event_outbox, which    *)
(* every writer changes together:                                           *)
(*   text      content of the current row (raw_message_json, surfaces);     *)
(*   deleted   deleted_at is set;                                           *)
(*   versions  the contents of the versions, in order of version_no (two    *)
(*             contents are equal when their content_hash is);              *)
(*   events    the announcements, a set because the dedupe key of an event  *)
(*             is made of its kind and its version.                         *)
(* Buried, and Observed with a text that is not the latest version's, are   *)
(* the transactions the update handlers are written to make.  Today those   *)
(* roll back (SourceMessages), so no writer of this code commits one: the   *)
(* stages that read the tables are checked against them all the same.       *)
(***************************************************************************)
EXTENDS Integers, Sequences

CONSTANT Texts            \* the contents a message may have

ASSUME TextsAssumption == 0 \notin Texts

VersionKinds == {"created", "edited", "reconciled"}

Announcements == [kind : VersionKinds \cup {"deleted"}, version : Nat \ {0}]

Rows == [text     : Texts \cup {0},
         deleted  : BOOLEAN,
         versions : Seq(Texts),
         events   : SUBSET Announcements]

\* no line in source_messages
Unseen == [text |-> 0, deleted |-> FALSE, versions |-> <<>>, events |-> {}]

Seen(r) == r.versions # <<>>

Latest(r) == r.versions[Len(r.versions)]

\* should_append_new_version: a content equal to the latest version's is none
Changes(r, t) == ~Seen(r) \/ Latest(r) # t

\* upsert, version append and event of one transaction
Advanced(r, t, kind) ==
  [text     |-> t,
   deleted  |-> FALSE,
   versions |-> Append(r.versions, t),
   events   |-> r.events \cup {[kind |-> kind, version |-> Len(r.versions) + 1]}]

\* upsert_source_message alone: the tombstone goes and nobody is told
Observed(r, t) == [r EXCEPT !.text = t, !.deleted = FALSE]

\* mark_message_deleted and the event; insert_outbox_event drops a repetition
Buried(r) ==
  [r EXCEPT !.deleted = TRUE,
            !.events  = @ \cup {[kind |-> "deleted", version |-> Len(r.versions)]}]

\* what happened since the row was read decides the kind, so an operator's packet
\* may announce a later version as created; a first version is never anything else
Kinds(r) == IF Seen(r) THEN VersionKinds ELSE {"created"}

Effects(r) ==
     {Advanced(r, t, kind) : t \in {x \in Texts : Changes(r, x)}, kind \in Kinds(r)}
  \cup (IF Seen(r) THEN {Observed(r, t) : t \in Texts} \cup {Buried(r)} ELSE {})

-------------------------------------------------------------------------------
\* the version announcements of version v
Announcing(r, v) == {e \in r.events : e.version = v /\ e.kind \in VersionKinds}

\* Every version was announced, once, the first as created; nothing is announced
\* that does not exist; a tombstone was announced at the version it hides.
Announced(r) ==
  /\ \A v \in 1..Len(r.versions) : \E kind \in VersionKinds :
        Announcing(r, v) = {[kind |-> kind, version |-> v]}
  /\ Seen(r) => [kind |-> "created", version |-> 1] \in r.events
  /\ \A e \in r.events : e.version <= Len(r.versions)
  /\ r.deleted => [kind |-> "deleted", version |-> Len(r.versions)] \in r.events

\* Two versions in a row never have the same content.
NoEcho(r) == \A v \in 1..Len(r.versions) - 1 : r.versions[v] # r.versions[v + 1]
===============================================================================

---------------------------- MODULE SourceMessages ----------------------------
(***************************************************************************)
(* The tables of the collector and the programs that write them:            *)
(*   live  UpdateDispatcher and CollectorUpdateHandlers, one TDLib update   *)
(*         at a time (bounded_smoke_runner drives them);                    *)
(*   Runs  runs of the bounded history ingest: one fetch of the newest      *)
(*         messages, one transaction that applies them, oldest first;       *)
(*   oper  the operator-supplied source of the exact-target materializer.   *)
(* TDLib lets one program use a state directory; two of them run together   *)
(* when each has its own, and then only the row locks of the database keep  *)
(* them apart.  A writer reads committed rows without a lock, waits for the *)
(* lock of a row at its first write, and keeps it to the end of its         *)
(* transaction.  work[w] holds what w has written and not committed: its    *)
(* domain are the rows w locks.  A history run takes a step per row.        *)
(*                                                                          *)
(* A live handler never gets past its first write: _require_uuid takes a    *)
(* string only, and the driver gives source_message_id as a UUID object.    *)
(* The handler raises with the row locked and the dispatcher rolls back.    *)
(*                                                                          *)
(* Not modelled: edited_at and the other attributes no decision reads; what *)
(* a history run does after its commit, the second application that proves  *)
(* a no-op (if it changes a version or an event it raises and is rolled     *)
(* back; at most it repeats the upsert of a message's own content), the     *)
(* readback and the publication of the events.                              *)
(***************************************************************************)
EXTENDS SourceRows, FiniteSets

CONSTANTS MaxMessage,     \* bound: messages are 1..MaxMessage, in posting order
          MaxText,        \* bound: contents Telegram gives a message
          Edited,         \* bound: the messages that may be edited
          Deleted,        \* bound: the messages that may be deleted
          Runs,           \* bound: history runs under way at a time
          HistoryLimit,   \* how many of the newest messages a history run reads
          OperatorMessage \* the message an operator's packet names

Messages == 1..MaxMessage
OperatorText == MaxText + 1     \* content of the packet an operator supplies

ASSUME SourceAssumption ==
  /\ MaxMessage \in Nat \ {0} /\ MaxText \in Nat \ {0}
  /\ Edited \subseteq Messages /\ Deleted \subseteq Messages /\ HistoryLimit \in Nat \ {0}
  /\ OperatorMessage \in Messages
  /\ Texts = 1..OperatorText
  /\ Runs \cap {"live", "oper"} = {}

VARIABLES
  telegram,   \* telegram[m]: [text, gone], what Telegram shows (text 0: not posted)
  updates,    \* the updates TDLib has for the dispatcher, in order
  rows,       \* committed rows
  work,       \* uncommitted rows of the writers that keep locks over several steps
  live,       \* [pc, text] of the dispatcher and the handler of Head(updates)
  hist,       \* hist[h]: [pc, todo, newest, existed, wrote] of history run h
  oper,       \* where the operator's materializer is
  cursor      \* last_seen_message_id of the channel

vars == <<telegram, updates, rows, work, live, hist, oper, cursor>>

Batch == Runs \cup {"live"}   \* the writers that keep row locks
Nothing == [m \in {} |-> Unseen]

Update(type, ms, t) == [type |-> type, ms |-> ms, text |-> t]
LiveIdle == [pc |-> "idle", text |-> 0]
HistIdle == [pc |-> "idle", todo |-> <<>>, newest |-> 0, existed |-> FALSE, wrote |-> FALSE]

Init ==
  /\ telegram = [m \in Messages |-> [text |-> 0, gone |-> FALSE]]
  /\ updates = <<>>
  /\ rows = [m \in Messages |-> Unseen]
  /\ work = [w \in Batch |-> Nothing]
  /\ live = LiveIdle
  /\ hist = [h \in Runs |-> HistIdle]
  /\ oper = "idle"
  /\ cursor = 0

-------------------------------------------------------------------------------
(* Telegram and TDLib *)

\* bound: Telegram changes again once the dispatcher is done with the last change
Send(us) == updates = <<>> /\ updates' = us

Shown == {m \in Messages : telegram[m].text > 0 /\ ~telegram[m].gone}

Post(m) ==
  /\ telegram[m].text = 0
  /\ \A n \in 1..m - 1 : telegram[n].text > 0
  /\ telegram' = [telegram EXCEPT ![m].text = 1]
  /\ Send(<<Update("new", <<m>>, 1)>>)
  /\ UNCHANGED <<rows, work, live, hist, oper, cursor>>

Edit(m) ==
  /\ m \in Shown \cap Edited /\ telegram[m].text < MaxText
  /\ telegram' = [telegram EXCEPT ![m].text = @ + 1]
  /\ Send(<<Update("content", <<m>>, telegram[m].text + 1), Update("edited", <<m>>, 0)>>)
  /\ UNCHANGED <<rows, work, live, hist, oper, cursor>>

Orders(S) == {s \in [1..Cardinality(S) -> S] : \A i, j \in 1..Cardinality(S) : s[i] = s[j] => i = j}

Remove(S) ==
  /\ S # {} /\ S \subseteq Shown \cap Deleted
  /\ telegram' = [m \in Messages |-> [telegram[m] EXCEPT !.gone = @ \/ m \in S]]
  /\ \E ms \in Orders(S) : Send(<<Update("delete", ms, 0)>>)
  /\ UNCHANGED <<rows, work, live, hist, oper, cursor>>

-------------------------------------------------------------------------------
(* Transactions *)

Locked(w, m) == \E v \in Batch \ {w} : m \in DOMAIN work[v]

See(w, m) == IF m \in DOMAIN work[w] THEN work[w][m] ELSE rows[m]

\* w writes row m inside its open transaction
Write_NoLock(w, m, r) ==
  work' = [work EXCEPT ![w] = [n \in DOMAIN @ \cup {m} |-> IF n = m THEN r ELSE @[n]]]
Write(w, m, r) ==
  /\ ~Locked(w, m)
  /\ work' = [work EXCEPT ![w] = [n \in DOMAIN @ \cup {m} |-> IF n = m THEN r ELSE @[n]]]

Commit(w) ==
  /\ rows' = [m \in Messages |-> See(w, m)]
  /\ work' = [work EXCEPT ![w] = Nothing]

Rollback(w) == work' = [work EXCEPT ![w] = Nothing]

\* a whole transaction of w on row m
CommitRow(w, m, r) ==
  /\ ~Locked(w, m)
  /\ rows' = [rows EXCEPT ![m] = r]
  /\ UNCHANGED work
-------------------------------------------------------------------------------
(* UpdateDispatcher.dispatch and the handlers *)

\* The journal (telegram_raw_updates) gets an update before and its outcome after it is
\* handled, each in a transaction of its own, and is never read back: it is left out.

Current == Head(updates)
Target == Head(Current.ms)
Arrived(types) == live.pc = "idle" /\ updates # <<>> /\ Current.type \in types

Settle == live' = LiveIdle /\ updates' = Tail(updates)

\* the handler's first write takes the row lock; _require_uuid then refuses the id
\* of the row
FirstWrite(m, r) ==
  /\ Write("live", m, r)
  /\ live' = [live EXCEPT !.pc = "raised"]
  /\ UNCHANGED <<telegram, updates, rows, hist, oper, cursor>>

\* handle_update_new_message
HandleNew ==
  /\ Arrived({"new"})
  /\ FirstWrite(Target, Observed(rows[Target], Current.text))

\* _load_current_source_message: the message is rebuilt from the row as read
Rebuilds == {"edited", "content"}

\* no row, or one whose raw message is an operator's packet: build_source_projection
\* finds no chat_id in it
Unusable(r) == ~Seen(r) \/ r.text = OperatorText

ReadCurrent ==
  /\ Arrived(Rebuilds)
  /\ ~Unusable(rows[Target])
  /\ live' = [live EXCEPT !.pc = "rebuilt", !.text = rows[Target].text]
  /\ UNCHANGED <<telegram, updates, rows, work, hist, oper, cursor>>

ReadUnusable ==
  /\ Arrived(Rebuilds)
  /\ Unusable(rows[Target])
  /\ live' = [live EXCEPT !.pc = "raised"]
  /\ UNCHANGED <<telegram, updates, rows, work, hist, oper, cursor>>

\* handle_update_message_edited writes the content as read, handle_update_message_content
\* the one the update brings
HandleEdited ==
  /\ live.pc = "rebuilt" /\ Current.type = "edited"
  /\ FirstWrite(Target, Observed(rows[Target], live.text))

HandleContent ==
  /\ live.pc = "rebuilt" /\ Current.type = "content"
  /\ FirstWrite(Target, Observed(rows[Target], Current.text))

\* handle_update_delete_messages: an unknown message is passed over, the first known
\* one is marked
DeleteUnknown ==
  /\ Arrived({"delete"}) /\ Current.ms # <<>> /\ ~Seen(rows[Target])
  /\ updates' = [updates EXCEPT ![1].ms = Tail(@)]
  /\ UNCHANGED <<telegram, rows, work, live, hist, oper, cursor>>

DeleteKnown ==
  /\ Arrived({"delete"}) /\ Current.ms # <<>> /\ Seen(rows[Target])
  /\ FirstWrite(Target, [rows[Target] EXCEPT !.deleted = TRUE])

\* every message was unknown: nothing was written, the update counts as applied
DeleteDone ==
  /\ Arrived({"delete"}) /\ Current.ms = <<>>
  /\ Settle
  /\ UNCHANGED <<telegram, rows, work, hist, oper, cursor>>

\* dispatch rolls the transaction back and marks the journal line in one of its own;
\* the error ends the smoke run, a later one goes on with what TDLib has
FailUpdate ==
  /\ live.pc = "raised"
  /\ Rollback("live")
  /\ Settle
  /\ UNCHANGED <<telegram, rows, hist, oper, cursor>>

\* the process ends: what it had not committed is gone, the journal line stays pending
LiveCrash ==
  /\ updates # <<>>
  /\ Rollback("live")
  /\ Settle
  /\ UNCHANGED <<telegram, rows, hist, oper, cursor>>

-------------------------------------------------------------------------------
(* The bounded history ingest *)

Newest == {m \in Shown : Cardinality({n \in Shown : n > m}) < HistoryLimit}

History(ms) == [i \in DOMAIN ms |-> [m |-> ms[i], text |-> telegram[ms[i]].text]]

\* the history as Telegram gives it, turned to oldest first
Fetch_AsGiven(h) ==
  /\ hist[h].pc = "idle" /\ Newest # {}
  /\ \E ms \in Orders(Newest) :
        hist' = [hist EXCEPT ![h] = [HistIdle EXCEPT
                    !.pc = "apply", !.todo = History(ms), !.newest = ms[Len(ms)]]]
  /\ UNCHANGED <<telegram, updates, rows, work, live, oper, cursor>>
Fetch(h) ==
  /\ hist[h].pc = "idle" /\ Newest # {}
  /\ \E ms \in Orders(Newest) :
        /\ \A i, j \in DOMAIN ms : i < j => ms[i] < ms[j]
        /\ hist' = [hist EXCEPT ![h] = [HistIdle EXCEPT
                       !.pc = "apply", !.todo = History(ms), !.newest = ms[Len(ms)]]]
  /\ UNCHANGED <<telegram, updates, rows, work, live, oper, cursor>>

Next1(h) == Head(hist[h].todo)

\* apply_history_message, up to its first write: get_source_message and
\* get_latest_version see committed rows and take no lock
HistRead(h) ==
  /\ hist[h].pc = "apply" /\ hist[h].todo # <<>>
  /\ LET r == rows[Next1(h).m] IN
       hist' = IF Changes(r, Next1(h).text)
               THEN [hist EXCEPT ![h].pc = "write", ![h].existed = Seen(r)]
               ELSE [hist EXCEPT ![h].todo = Tail(@)]
  /\ UNCHANGED <<telegram, updates, rows, work, live, oper, cursor>>

\* append_source_message_version_if_changed and the event, after the upsert
Received(r, t, kind) == IF Changes(r, t) THEN Advanced(r, t, kind) ELSE Observed(r, t)

HistKind(h) == IF hist[h].existed THEN "reconciled" ELSE "created"

\* the rest of it: the upsert waits for the row, the version is decided under the lock
HistWrite_DecidedBefore(h) ==
  /\ hist[h].pc = "write"
  /\ Write(h, Next1(h).m, Advanced(rows[Next1(h).m], Next1(h).text, HistKind(h)))
  /\ hist' = [hist EXCEPT ![h].pc = "apply", ![h].todo = Tail(@), ![h].existed = FALSE,
                          ![h].wrote = TRUE]
  /\ UNCHANGED <<telegram, updates, rows, live, oper, cursor>>
HistWrite_CursorAtOnce(h) ==
  /\ hist[h].pc = "write"
  /\ Write(h, Next1(h).m, Received(rows[Next1(h).m], Next1(h).text, HistKind(h)))
  /\ hist' = [hist EXCEPT ![h].pc = "apply", ![h].todo = Tail(@), ![h].existed = FALSE]
  /\ cursor' = IF Next1(h).m > cursor THEN Next1(h).m ELSE cursor
  /\ UNCHANGED <<telegram, updates, rows, live, oper>>
HistWrite(h) ==
  /\ hist[h].pc = "write"
  /\ LET r == rows[Next1(h).m]
         t == Next1(h).text
     IN /\ Write(h, Next1(h).m, Received(r, t, HistKind(h)))
        /\ hist' = [hist EXCEPT ![h].pc = "apply", ![h].todo = Tail(@), ![h].existed = FALSE,
                                ![h].wrote = @ \/ Changes(r, t)]
  /\ UNCHANGED <<telegram, updates, rows, live, oper, cursor>>

\* the cursor moves in the same transaction, and never back
HistCommit_NextToRead(h) ==
  /\ hist[h].pc = "apply" /\ hist[h].todo = <<>>
  /\ Commit(h)
  /\ cursor' = IF hist[h].wrote /\ hist[h].newest > cursor THEN hist[h].newest + 1 ELSE cursor
  /\ hist' = [hist EXCEPT ![h] = HistIdle]
  /\ UNCHANGED <<telegram, updates, live, oper>>
HistCommit(h) ==
  /\ hist[h].pc = "apply" /\ hist[h].todo = <<>>
  /\ Commit(h)
  /\ cursor' = IF hist[h].wrote /\ hist[h].newest > cursor THEN hist[h].newest ELSE cursor
  /\ hist' = [hist EXCEPT ![h] = HistIdle]
  /\ UNCHANGED <<telegram, updates, live, oper>>

\* a failed call, a failed commit or the end of the process
HistFail(h) ==
  /\ hist[h].pc # "idle"
  /\ Rollback(h)
  /\ hist' = [hist EXCEPT ![h] = HistIdle]
  /\ UNCHANGED <<telegram, updates, rows, live, oper, cursor>>

-------------------------------------------------------------------------------
(* The operator's packet: OperatorSuppliedSourceAdapter.ingest_source *)

\* inspect_existing_source: a message that has a row is not materialized again
OperRead ==
  /\ oper = "idle" /\ telegram[OperatorMessage].text > 0
  /\ ~Seen(rows[OperatorMessage])
  /\ oper' = "write"
  /\ UNCHANGED <<telegram, updates, rows, work, live, hist, cursor>>

\* append_source_message_version: a version whatever the latest one is
OperWrite ==
  /\ oper = "write"
  /\ CommitRow("oper", OperatorMessage,
               Advanced(rows[OperatorMessage], OperatorText, "created"))
  /\ oper' = "idle"
  /\ UNCHANGED <<telegram, updates, live, hist, cursor>>

OperFail ==
  /\ oper # "idle"
  /\ oper' = "idle"
  /\ UNCHANGED <<telegram, updates, rows, work, live, hist, cursor>>

-------------------------------------------------------------------------------
Handle == \/ HandleNew \/ ReadCurrent \/ ReadUnusable
          \/ DeleteUnknown \/ DeleteKnown \/ DeleteDone

Settling == HandleEdited \/ HandleContent \/ FailUpdate

Apply(h) == HistRead(h) \/ HistWrite(h) \/ HistCommit(h)

Telegram == \/ \E m \in Messages : Post(m) \/ Edit(m)
            \/ \E S \in SUBSET Messages : Remove(S)

Next == \/ Telegram
        \/ Handle \/ Settling \/ LiveCrash
        \/ \E h \in Runs : Fetch(h) \/ Apply(h) \/ HistFail(h)
        \/ OperRead \/ OperWrite \/ OperFail

\* A program that was started runs on, and a row lock goes to a writer that keeps
\* waiting for it (the database queues them: strong fairness).  Nobody has to start a
\* program, nothing has to fail and Telegram need not change.
Fairness == /\ SF_vars(Settling)
            /\ \A h \in Runs : SF_vars(Apply(h))

Spec == Init /\ [][Next]_vars /\ Fairness

-------------------------------------------------------------------------------
(* Properties *)

Updates == [type : {"new", "content", "edited", "delete"},
            ms : Seq(Messages), text : 0..MaxText]

TypeOK ==
  /\ telegram \in [Messages -> [text : 0..MaxText, gone : BOOLEAN]]
  /\ updates \in Seq(Updates)
  /\ rows \in [Messages -> Rows]
  /\ DOMAIN work = Batch
  /\ \A w \in Batch : DOMAIN work[w] \subseteq Messages
                     /\ \A m \in DOMAIN work[w] : work[w][m] \in Rows
  /\ live \in [pc : {"idle", "rebuilt", "raised"}, text : Texts \cup {0}]
  /\ hist \in [Runs -> [pc : {"idle", "apply", "write"},
                        todo : Seq([m : Messages, text : 1..MaxText]),
                        newest : Messages \cup {0}, existed : BOOLEAN, wrote : BOOLEAN]]
  /\ oper \in {"idle", "write"}
  /\ cursor \in Messages \cup {0}

\* Refinement.  Whatever the writers do to each other, what the readers of the
\* tables see is SourceFeed: every committed version comes with its announcement.
Feed == INSTANCE SourceFeed WITH feed <- rows
ImplementsFeed == Feed!FeedSpec

\* The canonical row shows the content of the latest version.
Canonical(r) == Seen(r) => r.text = Latest(r)

\* Every committed version was announced once and under its own number, no two
\* versions in a row are equal, and the row shows the latest, though the writers
\* decide on rows they read before they held the lock.
VersionsAnnounced == \A m \in Messages : Announced(rows[m]) /\ NoEcho(rows[m]) /\ Canonical(rows[m])

\* The cursor of the channel never passes a history run that was rolled back: the
\* message it names is stored.
CursorIsStored == cursor # 0 => Seen(rows[cursor])

\* Every update whose handler got to its row is settled and every history run ends:
\* runs that lock the same rows never wait for each other in a circle.
WritersEnd == /\ live.pc # "idle" ~> live.pc = "idle"
              /\ \A h \in Runs : hist[h].pc # "idle" ~> hist[h].pc = "idle"

\* What the design says of updateNewMessage: it becomes a source message.  The
\* dispatcher never has to give one up as failed.
NewIsStored == live.pc = "raised" => Current.type # "new"
===============================================================================

------------------------------ MODULE Mailbox ------------------------------
(***************************************************************************)
(* One IMAP mailbox of epistle: the message files and their sidecars (UID, *)
(* flags, mod-sequence), the UID and mod-sequence counters, the metadata   *)
(* index, the journal of vanished UIDs, the sessions that open, refresh    *)
(* and change the mailbox through a snapshot, and the deliveries and       *)
(* APPENDs that add messages beside them.                                  *)
(*                                                                         *)
(* There is no lock on a mailbox: a session's operation is a sequence of   *)
(* file accesses, and other sessions, deliveries and a crash of the server *)
(* come between them.  Overlap = FALSE keeps the operations of different   *)
(* sessions apart (deliveries still come between any two accesses).        *)
(***************************************************************************)
EXTENDS Integers, Sequences, FiniteSetsExt

CONSTANTS
  Msgs,        \* messages: numbers, in the order of their UUIDv7
  Sessions,    \* IMAP sessions, one per client
  Flags,       \* message flags; "deleted" is \Deleted
  Writers,     \* how messages arrive: "deliver" (SMTP), "append" (IMAP, JMAP)
  NewFlags,    \* the flag sets messages arrive with
  Overlap,     \* whether operations of different sessions may overlap
  MaxOps,      \* bound: STORE, EXPUNGE, MOVE and CLOSE commands, and crashes
  MaxCrashes   \* bound: of those, crashes of the server

ASSUME MailboxAssumption ==
  /\ Msgs \subseteq Nat \ {0} /\ IsFiniteSet(Msgs)
  /\ "deleted" \in Flags /\ NewFlags \subseteq SUBSET Flags
  /\ Writers \subseteq {"deliver", "append"}
  /\ Overlap \in BOOLEAN /\ MaxOps \in Nat /\ MaxCrashes \in Nat

VARIABLES
  \* --- on disk
  eml,       \* the messages whose .eml file is in the mailbox
  uidFile,   \* [Msgs -> Nat]: the .uid sidecars, 0 when there is none
  flagFile,  \* [Msgs -> SUBSET Flags]: the .flags sidecars
  modFile,   \* [Msgs -> Nat]: the .modseq sidecars, 1 when there is none
  uidNext,   \* .uidnext, 0 when absent
  modCtr,    \* .modseqctr, 1 when absent
  index,     \* the metadata index: its generation stamp and its records
  journal,   \* the vanished journal: pairs of a UID and a mod-sequence
  \* --- deliveries and APPENDs
  arrival,   \* [Msgs -> Arrival]
  \* --- sessions, and what their clients remember
  pc,        \* [Sessions -> where its operation is]
  op,        \* [Sessions -> Op]: the operation's local variables
  scanned,   \* [Sessions -> snapshot]: what its scan has read so far
  snap,      \* [Sessions -> snapshot]: Snapshot.messages
  view,      \* [Sessions -> Seq(Msgs)]: the messages by the client's numbers
  high,      \* [Sessions -> Nat]: HIGHESTMODSEQ the last SELECT told
  \* --- history and bounds
  named,     \* pairs <<uid, message>> ever given out
  spent      \* commands and crashes so far

diskVars == <<eml, uidFile, flagFile, modFile, uidNext, modCtr, index, journal>>
sessVars == <<pc, op, scanned, snap, view, high>>
vars     == <<diskVars, arrival, sessVars, named, spent>>

\* One MessageRef, without size and date.
Ref       == [uid : Nat, flags : SUBSET Flags, modseq : Nat]
IsSnapshot(f) == DOMAIN f \subseteq Msgs /\ f \in [DOMAIN f -> Ref]
Gen       == [modseq : Nat, count : Nat]
NoMsgs    == [i \in {} |-> 0]

Arrival == [at : {"none", "staged", "published", "done"},
            by : {"deliver", "append"}, flags : SUBSET Flags]

PCs == {"out", "idle", "gen", "count", "list", "scan", "uidnext", "build",
        "flags", "read", "bump", "stamp", "unlink", "log"}

Op == [kind : {"none", "select", "refresh", "store", "remove", "close"},
       report : BOOLEAN, gen : Gen, ids : SUBSET Msgs, gone : SUBSET Msgs,
       ctr : Nat, val : Nat, uids : SUBSET Nat, flags : SUBSET Flags]

NoOp == [kind |-> "none", report |-> TRUE, gen |-> [modseq |-> 0, count |-> 0],
         ids |-> {}, gone |-> {}, ctr |-> 0, val |-> 0, uids |-> {}, flags |-> {}]

Ascending(S)   == CHOOSE q \in [1..Cardinality(S) -> S] : \A m, n \in DOMAIN q : m < n => q[m] < q[n]
With(f, k, v)  == [i \in DOMAIN f \cup {k} |-> IF i = k THEN v ELSE f[i]]
Without(f, S)  == [i \in DOMAIN f \ S |-> f[i]]
Busy(s)        == pc[s] \notin {"out", "idle"}
MayStart(s)    == Overlap \/ \A t \in Sessions \ {s} : ~Busy(t)

Init ==
  /\ eml = {} /\ uidFile = [i \in Msgs |-> 0] /\ flagFile = [i \in Msgs |-> {}]
  /\ modFile = [i \in Msgs |-> 1] /\ uidNext = 0 /\ modCtr = 1
  /\ index = [gen |-> [modseq |-> 0, count |-> 0], recs |-> NoMsgs]
  /\ journal = {}
  /\ arrival = [i \in Msgs |-> [at |-> "none", by |-> "deliver", flags |-> {}]]
  /\ pc = [s \in Sessions |-> "out"] /\ op = [s \in Sessions |-> NoOp]
  /\ scanned = [s \in Sessions |-> NoMsgs]
  /\ snap = [s \in Sessions |-> NoMsgs] /\ view = [s \in Sessions |-> <<>>]
  /\ high = [s \in Sessions |-> 0]
  /\ named = {} /\ spent = [ops |-> 0, crashes |-> 0]

-----------------------------------------------------------------------------
(***************************************************************************)
(* Arrivals.  The id is drawn before the message is written, so a message  *)
(* may appear after one with a later id; SMTP deliveries to one account    *)
(* exclude one another, APPENDs do not.  The flags follow the rename.      *)
(***************************************************************************)
Stage(i) ==
  /\ arrival[i].at = "none"
  /\ \A j \in Msgs : j < i => arrival[j].at # "none"
  /\ \E w \in Writers, f \in NewFlags :
       /\ w = "deliver" => \A j \in Msgs : arrival[j].by = "deliver"
                                            => arrival[j].at \in {"none", "done"}
       /\ arrival' = [arrival EXCEPT ![i] = [at |-> "staged", by |-> w, flags |-> f]]
  /\ UNCHANGED <<diskVars, sessVars, named, spent>>

Publish(i) ==
  /\ arrival[i].at = "staged"
  /\ eml' = eml \cup {i}
  /\ arrival' = [arrival EXCEPT ![i].at = IF arrival[i].flags = {} THEN "done" ELSE "published"]
  /\ UNCHANGED <<uidFile, flagFile, modFile, uidNext, modCtr, index, journal>>
  /\ UNCHANGED <<sessVars, named, spent>>

WriteNewFlags(i) ==
  /\ arrival[i].at = "published"
  /\ flagFile' = [flagFile EXCEPT ![i] = arrival[i].flags]
  /\ arrival' = [arrival EXCEPT ![i].at = "done"]
  /\ UNCHANGED <<eml, uidFile, modFile, uidNext, modCtr, index, journal>>
  /\ UNCHANGED <<sessVars, named, spent>>

-----------------------------------------------------------------------------
(***************************************************************************)
(* Snapshot::open_at, and what the session does with the snapshot.         *)
(***************************************************************************)
Goto(s, where)      == pc' = [pc EXCEPT ![s] = where]
GotoWith(s, w, o)   == Goto(s, w) /\ op' = [op EXCEPT ![s] = o]

Select(s) ==
  /\ pc[s] = "out" /\ MayStart(s)
  /\ GotoWith(s, "gen", [NoOp EXCEPT !.kind = "select"])
  /\ UNCHANGED <<diskVars, arrival, scanned, snap, view, high, named, spent>>

\* NOOP, CHECK, IDLE and NOTIFY: sync_selected, with or without flag changes.
Refresh(s) ==
  /\ pc[s] = "idle" /\ MayStart(s)
  /\ \E r \in BOOLEAN : GotoWith(s, "gen", [NoOp EXCEPT !.kind = "refresh", !.report = r])
  /\ UNCHANGED <<diskVars, arrival, scanned, snap, view, high, named, spent>>

\* keep_flags_of: the flags and mod-sequence `known` has, message by UID.
KeepFlagsOf(fresh, known) ==
  [i \in DOMAIN fresh |->
     LET told == {j \in DOMAIN known : known[j].uid = fresh[i].uid}
     IN IF told = {} THEN fresh[i]
        ELSE [fresh[i] EXCEPT !.flags = known[Max(told)].flags, !.modseq = known[Max(told)].modseq]]

\* The client's numbers after the positions of `gone` in `known` are expunged.
Dropped(numbers, known, gone) ==
  LET at   == Ascending(DOMAIN known)
      kept == Ascending({n \in DOMAIN at : at[n] \notin gone /\ n \in DOMAIN numbers})
  IN [n \in DOMAIN kept |-> numbers[kept[n]]]

MutantForgetsExpunges(numbers, known, fresh) ==
  numbers \o SubSeq(Ascending(DOMAIN fresh), Len(numbers) + 1, Cardinality(DOMAIN fresh))

\* The client's numbers after changes(): EXPUNGE for each known UID that is
\* not in `fresh`, then EXISTS; it asks for the numbers past those it has.
Changes(numbers, known, fresh) ==
  LET gone == {i \in DOMAIN known : \A j \in DOMAIN fresh : fresh[j].uid # known[i].uid}
      kept == Dropped(numbers, known, gone)
      now  == Ascending(DOMAIN fresh)
  IN kept \o SubSeq(now, Len(kept) + 1, Len(now))

\* The end of an open: SELECT replaces everything the client knows, a refresh
\* tells it the difference.
Opened(s, refs, modseq) ==
  LET fresh == IF op[s].report THEN refs ELSE KeepFlagsOf(refs, snap[s])
  IN /\ snap' = [snap EXCEPT ![s] = fresh]
     /\ IF op[s].kind = "select"
          THEN /\ view' = [view EXCEPT ![s] = Ascending(DOMAIN fresh)]
               /\ high' = [high EXCEPT ![s] = modseq]
          ELSE /\ view' = [view EXCEPT ![s] = Changes(@, snap[s], fresh)]
               /\ UNCHANGED high
     /\ GotoWith(s, "idle", NoOp)

ReadGeneration(s) ==
  /\ pc[s] = "gen"
  /\ GotoWith(s, "count", [op[s] EXCEPT !.gen.modseq = modCtr])
  /\ UNCHANGED <<diskVars, arrival, scanned, snap, view, high, named, spent>>

\* load: the stamp must be the generation, the records as many as it says.
IndexAccepts(gen) == index.gen = gen /\ Cardinality(DOMAIN index.recs) = gen.count

MutantCountOffByOne(s) ==
  /\ pc[s] = "count"
  /\ GotoWith(s, "list", [op[s] EXCEPT !.gen.count = Cardinality(eml) - 1])
  /\ UNCHANGED <<diskVars, arrival, scanned, snap, view, high, named, spent>>

LoadIndex(s) ==
  /\ pc[s] = "count"
  /\ LET gen == [op[s].gen EXCEPT !.count = Cardinality(eml)]
     IN IF IndexAccepts(gen)
          THEN Opened(s, index.recs, gen.modseq)
          ELSE GotoWith(s, "list", [op[s] EXCEPT !.gen = gen]) /\ UNCHANGED <<snap, view, high>>
  /\ UNCHANGED <<diskVars, arrival, scanned, named, spent>>

ScanList(s) ==
  /\ pc[s] = "list"
  /\ GotoWith(s, IF eml = {} THEN "build" ELSE "scan",
              [op[s] EXCEPT !.ids = eml, !.ctr = uidNext, !.val = uidNext])
  /\ UNCHANGED <<diskVars, arrival, scanned, snap, view, high, named, spent>>

\* One message of the scan: assign_or_read, read_flags, the mod-sequence.
ScanOne(s) ==
  /\ pc[s] = "scan"
  /\ LET i    == Min(op[s].ids)
         new  == uidFile[i] = 0
         uid  == IF new THEN op[s].ctr + 1 ELSE uidFile[i]
         ctr  == IF new THEN uid ELSE op[s].ctr
         ref  == [uid |-> uid, flags |-> flagFile[i], modseq |-> modFile[i]]
         left == op[s].ids \ {i}
         next == IF left # {} THEN "scan" ELSE IF ctr > op[s].val THEN "uidnext" ELSE "build"
     IN /\ uidFile' = [uidFile EXCEPT ![i] = uid]
        /\ named' = named \cup {<<uid, i>>}
        /\ scanned' = [scanned EXCEPT ![s] = With(@, i, ref)]
        /\ GotoWith(s, next, [op[s] EXCEPT !.ids = left, !.ctr = ctr])
  /\ UNCHANGED <<eml, flagFile, modFile, uidNext, modCtr, index, journal>>
  /\ UNCHANGED <<arrival, snap, view, high, spent>>

MutantCounterNotSaved(s) ==
  /\ pc[s] = "uidnext"
  /\ Goto(s, "build")
  /\ UNCHANGED <<diskVars, arrival, op, scanned, snap, view, high, named, spent>>

WriteUidNext(s) ==
  /\ pc[s] = "uidnext"
  /\ uidNext' = op[s].ctr
  /\ Goto(s, "build")
  /\ UNCHANGED <<eml, uidFile, flagFile, modFile, modCtr, index, journal>>
  /\ UNCHANGED <<arrival, op, scanned, snap, view, high, named, spent>>

\* HIGHESTMODSEQ is read after the scan; the index carries the generation
\* that was read before it.
BuildSnapshot(s) ==
  /\ pc[s] = "build"
  /\ index' = [gen |-> op[s].gen, recs |-> scanned[s]]
  /\ Opened(s, scanned[s], Max({modCtr} \cup {scanned[s][i].modseq : i \in DOMAIN scanned[s]}))
  /\ scanned' = [scanned EXCEPT ![s] = NoMsgs]
  /\ UNCHANGED <<eml, uidFile, flagFile, modFile, uidNext, modCtr, journal>>
  /\ UNCHANGED <<arrival, named, spent>>

-----------------------------------------------------------------------------
(***************************************************************************)
(* STORE on one message: the flags are read again from the sidecar, the    *)
(* new ones written, the mailbox counter advanced, the message stamped.    *)
(***************************************************************************)
Spend    == spent.ops + spent.crashes < MaxOps /\ spent' = [spent EXCEPT !.ops = @ + 1]
Modes    == {"set", "add", "remove"}

NextFlags(mode, current, f) ==
  CASE mode = "set" -> f [] mode = "add" -> current \cup f [] OTHER -> current \ f

Store(s, i, mode, f) ==
  /\ pc[s] = "idle" /\ MayStart(s) /\ Spend
  /\ i \in DOMAIN snap[s] /\ i \in eml
  /\ snap' = [snap EXCEPT ![s][i] = [@ EXCEPT !.flags = flagFile[i], !.modseq = modFile[i]]]
  /\ LET next == NextFlags(mode, flagFile[i], f)
     IN IF next = flagFile[i] THEN UNCHANGED <<pc, op>>
        ELSE GotoWith(s, "flags", [NoOp EXCEPT !.kind = "store", !.ids = {i}, !.flags = next])
  /\ UNCHANGED <<diskVars, arrival, scanned, view, high, named>>

WriteFlags(s) ==
  /\ pc[s] = "flags"
  /\ flagFile' = [i \in Msgs |-> IF i \in op[s].ids THEN op[s].flags ELSE flagFile[i]]
  /\ Goto(s, "read")
  /\ UNCHANGED <<eml, uidFile, modFile, uidNext, modCtr, index, journal>>
  /\ UNCHANGED <<arrival, op, scanned, snap, view, high, named, spent>>

\* next_counter: the counter is read, then written, with no lock.
ReadCounter(s) ==
  /\ pc[s] = "read"
  /\ GotoWith(s, "bump", [op[s] EXCEPT !.val = modCtr + 1])
  /\ UNCHANGED <<diskVars, arrival, scanned, snap, view, high, named, spent>>

MutantRemovalKeepsCounter(s) ==
  /\ pc[s] = "bump"
  /\ modCtr' = IF op[s].kind = "store" THEN op[s].val ELSE modCtr
  /\ Goto(s, IF op[s].kind = "store" THEN "stamp" ELSE "log")
  /\ UNCHANGED <<eml, uidFile, flagFile, modFile, uidNext, index, journal>>
  /\ UNCHANGED <<arrival, op, scanned, snap, view, high, named, spent>>

WriteCounter(s) ==
  /\ pc[s] = "bump"
  /\ modCtr' = op[s].val
  /\ Goto(s, IF op[s].kind = "store" THEN "stamp" ELSE "log")
  /\ UNCHANGED <<eml, uidFile, flagFile, modFile, uidNext, index, journal>>
  /\ UNCHANGED <<arrival, op, scanned, snap, view, high, named, spent>>

MutantMessageNotStamped(s) ==
  /\ pc[s] = "stamp"
  /\ GotoWith(s, "idle", NoOp)
  /\ UNCHANGED <<diskVars, arrival, scanned, snap, view, high, named, spent>>

Stamp(s) ==
  /\ pc[s] = "stamp"
  /\ modFile' = [i \in Msgs |-> IF i \in op[s].ids THEN op[s].val ELSE modFile[i]]
  /\ snap' = [snap EXCEPT ![s] = [i \in DOMAIN @ |->
                IF i \in op[s].ids THEN [@[i] EXCEPT !.flags = op[s].flags, !.modseq = op[s].val]
                ELSE @[i]]]
  /\ GotoWith(s, "idle", NoOp)
  /\ UNCHANGED <<eml, uidFile, flagFile, uidNext, modCtr, index, journal>>
  /\ UNCHANGED <<arrival, scanned, view, high, named, spent>>

-----------------------------------------------------------------------------
(***************************************************************************)
(* Removal: take_where unlinks the files of the doomed messages one after  *)
(* another, then the counter is advanced and the UIDs are journalled.      *)
(***************************************************************************)
Deleted(s) == {i \in DOMAIN snap[s] : "deleted" \in snap[s][i].flags}

Take(s, kind, doomed) ==
  /\ doomed # {}
  /\ GotoWith(s, "unlink", [NoOp EXCEPT !.kind = kind, !.ids = doomed,
                            !.gone = doomed,
                            !.uids = {snap[s][i].uid : i \in doomed}])
  /\ UNCHANGED <<diskVars, arrival, scanned, snap, view, high, named>>

\* EXPUNGE; UID EXPUNGE of some of the deleted messages.
Expunge(s) ==
  /\ pc[s] = "idle" /\ MayStart(s) /\ Spend
  /\ \E doomed \in SUBSET Deleted(s) : Take(s, "remove", doomed)

\* MOVE, once the copy is made: remove_at looks the message up by its UID.
Move(s, i) ==
  /\ pc[s] = "idle" /\ MayStart(s) /\ Spend
  /\ i \in DOMAIN snap[s] /\ i \in eml
  /\ Take(s, "remove", {j \in DOMAIN snap[s] : snap[s][j].uid = snap[s][i].uid})

\* CLOSE expunges in silence and leaves the mailbox.
Close(s) ==
  /\ pc[s] = "idle" /\ MayStart(s) /\ Deleted(s) # {} /\ Spend
  /\ Take(s, "close", Deleted(s))

\* UNSELECT, a CLOSE with nothing to expunge, or a lost connection.
Unselect(s) ==
  /\ pc[s] = "idle"
  /\ Goto(s, "out")
  /\ UNCHANGED <<diskVars, arrival, op, scanned, snap, view, high, named, spent>>

Unlink(s) ==
  /\ pc[s] = "unlink"
  /\ LET i    == Min(op[s].ids)
         left == op[s].ids \ {i}
         gone == op[s].gone
     IN /\ eml' = eml \ {i}
        /\ uidFile' = [uidFile EXCEPT ![i] = 0]
        /\ flagFile' = [flagFile EXCEPT ![i] = {}]
        /\ GotoWith(s, IF left = {} THEN "read" ELSE "unlink", [op[s] EXCEPT !.ids = left])
        /\ IF left = {}
             THEN /\ snap' = [snap EXCEPT ![s] = Without(@, gone)]
                  /\ view' = [view EXCEPT ![s] = Dropped(@, snap[s], gone)]
             ELSE UNCHANGED <<snap, view>>
  /\ UNCHANGED <<modFile, uidNext, modCtr, index, journal>>
  /\ UNCHANGED <<arrival, scanned, high, named, spent>>

\* vanished::record.
Record(s) ==
  /\ pc[s] = "log"
  /\ journal' = journal \cup {<<u, op[s].val>> : u \in op[s].uids}
  /\ GotoWith(s, IF op[s].kind = "close" THEN "out" ELSE "idle", NoOp)
  /\ UNCHANGED <<eml, uidFile, flagFile, modFile, uidNext, modCtr, index>>
  /\ UNCHANGED <<arrival, scanned, snap, view, high, named, spent>>

-----------------------------------------------------------------------------
\* A crash ends every session and every arrival under way; files stay.
Crash ==
  /\ spent.crashes < MaxCrashes /\ spent.ops + spent.crashes < MaxOps
  /\ spent' = [spent EXCEPT !.crashes = @ + 1]
  /\ pc' = [s \in Sessions |-> "out"] /\ op' = [s \in Sessions |-> NoOp]
  /\ scanned' = [s \in Sessions |-> NoMsgs]
  /\ arrival' = [i \in Msgs |-> IF arrival[i].at = "none" THEN arrival[i]
                                ELSE [arrival[i] EXCEPT !.at = "done"]]
  /\ UNCHANGED <<diskVars, snap, view, high, named>>

Open(s) == \/ ReadGeneration(s) \/ LoadIndex(s) \/ ScanList(s) \/ ScanOne(s)
           \/ WriteUidNext(s) \/ BuildSnapshot(s)

Step(s) ==
  \/ Select(s) \/ Refresh(s) \/ Open(s) \/ Unselect(s)
  \/ \E i \in DOMAIN snap[s] : \/ \E m \in Modes, f \in Flags : Store(s, i, m, {f})
                               \/ Move(s, i)
  \/ WriteFlags(s) \/ ReadCounter(s) \/ WriteCounter(s) \/ Stamp(s)
  \/ Expunge(s) \/ Close(s) \/ Unlink(s) \/ Record(s)

Next ==
  \/ \E i \in Msgs : Stage(i) \/ Publish(i) \/ WriteNewFlags(i)
  \/ \E s \in Sessions : Step(s)
  \/ Crash

Spec == Init /\ [][Next]_vars
-----------------------------------------------------------------------------
(***************************************************************************)
(* Properties.                                                             *)
(***************************************************************************)

\* The disk holds what the sidecar formats allow, and every session is at a
\* step of an operation with the local variables that step needs.
TypeOK ==
  /\ eml \in SUBSET Msgs /\ uidFile \in [Msgs -> Nat] /\ flagFile \in [Msgs -> SUBSET Flags]
  /\ modFile \in [Msgs -> Nat] /\ uidNext \in Nat /\ modCtr \in Nat
  /\ index = [gen |-> index.gen, recs |-> index.recs]
  /\ index.gen \in Gen /\ IsSnapshot(index.recs) /\ journal \subseteq Nat \X Nat
  /\ arrival \in [Msgs -> Arrival] /\ pc \in [Sessions -> PCs] /\ op \in [Sessions -> Op]
  /\ DOMAIN snap = Sessions /\ DOMAIN scanned = Sessions
  /\ \A s \in Sessions : IsSnapshot(snap[s]) /\ IsSnapshot(scanned[s])
  /\ view \in [Sessions -> Seq(Msgs)]
  /\ high \in [Sessions -> Nat] /\ named \subseteq Nat \X Msgs
  /\ spent \in [ops : Nat, crashes : Nat]

\* A message keeps the UID it was first given, whatever else happens, and as
\* long as the server has not crashed no two messages share one: a scan that
\* meets arrivals and removals between its accesses never gives a number
\* twice (imap/uid.rs: "assigned from the mailbox's monotonic counter").
UidsSound ==
  \A a, b \in named : /\ a[2] = b[2] => a[1] = b[1]
                      /\ a[1] = b[1] /\ spent.crashes = 0 => a[2] = b[2]

\* A UID never names two messages, over the whole life of the mailbox: "no
\* other UID ever takes the same value" (imap/session/literal.rs), which is
\* why REPLACE and MOVE may remove files by UID.
UidsUnique ==
  \A a, b \in named : a[1] = b[1] => a[2] = b[2]

Quiet == /\ \A s \in Sessions : ~Busy(s)
         /\ \A i \in Msgs : arrival[i].at # "published"

Accepted == Quiet /\ IndexAccepts([modseq |-> modCtr, count |-> Cardinality(eml)])

\* "A corrupt index can therefore never yield wrong mailbox contents"
\* (imap/index/mod.rs), as far as it goes: while nothing is under way and the
\* server has not crashed, an index the next open would accept holds the
\* messages, UIDs and mod-sequences a scan of the files would, and the flags
\* of every message that arrived without any.  No arrival that slips in
\* beside an expunge brings back the stamp of an older index.  (The flags of
\* an arriving message are written after its rename, with no change of the
\* stamp: an index written between the two keeps it unflagged.)
IndexSound ==
  Accepted /\ spent.crashes = 0 =>
    /\ DOMAIN index.recs = eml
    /\ \A i \in eml : /\ index.recs[i].uid = uidFile[i]
                      /\ index.recs[i].modseq = modFile[i]
                      /\ arrival[i].flags = {} => index.recs[i].flags = flagFile[i]

\* The sequence numbers a client derives from the EXPUNGE and EXISTS lines it
\* was sent are the positions of the session's snapshot, so a STORE or a
\* FETCH by number reaches the message the client means (sync.rs).
ClientAgrees ==
  \A s \in Sessions : pc[s] = "idle" => view[s] = Ascending(DOMAIN snap[s])

\* The same while the server has not crashed, for mail that only SMTP
\* deliveries add: they publish in the order of their ids, so what arrives is
\* numbered last, and expunges by other sessions leave the order alone.
NumbersSound ==
  spent.crashes = 0 /\ (\A i \in Msgs : arrival[i].by = "deliver") => ClientAgrees

\* A client that comes back with the HIGHESTMODSEQ it was told can learn all
\* it missed while the server has not crashed: a message it knows that is
\* gone is in VANISHED (EARLIER), and one that arrived without flags and was
\* given some passes FETCH CHANGEDSINCE, whatever other sessions did on older snapshots.
QresyncComplete ==
  Quiet /\ spent.crashes = 0 => \A s \in Sessions : \A i \in DOMAIN snap[s] :
    /\ i \notin eml => \E v \in journal : v[1] = snap[s][i].uid /\ v[2] > high[s]
    /\ i \in eml /\ arrival[i].flags = {} /\ flagFile[i] # snap[s][i].flags
         => modFile[i] > high[s]

=============================================================================

--------------------------- MODULE NtvMaintenance ---------------------------
(***************************************************************************)
(* Keeping the index of a mailbox up to date: saveit puts mail into the    *)
(* spool, ntvincreindex and ntvfullreindex move it into the archive, bring *)
(* the index up to date in index.new and put that in place of index.  The  *)
(* hooks are those of skel/mailsimple.                                     *)
(*                                                                         *)
(* A document is a mail and whether the whole of it was there to be read.  *)
(* A directory of an index is the documents in it and whether it has any   *)
(* files.  A step is a command that changes a file; moving the files of an *)
(* index is one step, and rm and the creation of runblocked work.  Other   *)
(* commands fail and the machine stops at most MaxFaults times.  One run   *)
(* is going on at a time, which the scripts leave to whoever starts them.  *)
(***************************************************************************)
EXTENDS Naturals, Sequences

CONSTANTS Mail, MaxFaults

Doc == Mail \X {"whole", "part"}
Mails(docs) == {d[1] : d \in docs}
NoIndex == [there |-> FALSE, docs |-> {}]
IndexOf(docs) == [there |-> TRUE, docs |-> docs]

VARIABLES spool,                \* the file of each mail: none yet, "writing", "saved",
                                \* "unlinked" while being written, or "gone"
          archive,              \* the documents in archive/*.mbx
          inc,                  \* inc.xml: documents, and whether it breaks off after them
          index, new, old,      \* index/, index.new/, index.old/
          blocked,              \* the file runblocked is there
          run,                  \* the run: see NoRun
          faults,               \* bound: the faults so far
          short,                \* history: the mails whose last copy came out short
          missed                \* history: the mails whose record a fault took

vars == <<spool, archive, inc, index, new, old, blocked, run, faults, short, missed>>

NoXML == [docs |-> {}, torn |-> FALSE]

\* The process of readspool that does the work is at mail, with todo to come;
\* parents are those that wait for it.  owed are the mails only this run knows it
\* must index, cut those ntvindex did not come to.
NoRun == [kind |-> "none", at |-> "idle", todo |-> {}, mail |-> {}, parents |-> <<>>,
          owed |-> {}, cut |-> {}]

Init == /\ spool = [m \in Mail |-> "none"] /\ archive = {} /\ inc = NoXML
        /\ index = NoIndex /\ new = NoIndex /\ old = NoIndex
        /\ blocked = FALSE /\ run = NoRun /\ faults = 0 /\ short = {} /\ missed = {}

At(place) == run.at = place
GoTo(place) == run' = [run EXCEPT !.at = place]
Fault == faults < MaxFaults /\ faults' = faults + 1
Gone == {m \in Mail : spool[m] \in {"unlinked", "gone"}}
Read(m) == <<m, IF spool[m] = "writing" THEN "part" ELSE "whole">>
----------------------------------------------------------------------------
(* saveit, at any time. *)

Deliver(m) ==
    /\ spool[m] = "none" /\ spool' = [spool EXCEPT ![m] = "writing"]
    /\ UNCHANGED <<archive, inc, index, new, old, blocked, run, faults, short, missed>>

\* The end of the mail goes to a file that may have been removed.
Delivered(m) ==
    /\ spool[m] \in {"writing", "unlinked"}
    /\ spool' = [spool EXCEPT ![m] = IF @ = "writing" THEN "saved" ELSE "gone"]
    /\ UNCHANGED <<archive, inc, index, new, old, blocked, run, faults, short, missed>>
----------------------------------------------------------------------------
(* A run, from ok to the end of the spool; prepfullidx removes inc.xml.    *)

\* (a mistake: an incremental run begins with an inc.xml of its own)
StartAfresh(kind) ==
    /\ At("idle") /\ ~blocked
    /\ run' = [NoRun EXCEPT !.kind = kind, !.at = "spool"]
    /\ inc' = NoXML
    /\ UNCHANGED <<spool, archive, index, new, old, blocked, faults, short, missed>>

Start(kind) ==
    /\ At("idle") /\ ~blocked
    /\ run' = [NoRun EXCEPT !.kind = kind, !.at = "spool",
                            !.owed = IF kind = "full" THEN Mails(inc.docs) ELSE {}]
    /\ inc' = IF kind = "full" THEN NoXML ELSE inc
    /\ UNCHANGED <<spool, archive, index, new, old, blocked, faults, short, missed>>

ReadSpool ==
    /\ At("spool")
    /\ run' = [run EXCEPT !.at = "list",
                          !.todo = {m \in Mail : spool[m] \in {"writing", "saved"}}]
    /\ UNCHANGED <<spool, archive, inc, index, new, old, blocked, faults, short, missed>>

\* With -xml a mail goes into inc.xml first.
NextMail ==
    /\ At("list")
    /\ \E m \in run.todo :
          run' = [run EXCEPT !.todo = @ \ {m}, !.mail = {m},
                             !.at = IF run.kind = "inc" THEN "xml" ELSE "archive"]
    /\ UNCHANGED <<spool, archive, inc, index, new, old, blocked, faults, short, missed>>

\* A process of readspool ends: the nearest of its parents that has not been
\* ended by SIGPIPE goes on with its own mail, and without one the run is over.
Exits == {NoRun} \cup {[run EXCEPT !.at = "archive", !.mail = run.parents[n].mail,
                                   !.todo = run.parents[n].todo,
                                   !.parents = SubSeq(run.parents, 1, n - 1)] :
                       n \in DOMAIN run.parents}

\* It ends with success: if it is the first one the script goes on.
ExitsWell == IF run.parents = <<>>
             THEN {[run EXCEPT !.at = "prepare", !.todo = {}, !.mail = {}]} ELSE Exits

EndOfList ==
    /\ At("list") /\ run.todo = {} /\ run' \in ExitsWell
    /\ UNCHANGED <<spool, archive, inc, index, new, old, blocked, faults, short, missed>>

\* Nothing that comes after a broken place of inc.xml will be read.  The filter
\* writes nothing for a file that is gone.
AppendXML ==
    /\ At("xml") /\ GoTo("archive")
    /\ IF inc.torn
       THEN inc' = inc /\ missed' = missed \cup (run.mail \ Gone)
       ELSE /\ inc' = [inc EXCEPT !.docs = @ \cup {Read(m) : m \in run.mail \ Gone}]
            /\ missed' = missed \ (run.mail \ Gone)
    /\ UNCHANGED <<spool, archive, index, new, old, blocked, faults, short>>

\* readspool takes no notice of a child that failed, unless it writes to it
\* afterwards.
NoNotice ==
    \/ GoTo("archive") /\ missed' = missed \cup run.mail
    \/ run' \in Exits /\ UNCHANGED missed

\* The name of the mail does not get to the filter, or not all the XML into the
\* file.
FilterFails ==
    /\ At("xml") /\ Fault /\ NoNotice
    /\ inc' \in {inc, [inc EXCEPT !.torn = TRUE]}
    /\ UNCHANGED <<spool, archive, index, new, old, blocked, short>>

\* inc.xml cannot be opened: the child creates runblocked and ends.
OpenXMLFails ==
    /\ At("xml") /\ Fault /\ NoNotice /\ blocked' = TRUE
    /\ UNCHANGED <<spool, archive, inc, index, new, old, short>>

\* The filter cannot be executed: the child goes on with the rest of the loop, and
\* its parent waits for it.
ExecFails ==
    /\ At("xml") /\ Fault /\ missed' = missed \cup run.mail
    /\ run' = [run EXCEPT !.at = "archive",
                          !.parents = Append(@, [mail |-> run.mail, todo |-> run.todo])]
    /\ UNCHANGED <<spool, archive, inc, index, new, old, blocked, short>>

\* There is no child: the filter takes the place of readspool and ends well.
ForkFails ==
    /\ At("xml") /\ Fault /\ run' \in ExitsWell
    /\ UNCHANGED <<spool, archive, inc, index, new, old, blocked, short, missed>>

\* Whether anything was written, or all of it, is not tested.
AppendArchive ==
    /\ At("archive") /\ run.mail \cap Gone = {}
    /\ run' = [run EXCEPT !.at = "unlink",
                          !.owed = @ \cup (IF run.kind = "full" THEN run.mail ELSE {})]
    /\ \/ /\ archive' = archive \cup {Read(m) : m \in run.mail}
          /\ short' = (short \ run.mail) \cup {m \in run.mail : spool[m] = "writing"}
          /\ UNCHANGED faults
       \/ /\ archive' \in {archive, archive \cup (run.mail \X {"part"})}
          /\ short' = short \cup run.mail /\ Fault
    /\ UNCHANGED <<spool, inc, index, new, old, blocked, missed>>

\* What ntverror does in readspool.
NtvError == blocked' = TRUE /\ run' \in Exits /\ missed' = missed \cup run.owed

\* A child has moved the mail already.
MailIsGone ==
    /\ At("archive") /\ run.mail \cap Gone # {} /\ NtvError
    /\ UNCHANGED <<spool, archive, inc, index, new, old, faults, short>>

\* (a mistake: ntverror comes back, and the mail is removed all the same)
ReadspoolGoesOn ==
    /\ At("archive") /\ Fault /\ GoTo("unlink") /\ blocked' = TRUE
    /\ UNCHANGED <<spool, archive, inc, index, new, old, short, missed>>

ReadspoolFails ==
    /\ run.at \in {"spool", "archive"} /\ Fault /\ NtvError
    /\ UNCHANGED <<spool, archive, inc, index, new, old, short>>

Unlinked(m) == IF m \notin run.mail THEN spool[m]
               ELSE IF spool[m] = "writing" THEN "unlinked" ELSE "gone"

\* A failure goes unseen: || binds tighter than unlink, so its result is not tested.
Unlink ==
    /\ At("unlink") /\ run' = [run EXCEPT !.at = "list", !.mail = {}]
    /\ \/ spool' = [m \in Mail |-> Unlinked(m)] /\ UNCHANGED faults
       \/ spool' = spool /\ Fault
    /\ UNCHANGED <<archive, inc, index, new, old, blocked, short, missed>>
----------------------------------------------------------------------------
(* The rest of the run. *)

\* The second call of ok.
Refuse ==
    /\ At("prepare") /\ blocked /\ run' = NoRun
    /\ UNCHANGED <<spool, archive, inc, index, new, old, blocked, faults, short, missed>>

\* index.new becomes empty, or a copy of index; index.old becomes empty.
Prepare ==
    /\ At("prepare") /\ ~blocked /\ GoTo("index")
    /\ new' = IF run.kind = "inc" THEN index ELSE NoIndex
    /\ old' = NoIndex
    /\ UNCHANGED <<spool, archive, inc, index, blocked, faults, short, missed>>

XML == IF run.kind = "inc" THEN inc.docs ELSE archive

\* ntvindex adds what it is given to index.new; fullxml removes inc.xml.  It
\* reports success whatever the XML was like, and so does the pipe.
BuildIndex ==
    /\ At("index")
    /\ inc' = IF run.kind = "full" THEN NoXML ELSE inc
    /\ \E docs \in SUBSET XML :
          /\ IF docs = XML THEN UNCHANGED faults ELSE Fault
          /\ new' = IndexOf(new.docs \cup docs)
          /\ run' = [run EXCEPT !.at = "done", !.cut = Mails(XML \ docs)]
    /\ UNCHANGED <<spool, archive, index, old, blocked, short, missed>>

DoneIdx ==
    /\ At("done")
    /\ run' = [run EXCEPT !.at = "moveold", !.owed = @ \cup Mails(inc.docs)]
    /\ inc' = NoXML
    /\ UNCHANGED <<spool, archive, index, new, old, blocked, faults, short, missed>>

MoveOld ==
    /\ At("moveold") /\ GoTo("movenew")
    /\ IF index.there THEN old' = index /\ index' = NoIndex ELSE UNCHANGED <<index, old>>
    /\ UNCHANGED <<spool, archive, inc, new, blocked, faults, short, missed>>

MoveNew ==
    /\ At("movenew") /\ run' = NoRun
    /\ index' = new /\ new' = NoIndex
    /\ missed' = run.cut \cup (IF run.kind = "full" THEN {} ELSE missed)
    /\ UNCHANGED <<spool, archive, inc, old, blocked, faults, short>>
----------------------------------------------------------------------------
(* Faults of the script and the machine, and the operator who removes      *)
(* runblocked.                                                             *)

\* A command ntvincreindex tests fails: it creates runblocked and gives up.  The
\* last mv is to put the old index back, and may fail too.
Fail ==
    /\ run.at \in {"prepare", "index", "moveold", "movenew"} /\ Fault
    /\ blocked' = TRUE /\ run' = NoRun
    /\ \/ ~At("movenew") /\ UNCHANGED <<index, old>> /\ missed' = missed \cup run.owed
       \/ At("movenew") /\ index' = old /\ old' = NoIndex /\ missed' = missed \cup run.owed
       \/ /\ At("movenew") /\ UNCHANGED <<index, old>>
          /\ missed' = missed \cup run.owed \cup Mails(old.docs)
    /\ new' \in IF At("prepare") THEN {NoIndex, new} ELSE {new}
    /\ inc' = IF At("index") /\ run.kind = "full" THEN NoXML ELSE inc
    /\ UNCHANGED <<spool, archive, short>>

\* The machine stops: nothing blocks the next run.
Kill ==
    /\ ~At("idle") /\ Fault /\ run' = NoRun
    /\ \/ /\ UNCHANGED <<inc, archive>>
          /\ missed' = missed \cup run.owed
                              \cup (IF At("movenew") THEN Mails(old.docs) ELSE {})
       \/ /\ At("xml") /\ inc' = [inc EXCEPT !.torn = TRUE]
          /\ UNCHANGED <<archive, missed>>
       \/ /\ At("archive") /\ run.mail \cap Gone = {}
          /\ archive' = archive \cup (run.mail \X {"part"})
          /\ missed' = missed \cup run.owed \cup (IF run.kind = "full" THEN run.mail ELSE {})
          /\ UNCHANGED inc
    /\ UNCHANGED <<spool, index, new, old, blocked, short>>

Unblock ==
    /\ blocked /\ At("idle") /\ blocked' = FALSE
    /\ UNCHANGED <<spool, archive, inc, index, new, old, run, faults, short, missed>>

Next == \/ \E m \in Mail : Deliver(m) \/ Delivered(m)
        \/ \E kind \in {"inc", "full"} : Start(kind)
        \/ ReadSpool \/ NextMail \/ EndOfList
        \/ AppendXML \/ FilterFails \/ OpenXMLFails \/ ExecFails \/ ForkFails
        \/ AppendArchive \/ MailIsGone \/ ReadspoolFails \/ Unlink
        \/ Refuse \/ Prepare \/ BuildIndex \/ DoneIdx \/ MoveOld \/ MoveNew
        \/ Fail \/ Kill \/ Unblock

Spec == Init /\ [][Next]_vars
----------------------------------------------------------------------------
\* A mail that has left the spool is in the archive, the whole of it, wherever runs
\* stopped or went wrong before, unless its last copy came out short: readspool
\* came while saveit was writing the mail, or the print or close it does not test
\* failed.  Those two are what "Remove from spool if all good" (mailsimplereadspool)
\* does not stand for.
MailIsKeptWhole ==
    \A m \in Mail : spool[m] \in {"unlinked", "gone"} /\ m \notin short =>
        <<m, "whole">> \in archive

\* Between runs every mail of the archive can be searched, or is in the inc.xml
\* the next incremental run will read, but for the mails missed: those whose XML
\* failed without notice, those ntvindex was cut off from, and those a run had
\* taken on itself when it ended after inc.xml was removed.  So a run that is
\* refused, or fails before doneidx, loses the track of nothing, none of these
\* faults costs another mail, and a full run that ends well makes good for all.
ArchiveIsAccountedFor ==
    At("idle") => Mails(archive) \subseteq Mails(index.docs \cup inc.docs) \cup missed
=============================================================================

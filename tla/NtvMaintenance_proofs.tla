----------------------- MODULE NtvMaintenance_proofs -----------------------
(***************************************************************************)
(* The scripts that keep the index of a mailbox lose no mail and no        *)
(* document but by the faults that MailIsKeptWhole and                     *)
(* ArchiveIsAccountedFor name, for any number of mails and of faults.      *)
(***************************************************************************)
EXTENDS NtvMaintenance, TLAPS

Places == {"idle", "spool", "list", "xml", "archive", "unlink", "prepare", "index", "done",
           "moveold", "movenew"}

Directory == {d \in [there : BOOLEAN, docs : SUBSET Doc] : d.there \/ d.docs = {}}
IncXML == [docs : SUBSET Doc, torn : BOOLEAN]
Parent == [mail : SUBSET Mail, todo : SUBSET Mail]
Run == [kind : {"none", "inc", "full"}, at : Places, todo : SUBSET Mail, mail : SUBSET Mail,
        parents : Seq(Parent), owed : SUBSET Mail, cut : SUBSET Mail]

MaintenanceTypeOK ==
    /\ spool \in [Mail -> {"none", "writing", "saved", "unlinked", "gone"}]
    /\ archive \subseteq Doc
    /\ inc \in IncXML
    /\ index \in Directory
    /\ new \in Directory
    /\ old \in Directory
    /\ blocked \in BOOLEAN
    /\ run \in Run
    /\ missed \subseteq Mail

\* What kind of run can be where, and what it has.  An incremental run may go on
\* after its child has created runblocked; a full run has no child that could.
RunsAreInPlace ==
    /\ run.at = "idle" <=> run.kind = "none"
    /\ run.at = "xml" => run.kind = "inc"
    /\ run.kind = "full" => ~blocked /\ run.parents = <<>>
    /\ run.parents # <<>> => run.at \in {"list", "xml", "archive", "unlink"}
    /\ run.kind = "inc" /\ run.at \notin {"moveold", "movenew"} => run.owed = {}

\* A mail is removed from the spool when its last copy came out short, or the
\* archive has all of it.
CopiedFirst ==
    run.at = "unlink" => \A m \in run.mail : m \in short \/ <<m, "whole">> \in archive

Recordable == Mails(inc.docs) \cup missed

\* Until doneidx has removed inc.xml, index and inc.xml account for the archive;
\* they do so for a mail of an incremental run before it is in the archive, and
\* for the mails its waiting parents have in hand.
Recorded ==
    /\ run.kind # "full" /\ run.at \notin {"moveold", "movenew"} =>
          Mails(archive) \subseteq Mails(index.docs) \cup Recordable
    /\ run.kind = "inc" /\ run.at = "archive" => run.mail \ Gone \subseteq Recordable
    /\ \A n \in DOMAIN run.parents : run.parents[n].mail \ Gone \subseteq Recordable

\* After that, and in all of a full run, the run itself does.
Owed ==
    /\ (run.kind = "full" /\ run.at # "movenew") \/ run.at = "moveold" =>
          Mails(archive) \subseteq Mails(index.docs) \cup run.owed \cup missed
    /\ run.at = "movenew" =>
          Mails(archive) \subseteq Mails(old.docs) \cup run.owed \cup missed

\* Once ntvindex is done index.new has what it is to have, but for what was cut.
Built ==
    /\ run.at \in {"index", "done", "moveold"} => old.docs = {}
    /\ run.kind = "inc" /\ run.at = "index" => new = index
    /\ run.kind = "inc" /\ run.at = "done" =>
          Mails(index.docs) \cup Mails(inc.docs) \subseteq Mails(new.docs) \cup run.cut
    /\ run.kind = "inc" /\ run.at = "moveold" =>
          Mails(index.docs) \cup run.owed \subseteq Mails(new.docs) \cup run.cut
    /\ run.kind = "inc" /\ run.at = "movenew" =>
          Mails(old.docs) \cup run.owed \subseteq Mails(new.docs) \cup run.cut
    /\ run.kind = "full" /\ run.at \in {"done", "moveold", "movenew"} =>
          Mails(archive) \subseteq Mails(new.docs) \cup run.cut

IInv ==
    /\ MaintenanceTypeOK
    /\ RunsAreInPlace
    /\ MailIsKeptWhole
    /\ CopiedFirst
    /\ Recorded
    /\ Owed
    /\ Built

-----------------------------------------------------------------------------
LEMMA EmptyOnes == NoIndex \in Directory /\ NoXML \in IncXML /\ NoRun \in Run
  <1>1. <<>> \in Seq(Parent)
    OBVIOUS
  <1> QED
    BY <1>1 DEF NoIndex, NoXML, NoRun, Directory, IncXML, Run, Places

LEMMA MailsOfUnion ==
    ASSUME NEW A, NEW B
    PROVE  Mails(A \cup B) = Mails(A) \cup Mails(B)
  BY DEF Mails

LEMMA MailsOfDocs ==
    ASSUME NEW A \in SUBSET Doc
    PROVE  Mails(A) \subseteq Mail
  BY DEF Mails, Doc

\* What a run reads of some mails are documents of exactly those mails.
LEMMA Copies ==
    ASSUME NEW S \in SUBSET Mail
    PROVE  /\ {Read(m) : m \in S} \subseteq Doc
           /\ Mails({Read(m) : m \in S}) = S
           /\ S \X {"part"} \subseteq Doc
           /\ Mails(S \X {"part"}) = S
  <1>1. \A m \in S : Read(m) \in Doc /\ Read(m)[1] = m
    BY DEF Read, Doc
  <1>2. Mails({Read(m) : m \in S}) = S
    BY <1>1 DEF Mails
  <1>3. \A m \in S : <<m, "part">> \in S \X {"part"} /\ <<m, "part">>[1] = m
    OBVIOUS
  <1>4. \A d \in S \X {"part"} : d[1] \in S
    OBVIOUS
  <1>5. Mails(S \X {"part"}) = S
    BY <1>3, <1>4 DEF Mails
  <1> QED
    BY <1>1, <1>2, <1>5 DEF Doc

-----------------------------------------------------------------------------
(* The shapes of a step. *)

\* A run is over.
LEMMA OverIInv ==
    ASSUME IInv, MaintenanceTypeOK', run' = NoRun, MailIsKeptWhole',
           Mails(archive') \subseteq Mails(index'.docs) \cup Recordable'
    PROVE  IInv'
  <1>1. run'.at = "idle" /\ run'.kind = "none" /\ run'.parents = <<>>
    BY DEF NoRun
  <1>2. RunsAreInPlace' /\ CopiedFirst' /\ Recorded' /\ Owed' /\ Built'
    BY <1>1 DEF RunsAreInPlace, CopiedFirst, Recorded, Owed, Built
  <1> QED
    BY <1>2 DEF IInv

\* The parent that goes on has a mail in hand that was accounted for when it
\* began to wait.
LEMMA ExitsWhere ==
    ASSUME IInv, NEW r \in Exits
    PROVE  \/ r = NoRun
           \/ /\ r \in Run /\ run.kind = "inc"
              /\ r.kind = "inc" /\ r.at = "archive" /\ r.owed = run.owed
              /\ \E n \in DOMAIN run.parents : r.mail = run.parents[n].mail
              /\ \A k \in DOMAIN r.parents : /\ k \in DOMAIN run.parents
                                             /\ r.parents[k] = run.parents[k]
  <1> SUFFICES ASSUME r # NoRun
               PROVE  /\ r \in Run /\ run.kind = "inc"
                      /\ r.kind = "inc" /\ r.at = "archive" /\ r.owed = run.owed
                      /\ \E n \in DOMAIN run.parents : r.mail = run.parents[n].mail
                      /\ \A k \in DOMAIN r.parents : /\ k \in DOMAIN run.parents
                                                     /\ r.parents[k] = run.parents[k]
    OBVIOUS
  <1>1. PICK n \in DOMAIN run.parents :
              r = [run EXCEPT !.at = "archive", !.mail = run.parents[n].mail,
                              !.todo = run.parents[n].todo,
                              !.parents = SubSeq(run.parents, 1, n - 1)]
    BY DEF Exits
  <1>2. run \in Run /\ run.parents \in Seq(Parent)
    BY DEF IInv, MaintenanceTypeOK, Run
  <1>3. run.parents[n] \in Parent /\ n \in 1..Len(run.parents)
    BY <1>2
  <1> DEFINE rest == SubSeq(run.parents, 1, n - 1)
  <1>4. rest \in Seq(Parent) /\ Len(rest) = n - 1
    BY <1>2, <1>3
  <1>5. \A k \in DOMAIN rest : k \in DOMAIN run.parents /\ rest[k] = run.parents[k]
    BY <1>2, <1>3, <1>4
  <1>6. run.parents # <<>>
    BY <1>2, <1>3
  <1>7. run.kind = "inc"
    BY <1>2, <1>6 DEF IInv, RunsAreInPlace, Run
  <1>8. /\ r.kind = run.kind /\ r.at = "archive" /\ r.owed = run.owed /\ r.parents = rest
        /\ r.mail = run.parents[n].mail /\ r.todo = run.parents[n].todo /\ r.cut = run.cut
        /\ r = [run EXCEPT !.at = "archive", !.mail = run.parents[n].mail,
                           !.todo = run.parents[n].todo, !.parents = rest]
    BY <1>1, <1>2 DEF Run
  <1> HIDE DEF rest
  <1>9. r \in Run
    BY <1>2, <1>3, <1>4, <1>8 DEF Run, Parent, Places
  <1> QED
    BY <1>5, <1>7, <1>8, <1>9

\* A process of readspool ends before anything was indexed.
LEMMA ExitIInv ==
    ASSUME IInv, run.at \in {"spool", "list", "xml", "archive"}, run' \in Exits,
           UNCHANGED <<spool, archive, index, new, old, short>>,
           inc' \in IncXML, inc'.docs = inc.docs, blocked' \in BOOLEAN,
           missed' = missed \cup run.owed
    PROVE  IInv'
  <1>1. /\ run \in Run /\ run.owed \subseteq Mail
        /\ run.kind \in {"inc", "full"}
        /\ Mails(archive) \subseteq Mails(index.docs) \cup Mails(inc.docs) \cup missed'
    BY DEF IInv, MaintenanceTypeOK, Run, RunsAreInPlace, Recorded, Owed, Recordable
  <1>2. CASE run' = NoRun
    <2>1. MaintenanceTypeOK'
      BY <1>1, <1>2, EmptyOnes DEF IInv, MaintenanceTypeOK
    <2>2. MailIsKeptWhole'
      BY DEF IInv, MailIsKeptWhole
    <2>3. Mails(archive') \subseteq Mails(index'.docs) \cup Recordable'
      BY <1>1 DEF Recordable
    <2> QED
      BY <1>2, <2>1, <2>2, <2>3, OverIInv
  <1>3. CASE run' # NoRun
    <2>1. /\ run' \in Run /\ run.kind = "inc"
          /\ run'.kind = "inc" /\ run'.at = "archive" /\ run'.owed = run.owed
          /\ \E n \in DOMAIN run.parents : run'.mail = run.parents[n].mail
          /\ \A k \in DOMAIN run'.parents : /\ k \in DOMAIN run.parents
                                            /\ run'.parents[k] = run.parents[k]
      BY <1>3, ExitsWhere
    <2>2. run.owed = {} /\ missed' = missed
      BY <2>1 DEF IInv, RunsAreInPlace
    <2>3. MaintenanceTypeOK'
      BY <2>1, <2>2 DEF IInv, MaintenanceTypeOK
    <2>4. RunsAreInPlace' /\ MailIsKeptWhole' /\ CopiedFirst' /\ Owed' /\ Built'
      BY <2>1, <2>2
      DEF IInv, RunsAreInPlace, MailIsKeptWhole, CopiedFirst, Owed, Built
    <2>5. Gone' = Gone /\ Recordable' = Recordable
      BY <2>2 DEF Gone, Recordable
    <2>6. Recorded'
      BY <1>1, <2>1, <2>2, <2>5 DEF IInv, Recorded, Recordable
    <2> QED
      BY <2>3, <2>4, <2>6 DEF IInv
  <1> QED
    BY <1>2, <1>3

\* readspool goes on from the XML of a mail to the archive, itself or in a child.
LEMMA ToArchiveIInv ==
    ASSUME IInv, run.at = "xml",
           UNCHANGED <<spool, archive, index, new, old, short>>,
           blocked' \in BOOLEAN, inc' \in IncXML, missed' \subseteq Mail,
           run' \in Run, run'.kind = run.kind, run'.at = "archive",
           run'.mail = run.mail, run'.owed = run.owed,
           \A k \in DOMAIN run'.parents :
              run'.parents[k].mail = run.mail
              \/ (k \in DOMAIN run.parents /\ run'.parents[k] = run.parents[k]),
           Recordable \subseteq Recordable', run.mail \ Gone \subseteq Recordable'
    PROVE  IInv'
  <1>1. run.kind = "inc" /\ run.owed = {} /\ Gone' = Gone
    BY DEF IInv, RunsAreInPlace, Gone
  <1>2. MaintenanceTypeOK'
    BY DEF IInv, MaintenanceTypeOK
  <1>3. RunsAreInPlace' /\ MailIsKeptWhole' /\ CopiedFirst' /\ Owed' /\ Built'
    BY <1>1 DEF IInv, RunsAreInPlace, MailIsKeptWhole, CopiedFirst, Owed, Built
  <1>4. Recorded'
    <2>1. Mails(archive) \subseteq Mails(index.docs) \cup Recordable
      BY <1>1 DEF IInv, Recorded
    <2>2. \A k \in DOMAIN run'.parents : run'.parents[k].mail \ Gone \subseteq Recordable'
      BY DEF IInv, Recorded
    <2> QED
      BY <1>1, <2>1, <2>2 DEF Recorded
  <1> QED
    BY <1>2, <1>3, <1>4 DEF IInv

-----------------------------------------------------------------------------
LEMMA InitIInv == Init => IInv
  <1> SUFFICES ASSUME Init PROVE IInv
    OBVIOUS
  <1>1. MaintenanceTypeOK
    BY EmptyOnes DEF Init, MaintenanceTypeOK
  <1>2. run.at = "idle" /\ run.kind = "none" /\ run.parents = <<>> /\ archive = {}
    BY DEF Init, NoRun
  <1> QED
    BY <1>1, <1>2
    DEF Init, IInv, RunsAreInPlace, MailIsKeptWhole, CopiedFirst, Recorded, Owed, Built, Mails

\* saveit changes nothing but the state of a mail in the spool.
LEMMA DeliverIInv ==
    ASSUME IInv, NEW m \in Mail, Deliver(m) \/ Delivered(m)
    PROVE  IInv'
  <1>1. UNCHANGED <<archive, inc, index, new, old, blocked, run, short, missed>>
    BY DEF Deliver, Delivered
  <1>2. /\ spool' \in [Mail -> {"none", "writing", "saved", "unlinked", "gone"}]
        /\ Gone' = Gone
    BY DEF IInv, MaintenanceTypeOK, Deliver, Delivered, Gone
  <1>3. MailIsKeptWhole'
    BY <1>1, <1>2 DEF IInv, MailIsKeptWhole, Gone
  <1> QED
    BY <1>1, <1>2, <1>3
    DEF IInv, MaintenanceTypeOK, RunsAreInPlace, CopiedFirst, Recorded, Recordable, Owed, Built

LEMMA StartIInv ==
    ASSUME IInv, NEW kind \in {"inc", "full"}, Start(kind)
    PROVE  IInv'
  <1> DEFINE owed == IF kind = "full" THEN Mails(inc.docs) ELSE {}
  <1>1. /\ run' = [NoRun EXCEPT !.kind = kind, !.at = "spool", !.owed = owed]
        /\ ~blocked /\ run.at = "idle" /\ run.kind = "none"
        /\ inc' = IF kind = "full" THEN NoXML ELSE inc
        /\ UNCHANGED <<spool, archive, index, new, old, blocked, short, missed>>
    BY DEF Start, At, IInv, RunsAreInPlace
  <1>2. owed \in SUBSET Mail
    BY MailsOfDocs DEF IInv, MaintenanceTypeOK, IncXML
  <1>3. Mails(archive) \subseteq Mails(index.docs) \cup Mails(inc.docs) \cup missed
    BY <1>1 DEF IInv, Recorded, Recordable
  <1>4. kind = "inc" => owed = {} /\ inc' = inc
    BY <1>1
  <1>5. kind = "full" => owed = Mails(inc.docs)
    OBVIOUS
  <1> HIDE DEF owed
  <1>6. /\ run'.kind = kind /\ run'.at = "spool" /\ run'.parents = <<>> /\ run'.owed = owed
        /\ run' \in Run
    BY <1>1, <1>2, EmptyOnes DEF NoRun, Run, Places
  <1>7. MaintenanceTypeOK'
    BY <1>1, <1>6, EmptyOnes DEF IInv, MaintenanceTypeOK
  <1>8. RunsAreInPlace' /\ MailIsKeptWhole' /\ CopiedFirst' /\ Built'
    BY <1>1, <1>4, <1>6
    DEF IInv, RunsAreInPlace, MailIsKeptWhole, CopiedFirst, Built
  <1>9. Recorded' /\ Owed'
    BY <1>1, <1>3, <1>4, <1>5, <1>6 DEF Recorded, Recordable, Owed
  <1> QED
    BY <1>7, <1>8, <1>9 DEF IInv

\* The places a run goes through before prepare, and changes nothing on its way.
LEMMA PassesIInv ==
    ASSUME IInv, UNCHANGED <<spool, archive, inc, index, new, old, blocked, short, missed>>,
           run' \in Run, run'.kind = run.kind, run'.parents = run.parents,
           run'.owed = run.owed, run.at \in {"spool", "list", "xml"},
           run'.at \in {"list", "prepare"} \/ (run'.at = "xml" /\ run.kind = "inc")
              \/ (run'.at = "archive" /\ run.kind = "full"),
           run'.at = "prepare" => run.parents = <<>>
    PROVE  IInv'
  <1>1. Gone' = Gone /\ Recordable' = Recordable
    BY DEF Gone, Recordable
  <1>2. run.kind \in {"inc", "full"}
    BY DEF IInv, MaintenanceTypeOK, Run, RunsAreInPlace
  <1>3. MaintenanceTypeOK'
    BY DEF IInv, MaintenanceTypeOK
  <1>4. RunsAreInPlace' /\ MailIsKeptWhole' /\ CopiedFirst' /\ Built'
    BY <1>2 DEF IInv, RunsAreInPlace, MailIsKeptWhole, CopiedFirst, Built
  <1>5. Recorded' /\ Owed'
    BY <1>1, <1>2 DEF IInv, Recorded, Owed
  <1> QED
    BY <1>3, <1>4, <1>5 DEF IInv

LEMMA ReadSpoolIInv ==
    ASSUME IInv, ReadSpool
    PROVE  IInv'
  <1>1. /\ run.at = "spool" /\ run \in Run
        /\ UNCHANGED <<spool, archive, inc, index, new, old, blocked, short, missed>>
        /\ run' = [run EXCEPT !.at = "list",
                              !.todo = {m \in Mail : spool[m] \in {"writing", "saved"}}]
    BY DEF ReadSpool, At, IInv, MaintenanceTypeOK
  <1>2. /\ run' \in Run /\ run'.kind = run.kind /\ run'.at = "list"
        /\ run'.parents = run.parents /\ run'.owed = run.owed
    BY <1>1 DEF Run, Places
  <1> QED
    BY <1>1, <1>2, PassesIInv

LEMMA NextMailIInv ==
    ASSUME IInv, NextMail
    PROVE  IInv'
  <1>1. /\ run.at = "list" /\ run \in Run
        /\ UNCHANGED <<spool, archive, inc, index, new, old, blocked, short, missed>>
    BY DEF NextMail, At, IInv, MaintenanceTypeOK
  <1>2. PICK m \in run.todo :
              run' = [run EXCEPT !.todo = @ \ {m}, !.mail = {m},
                                 !.at = IF run.kind = "inc" THEN "xml" ELSE "archive"]
    BY DEF NextMail
  <1>3. m \in Mail /\ run.todo \ {m} \in SUBSET Mail /\ run.kind \in {"inc", "full"}
    BY <1>1 DEF IInv, RunsAreInPlace, Run
  <1>4. /\ run' \in Run /\ run'.kind = run.kind
        /\ run'.at = IF run.kind = "inc" THEN "xml" ELSE "archive"
        /\ run'.parents = run.parents /\ run'.owed = run.owed
    BY <1>1, <1>2, <1>3 DEF Run, Places
  <1>5. (run'.at = "xml" /\ run.kind = "inc") \/ (run'.at = "archive" /\ run.kind = "full")
    BY <1>3, <1>4
  <1> QED
    BY <1>1, <1>4, <1>5, PassesIInv

LEMMA ExitsWellIInv ==
    ASSUME IInv, run.at \in {"list", "xml"}, run' \in ExitsWell,
           UNCHANGED <<spool, archive, inc, index, new, old, blocked, short, missed>>
    PROVE  IInv'
  <1>1. run \in Run /\ inc \in IncXML /\ blocked \in BOOLEAN
    BY DEF IInv, MaintenanceTypeOK
  <1>2. CASE run.parents = <<>>
    <2>1. run' = [run EXCEPT !.at = "prepare", !.todo = {}, !.mail = {}]
      BY <1>2 DEF ExitsWell
    <2>2. /\ run' \in Run /\ run'.kind = run.kind /\ run'.at = "prepare"
          /\ run'.parents = run.parents /\ run'.owed = run.owed
      BY <1>1, <2>1 DEF Run, Places
    <2> QED
      BY <1>2, <2>2, PassesIInv
  <1>3. CASE run.parents # <<>>
    <2>1. run' \in Exits /\ run.kind = "inc"
      BY <1>1, <1>3 DEF ExitsWell, IInv, RunsAreInPlace, Run
    <2>2. missed' = missed \cup run.owed
      BY <2>1 DEF IInv, RunsAreInPlace
    <2> QED
      BY <1>1, <2>1, <2>2, ExitIInv
  <1> QED
    BY <1>2, <1>3

-----------------------------------------------------------------------------
(* The XML of a mail. *)

LEMMA AppendXMLIInv ==
    ASSUME IInv, AppendXML
    PROVE  IInv'
  <1> DEFINE mine == run.mail \ Gone
             read == {Read(m) : m \in mine}
  <1>1. /\ run.at = "xml" /\ run' = [run EXCEPT !.at = "archive"]
        /\ run \in Run /\ inc \in IncXML /\ missed \subseteq Mail
        /\ UNCHANGED <<spool, archive, index, new, old, blocked, short>>
        /\ blocked \in BOOLEAN
    BY DEF AppendXML, At, GoTo, IInv, MaintenanceTypeOK
  <1>2. mine \in SUBSET Mail
    BY <1>1 DEF Run
  <1>3. read \subseteq Doc /\ Mails(read) = mine
    BY <1>2, Copies
  <1>4. /\ run' \in Run /\ run'.kind = run.kind /\ run'.at = "archive"
        /\ run'.mail = run.mail /\ run'.owed = run.owed /\ run'.parents = run.parents
    BY <1>1 DEF Run, Places
  <1>5. /\ inc' \in IncXML /\ missed' \subseteq Mail
        /\ Recordable' = Recordable \cup mine
    <2>1. CASE inc.torn
      <3>1. inc' = inc /\ missed' = missed \cup mine
        BY <2>1 DEF AppendXML
      <3> QED
        BY <1>1, <1>2, <3>1 DEF Recordable
    <2>2. CASE ~inc.torn
      <3>1. inc' = [inc EXCEPT !.docs = @ \cup read] /\ missed' = missed \ mine
        BY <2>2 DEF AppendXML
      <3>2. inc' \in IncXML /\ inc'.docs = inc.docs \cup read
        BY <1>1, <1>3, <3>1 DEF IncXML
      <3>3. Mails(inc'.docs) = Mails(inc.docs) \cup mine
        <4>1. Mails(inc.docs \cup read) = Mails(inc.docs) \cup Mails(read)
          BY MailsOfUnion
        <4>2. Mails(inc'.docs) = Mails(inc.docs \cup read)
          BY <3>2
        <4> QED
          BY <1>3, <4>1, <4>2
      <3> QED
        BY <1>1, <3>1, <3>2, <3>3 DEF Recordable
    <2> QED
      BY <2>1, <2>2
  <1> QED
    BY <1>1, <1>4, <1>5, ToArchiveIInv

\* A child failed: the run goes on to the archive with the mail missed, or this
\* process of it ends.
LEMMA NoNoticeIInv ==
    ASSUME IInv, run.at = "xml", NoNotice,
           UNCHANGED <<spool, archive, index, new, old, short>>,
           inc' \in IncXML, inc'.docs = inc.docs, blocked' \in BOOLEAN
    PROVE  IInv'
  <1>1. run \in Run /\ missed \subseteq Mail /\ run.mail \subseteq Mail
    BY DEF IInv, MaintenanceTypeOK, Run
  <1>2. CASE GoTo("archive") /\ missed' = missed \cup run.mail
    <2>1. /\ run' \in Run /\ run'.kind = run.kind /\ run'.at = "archive"
          /\ run'.mail = run.mail /\ run'.owed = run.owed /\ run'.parents = run.parents
      BY <1>1, <1>2 DEF GoTo, Run, Places
    <2>2. Recordable' = Recordable \cup run.mail /\ missed' \subseteq Mail
      BY <1>1, <1>2 DEF Recordable
    <2> QED
      BY <2>1, <2>2, ToArchiveIInv
  <1>3. CASE run' \in Exits /\ UNCHANGED missed
    <2>1. missed' = missed \cup run.owed
      BY <1>3 DEF IInv, RunsAreInPlace
    <2> QED
      BY <1>3, <2>1, ExitIInv
  <1> QED
    BY <1>2, <1>3 DEF NoNotice

LEMMA FilterFailsIInv ==
    ASSUME IInv, FilterFails
    PROVE  IInv'
  <1>1. /\ run.at = "xml" /\ NoNotice /\ blocked' = blocked
        /\ UNCHANGED <<spool, archive, index, new, old, short>>
    BY DEF FilterFails, At
  <1>2. inc' \in IncXML /\ inc'.docs = inc.docs /\ blocked \in BOOLEAN
    BY DEF FilterFails, IInv, MaintenanceTypeOK, IncXML
  <1> QED
    BY <1>1, <1>2, NoNoticeIInv

LEMMA OpenXMLFailsIInv ==
    ASSUME IInv, OpenXMLFails
    PROVE  IInv'
  <1>1. /\ run.at = "xml" /\ NoNotice /\ blocked' = TRUE
        /\ UNCHANGED <<spool, archive, inc, index, new, old, short>>
    BY DEF OpenXMLFails, At
  <1>2. inc' \in IncXML /\ inc'.docs = inc.docs
    BY <1>1 DEF IInv, MaintenanceTypeOK
  <1> QED
    BY <1>1, <1>2, NoNoticeIInv

\* The child has the mail of its parent in hand, which has been missed.
LEMMA ExecFailsIInv ==
    ASSUME IInv, ExecFails
    PROVE  IInv'
  <1> DEFINE me == [mail |-> run.mail, todo |-> run.todo]
             parents == Append(run.parents, me)
  <1>1. /\ run.at = "xml" /\ missed' = missed \cup run.mail
        /\ run' = [run EXCEPT !.at = "archive", !.parents = parents]
        /\ UNCHANGED <<spool, archive, inc, index, new, old, blocked, short>>
    BY DEF ExecFails, At
  <1>2. /\ run \in Run /\ run.parents \in Seq(Parent) /\ me \in Parent
        /\ inc \in IncXML /\ blocked \in BOOLEAN /\ missed' \subseteq Mail
    BY <1>1 DEF IInv, MaintenanceTypeOK, Run, Parent
  <1>3. /\ parents \in Seq(Parent)
        /\ \A k \in DOMAIN parents :
              parents[k] = me \/ (k \in DOMAIN run.parents /\ parents[k] = run.parents[k])
    BY <1>2
  <1>4. me.mail = run.mail
    OBVIOUS
  <1> HIDE DEF me, parents
  <1>5. /\ run' \in Run /\ run'.kind = run.kind /\ run'.at = "archive"
        /\ run'.mail = run.mail /\ run'.owed = run.owed /\ run'.parents = parents
    BY <1>1, <1>2, <1>3 DEF Run, Places
  <1>6. Recordable' = Recordable \cup run.mail
    BY <1>1 DEF Recordable
  <1>7. \A k \in DOMAIN run'.parents :
           run'.parents[k].mail = run.mail
           \/ (k \in DOMAIN run.parents /\ run'.parents[k] = run.parents[k])
    BY <1>3, <1>4, <1>5
  <1> QED
    BY <1>1, <1>2, <1>5, <1>6, <1>7, ToArchiveIInv

-----------------------------------------------------------------------------
(* The archive and the spool. *)

\* A copy comes out whole, or its mail is among the short ones.
LEMMA AppendArchiveIInv ==
    ASSUME IInv, AppendArchive
    PROVE  IInv'
  <1> DEFINE owed == IF run.kind = "full" THEN run.owed \cup run.mail ELSE run.owed
  <1>1. /\ run.at = "archive" /\ run.mail \cap Gone = {}
        /\ run' = [run EXCEPT !.at = "unlink", !.owed = owed]
        /\ UNCHANGED <<spool, inc, index, new, old, blocked, missed>>
        /\ run \in Run
    BY DEF AppendArchive, At, IInv, MaintenanceTypeOK
  <1>2. run.mail \in SUBSET Mail /\ owed \in SUBSET Mail /\ run.kind \in {"inc", "full"}
    BY <1>1 DEF IInv, RunsAreInPlace, Run
  <1>3. /\ archive \subseteq archive' /\ archive' \subseteq Doc
        /\ Mails(archive') \subseteq Mails(archive) \cup run.mail
        /\ \A m \in run.mail : m \in short' \/ <<m, "whole">> \in archive'
        /\ \A m \in Mail \ run.mail : m \in short <=> m \in short'
    <2>1. CASE /\ archive' = archive \cup {Read(m) : m \in run.mail}
               /\ short' = (short \ run.mail) \cup {m \in run.mail : spool[m] = "writing"}
      <3>1. \A m \in run.mail : m \in short' \/ <<m, "whole">> \in archive'
        BY <2>1 DEF Read
      <3>2. {Read(m) : m \in run.mail} \subseteq Doc /\ Mails({Read(m) : m \in run.mail}) = run.mail
        BY <1>2, Copies
      <3>3. archive' \subseteq Doc /\ Mails(archive') = Mails(archive) \cup run.mail
        BY <2>1, <3>2, MailsOfUnion DEF IInv, MaintenanceTypeOK
      <3>4. \A m \in Mail \ run.mail : m \in short <=> m \in short'
        BY <2>1
      <3> QED
        BY <2>1, <3>1, <3>3, <3>4
    <2>2. CASE /\ archive' \in {archive, archive \cup (run.mail \X {"part"})}
               /\ short' = short \cup run.mail
      <3>1. run.mail \X {"part"} \subseteq Doc /\ Mails(run.mail \X {"part"}) = run.mail
        BY <1>2, Copies
      <3>2. archive' \subseteq Doc /\ Mails(archive') \subseteq Mails(archive) \cup run.mail
        BY <2>2, <3>1, MailsOfUnion DEF IInv, MaintenanceTypeOK
      <3>3. \A m \in Mail \ run.mail : m \in short <=> m \in short'
        BY <2>2
      <3> QED
        BY <2>2, <3>2, <3>3
    <2> QED
      BY <2>1, <2>2 DEF AppendArchive
  <1>4. run.kind = "full" => owed = run.owed \cup run.mail
    OBVIOUS
  <1>5. run.kind = "inc" => owed = run.owed
    OBVIOUS
  <1> HIDE DEF owed
  <1>6. /\ run' \in Run /\ run'.kind = run.kind /\ run'.at = "unlink"
        /\ run'.mail = run.mail /\ run'.owed = owed /\ run'.parents = run.parents
    BY <1>1, <1>2 DEF Run, Places
  <1>7. MaintenanceTypeOK' /\ RunsAreInPlace' /\ CopiedFirst' /\ Built'
    BY <1>1, <1>3, <1>5, <1>6
    DEF IInv, MaintenanceTypeOK, RunsAreInPlace, CopiedFirst, Built
  <1>8. MailIsKeptWhole'
    BY <1>1, <1>2, <1>3 DEF IInv, MailIsKeptWhole, Gone
  <1>9. Gone' = Gone /\ Recordable' = Recordable
    BY <1>1 DEF Gone, Recordable
  <1>10. run.kind = "inc" => run.mail \subseteq Recordable
    BY <1>1 DEF IInv, Recorded
  <1>11. Recorded'
    BY <1>1, <1>2, <1>3, <1>6, <1>9, <1>10 DEF IInv, Recorded
  <1>12. Owed'
    BY <1>1, <1>2, <1>3, <1>4, <1>6 DEF IInv, Owed
  <1> QED
    BY <1>7, <1>8, <1>11, <1>12 DEF IInv

LEMMA NtvErrorIInv ==
    ASSUME IInv, run.at \in {"spool", "archive"}, NtvError,
           UNCHANGED <<spool, archive, inc, index, new, old, short>>
    PROVE  IInv'
  <1>1. inc' \in IncXML /\ inc'.docs = inc.docs /\ blocked' \in BOOLEAN
    BY DEF NtvError, IInv, MaintenanceTypeOK
  <1> QED
    BY <1>1, ExitIInv DEF NtvError

LEMMA UnlinkIInv ==
    ASSUME IInv, Unlink
    PROVE  IInv'
  <1>1. /\ run.at = "unlink" /\ run' = [run EXCEPT !.at = "list", !.mail = {}]
        /\ UNCHANGED <<archive, inc, index, new, old, blocked, short, missed>>
        /\ run \in Run
    BY DEF Unlink, At, IInv, MaintenanceTypeOK
  <1>2. /\ spool' \in [Mail -> {"none", "writing", "saved", "unlinked", "gone"}]
        /\ Gone \subseteq Gone'
        /\ \A m \in Mail : m \in Gone' => m \in Gone \/ m \in run.mail
    <2>1. CASE spool' = spool
      BY <2>1 DEF IInv, MaintenanceTypeOK, Gone
    <2>2. CASE spool' = [m \in Mail |-> Unlinked(m)]
      <3>1. \A m \in Mail : /\ Unlinked(m) \in {spool[m], "unlinked", "gone"}
                            /\ m \notin run.mail => Unlinked(m) = spool[m]
                            /\ m \in run.mail => Unlinked(m) \in {"unlinked", "gone"}
        BY DEF Unlinked
      <3> QED
        BY <2>2, <3>1 DEF IInv, MaintenanceTypeOK, Gone
    <2> QED
      BY <2>1, <2>2 DEF Unlink
  <1>3. MailIsKeptWhole'
    BY <1>1, <1>2 DEF IInv, MailIsKeptWhole, CopiedFirst, Gone
  <1>4. /\ run' \in Run /\ run'.kind = run.kind /\ run'.at = "list"
        /\ run'.parents = run.parents /\ run'.owed = run.owed
    BY <1>1 DEF Run, Places
  <1>5. MaintenanceTypeOK'
    BY <1>1, <1>2, <1>4 DEF IInv, MaintenanceTypeOK
  <1>6. RunsAreInPlace' /\ CopiedFirst' /\ Owed' /\ Built'
    BY <1>1, <1>4 DEF IInv, RunsAreInPlace, CopiedFirst, Owed, Built
  <1>7. Recordable' = Recordable
    BY <1>1 DEF Recordable
  <1>8. Recorded'
    BY <1>1, <1>2, <1>4, <1>7 DEF IInv, Recorded
  <1> QED
    BY <1>3, <1>5, <1>6, <1>8 DEF IInv

-----------------------------------------------------------------------------
(* The rest of the run. *)

LEMMA RefuseIInv ==
    ASSUME IInv, Refuse
    PROVE  IInv'
  <1>1. /\ run.at = "prepare" /\ blocked /\ run' = NoRun
        /\ UNCHANGED <<spool, archive, inc, index, new, old, blocked, short, missed>>
    BY DEF Refuse, At
  <1>2. MaintenanceTypeOK' /\ MailIsKeptWhole'
    BY <1>1, EmptyOnes DEF IInv, MaintenanceTypeOK, MailIsKeptWhole
  <1>3. Mails(archive') \subseteq Mails(index'.docs) \cup Recordable'
    BY <1>1 DEF IInv, RunsAreInPlace, Recorded, Recordable
  <1> QED
    BY <1>1, <1>2, <1>3, OverIInv

LEMMA PrepareIInv ==
    ASSUME IInv, Prepare
    PROVE  IInv'
  <1>1. /\ run.at = "prepare" /\ run' = [run EXCEPT !.at = "index"]
        /\ new' = IF run.kind = "inc" THEN index ELSE NoIndex
        /\ old' = NoIndex
        /\ UNCHANGED <<spool, archive, inc, index, blocked, short, missed>>
        /\ run \in Run
    BY DEF Prepare, At, GoTo, IInv, MaintenanceTypeOK
  <1>2. /\ run' \in Run /\ run'.kind = run.kind /\ run'.at = "index"
        /\ run'.parents = run.parents /\ run'.owed = run.owed
    BY <1>1 DEF Run, Places
  <1>3. MaintenanceTypeOK'
    BY <1>1, <1>2, EmptyOnes DEF IInv, MaintenanceTypeOK
  <1>4. RunsAreInPlace' /\ MailIsKeptWhole' /\ CopiedFirst'
    BY <1>1, <1>2 DEF IInv, RunsAreInPlace, MailIsKeptWhole, CopiedFirst
  <1>5. Gone' = Gone /\ Recordable' = Recordable
    BY <1>1 DEF Gone, Recordable
  <1>6. Recorded' /\ Owed'
    BY <1>1, <1>2, <1>5 DEF IInv, Recorded, Owed
  <1>7. Built'
    BY <1>1, <1>2 DEF NoIndex, Built
  <1> QED
    BY <1>3, <1>4, <1>6, <1>7 DEF IInv

\* An incremental index has what the old one had and what inc.xml has, and a
\* full one has the archive, but for what was cut.
LEMMA BuildIndexIInv ==
    ASSUME IInv, BuildIndex
    PROVE  IInv'
  <1>1. PICK docs \in SUBSET XML :
              /\ new' = IndexOf(new.docs \cup docs)
              /\ run' = [run EXCEPT !.at = "done", !.cut = Mails(XML \ docs)]
    BY DEF BuildIndex
  <1>2. /\ run.at = "index" /\ run.kind \in {"inc", "full"} /\ run \in Run
        /\ inc' = IF run.kind = "full" THEN NoXML ELSE inc
        /\ UNCHANGED <<spool, archive, index, old, blocked, short, missed>>
    BY DEF BuildIndex, At, IInv, MaintenanceTypeOK, Run, RunsAreInPlace
  <1>3. XML \subseteq Doc
    BY DEF XML, IInv, MaintenanceTypeOK, IncXML
  <1>4. Mails(XML \ docs) \in SUBSET Mail
    BY <1>3, MailsOfDocs
  <1>5. /\ run' \in Run /\ run'.kind = run.kind /\ run'.at = "done"
        /\ run'.parents = run.parents /\ run'.owed = run.owed
        /\ run'.cut = Mails(XML \ docs)
    BY <1>1, <1>2, <1>4 DEF Run, Places
  <1>6. new'.docs = new.docs \cup docs /\ new' \in Directory
    BY <1>1, <1>3 DEF IndexOf, IInv, MaintenanceTypeOK, Directory
  <1>7. Mails(new.docs) \cup Mails(XML) \subseteq Mails(new'.docs) \cup run'.cut
    <2>1. XML = docs \cup (XML \ docs)
      OBVIOUS
    <2>2. Mails(XML) = Mails(docs) \cup Mails(XML \ docs)
      BY <2>1, MailsOfUnion
    <2>3. Mails(new'.docs) = Mails(new.docs) \cup Mails(docs)
      BY <1>6, MailsOfUnion
    <2> QED
      BY <1>5, <2>2, <2>3
  <1>8. MaintenanceTypeOK'
    BY <1>2, <1>5, <1>6, EmptyOnes DEF IInv, MaintenanceTypeOK
  <1>9. RunsAreInPlace' /\ MailIsKeptWhole' /\ CopiedFirst' /\ Owed'
    BY <1>2, <1>5 DEF IInv, RunsAreInPlace, MailIsKeptWhole, CopiedFirst, Owed
  <1>10. Recorded'
    <2>1. run.parents = <<>>
      BY <1>2 DEF IInv, RunsAreInPlace
    <2>2. run.kind = "inc" => Recordable' = Recordable
      BY <1>2 DEF Recordable
    <2> QED
      BY <1>2, <1>5, <2>1, <2>2 DEF IInv, Recorded
  <1>11. Built'
    BY <1>2, <1>5, <1>7 DEF IInv, Built, XML
  <1> QED
    BY <1>8, <1>9, <1>10, <1>11 DEF IInv

\* What inc.xml had the run now owes.
LEMMA DoneIdxIInv ==
    ASSUME IInv, DoneIdx
    PROVE  IInv'
  <1> DEFINE owed == run.owed \cup Mails(inc.docs)
  <1>1. /\ run.at = "done" /\ run' = [run EXCEPT !.at = "moveold", !.owed = owed]
        /\ inc' = NoXML /\ run \in Run /\ run.kind \in {"inc", "full"}
        /\ UNCHANGED <<spool, archive, index, new, old, blocked, short, missed>>
    BY DEF DoneIdx, At, IInv, MaintenanceTypeOK, Run, RunsAreInPlace
  <1>2. owed \in SUBSET Mail
    BY <1>1, MailsOfDocs DEF IInv, MaintenanceTypeOK, IncXML, Run
  <1>3. /\ run' \in Run /\ run'.kind = run.kind /\ run'.at = "moveold"
        /\ run'.parents = run.parents /\ run'.owed = owed /\ run'.cut = run.cut
    BY <1>1, <1>2 DEF Run, Places
  <1>4. run.kind = "inc" => run.owed = {} /\ owed = Mails(inc.docs)
    BY <1>1 DEF IInv, RunsAreInPlace
  <1>5. MaintenanceTypeOK'
    BY <1>1, <1>3, EmptyOnes DEF IInv, MaintenanceTypeOK
  <1>6. run.parents = <<>>
    BY <1>1 DEF IInv, RunsAreInPlace
  <1>7. RunsAreInPlace' /\ MailIsKeptWhole' /\ CopiedFirst' /\ Recorded'
    BY <1>1, <1>3, <1>6 DEF IInv, RunsAreInPlace, MailIsKeptWhole, CopiedFirst, Recorded
  <1>8. Owed'
    BY <1>1, <1>3 DEF IInv, Recorded, Recordable, Owed
  <1>9. Built'
    BY <1>1, <1>3, <1>4 DEF IInv, Built
  <1> QED
    BY <1>5, <1>7, <1>8, <1>9 DEF IInv

LEMMA MoveOldIInv ==
    ASSUME IInv, MoveOld
    PROVE  IInv'
  <1>1. /\ run.at = "moveold" /\ run' = [run EXCEPT !.at = "movenew"]
        /\ run \in Run /\ run.kind \in {"inc", "full"}
        /\ UNCHANGED <<spool, archive, inc, new, blocked, short, missed>>
        /\ index' \in {index, NoIndex} /\ old' \in {old, index}
    BY DEF MoveOld, At, GoTo, IInv, MaintenanceTypeOK, Run, RunsAreInPlace
  <1>2. /\ run' \in Run /\ run'.kind = run.kind /\ run'.at = "movenew"
        /\ run'.parents = run.parents /\ run'.owed = run.owed /\ run'.cut = run.cut
    BY <1>1 DEF Run, Places
  <1>3. old'.docs = index.docs
    <2>1. old.docs = {} /\ index \in Directory
      BY <1>1 DEF IInv, Built, MaintenanceTypeOK
    <2> QED
      BY <2>1 DEF MoveOld, Directory
  <1>4. MaintenanceTypeOK'
    BY <1>1, <1>2, EmptyOnes DEF IInv, MaintenanceTypeOK
  <1>5. run.parents = <<>>
    BY <1>1 DEF IInv, RunsAreInPlace
  <1>6. RunsAreInPlace' /\ MailIsKeptWhole' /\ CopiedFirst' /\ Recorded'
    BY <1>1, <1>2, <1>5 DEF IInv, RunsAreInPlace, MailIsKeptWhole, CopiedFirst, Recorded
  <1>7. Owed' /\ Built'
    BY <1>1, <1>2, <1>3 DEF IInv, Owed, Built
  <1> QED
    BY <1>4, <1>6, <1>7 DEF IInv

\* index.new takes its place: a full run makes good what earlier faults took.
LEMMA MoveNewIInv ==
    ASSUME IInv, MoveNew
    PROVE  IInv'
  <1>1. /\ run.at = "movenew" /\ run' = NoRun /\ index' = new /\ new' = NoIndex
        /\ missed' = run.cut \cup (IF run.kind = "full" THEN {} ELSE missed)
        /\ run \in Run /\ run.kind \in {"inc", "full"}
        /\ UNCHANGED <<spool, archive, inc, old, blocked, short>>
    BY DEF MoveNew, At, IInv, MaintenanceTypeOK, Run, RunsAreInPlace
  <1>2. MaintenanceTypeOK' /\ MailIsKeptWhole'
    BY <1>1, EmptyOnes DEF IInv, MaintenanceTypeOK, Run, MailIsKeptWhole
  <1>3. Mails(archive) \subseteq Mails(new.docs) \cup missed'
    BY <1>1 DEF IInv, Owed, Built
  <1> QED
    BY <1>1, <1>2, <1>3, OverIInv DEF Recordable

-----------------------------------------------------------------------------
(* Faults. *)

LEMMA FailIInv ==
    ASSUME IInv, Fail
    PROVE  IInv'
  <1>1. /\ run.at \in {"prepare", "index", "moveold", "movenew"}
        /\ run' = NoRun /\ blocked' = TRUE
        /\ run \in Run /\ run.owed \subseteq Mail /\ run.kind \in {"inc", "full"}
        /\ UNCHANGED <<spool, archive, short>>
    BY DEF Fail, IInv, MaintenanceTypeOK, Run, RunsAreInPlace
  <1>2. /\ index' \in Directory
        /\ old' \in Directory
        /\ new' \in Directory
        /\ inc' \in IncXML
    BY EmptyOnes DEF Fail, IInv, MaintenanceTypeOK
  <1>3. missed' \subseteq Mail
    BY <1>1, MailsOfDocs DEF Fail, IInv, MaintenanceTypeOK, Directory
  <1>4. MaintenanceTypeOK' /\ MailIsKeptWhole'
    BY <1>1, <1>2, <1>3, EmptyOnes DEF IInv, MaintenanceTypeOK, MailIsKeptWhole
  <1>5. Mails(archive') \subseteq Mails(index'.docs) \cup Recordable'
    <2>1. CASE run.at = "movenew"
      <3>1. Mails(archive) \subseteq Mails(old.docs) \cup run.owed \cup missed
        BY <2>1 DEF IInv, Owed
      <3>2. \/ index' = old /\ missed' = missed \cup run.owed
            \/ missed' = missed \cup run.owed \cup Mails(old.docs)
        BY <2>1 DEF Fail, At
      <3> QED
        BY <1>1, <3>1, <3>2 DEF Recordable
    <2>2. CASE run.at # "movenew"
      <3>1. index' = index /\ missed' = missed \cup run.owed
        BY <2>2 DEF Fail, At
      <3>2. CASE run.kind = "full" \/ run.at = "moveold"
        <4>1. Mails(archive) \subseteq Mails(index.docs) \cup run.owed \cup missed
          BY <2>2, <3>2 DEF IInv, Owed
        <4> QED
          BY <1>1, <3>1, <4>1 DEF Recordable
      <3>3. CASE run.kind = "inc" /\ run.at # "moveold"
        <4>1. Mails(archive) \subseteq Mails(index.docs) \cup Mails(inc.docs) \cup missed
          BY <2>2, <3>3 DEF IInv, Recorded, Recordable
        <4>2. inc' = inc
          BY <3>3 DEF Fail
        <4> QED
          BY <1>1, <3>1, <4>1, <4>2 DEF Recordable
      <3> QED
        BY <1>1, <3>2, <3>3
    <2> QED
      BY <2>1, <2>2
  <1> QED
    BY <1>1, <1>4, <1>5, OverIInv

\* Wherever the machine stops: a mail that is half in the archive is in inc.xml
\* already, or the full run that was to index it is the one that stopped.
LEMMA KillIInv ==
    ASSUME IInv, Kill
    PROVE  IInv'
  <1>1. /\ run.at # "idle" /\ run' = NoRun
        /\ UNCHANGED <<spool, index, new, old, blocked, short>>
        /\ run \in Run /\ run.kind \in {"inc", "full"}
        /\ run.owed \subseteq Mail /\ run.mail \in SUBSET Mail
    BY DEF Kill, At, IInv, MaintenanceTypeOK, Run, RunsAreInPlace
  <1>2. Mails(old.docs) \subseteq Mail
    BY MailsOfDocs DEF IInv, MaintenanceTypeOK, Directory
  <1>3. CASE /\ UNCHANGED <<inc, archive>>
             /\ missed' = missed \cup run.owed
                                 \cup (IF At("movenew") THEN Mails(old.docs) ELSE {})
    <2>1. MaintenanceTypeOK' /\ MailIsKeptWhole'
      BY <1>1, <1>2, <1>3, EmptyOnes DEF IInv, MaintenanceTypeOK, MailIsKeptWhole
    <2>2. Mails(archive) \subseteq Mails(index.docs) \cup Mails(inc.docs) \cup missed'
      <3>1. CASE run.at = "movenew"
        BY <1>3, <3>1 DEF At, IInv, Owed
      <3>2. CASE run.at # "movenew" /\ (run.kind = "full" \/ run.at = "moveold")
        BY <1>3, <3>2 DEF At, IInv, Owed
      <3>3. CASE run.kind = "inc" /\ run.at \notin {"moveold", "movenew"}
        BY <1>3, <3>3 DEF At, IInv, Recorded, Recordable
      <3> QED
        BY <1>1, <3>1, <3>2, <3>3
    <2> QED
      BY <1>1, <1>3, <2>1, <2>2, OverIInv DEF Recordable
  <1>4. CASE /\ run.at = "xml" /\ inc' = [inc EXCEPT !.torn = TRUE]
             /\ UNCHANGED <<archive, missed>>
    <2>1. inc' \in IncXML /\ inc'.docs = inc.docs
      BY <1>4 DEF IInv, MaintenanceTypeOK, IncXML
    <2>2. MaintenanceTypeOK' /\ MailIsKeptWhole'
      BY <1>1, <1>4, <2>1, EmptyOnes DEF IInv, MaintenanceTypeOK, MailIsKeptWhole
    <2>3. Mails(archive) \subseteq Mails(index.docs) \cup Recordable
      BY <1>4 DEF IInv, RunsAreInPlace, Recorded
    <2> QED
      BY <1>1, <1>4, <2>1, <2>2, <2>3, OverIInv DEF Recordable
  <1>5. CASE /\ run.at = "archive" /\ run.mail \cap Gone = {}
             /\ archive' = archive \cup (run.mail \X {"part"})
             /\ missed' = missed \cup run.owed \cup (IF run.kind = "full" THEN run.mail ELSE {})
             /\ UNCHANGED inc
    <2>1. /\ archive' \subseteq Doc
          /\ Mails(archive') = Mails(archive) \cup run.mail
      <3>1. run.mail \X {"part"} \subseteq Doc /\ Mails(run.mail \X {"part"}) = run.mail
        BY <1>1, Copies
      <3> QED
        BY <1>5, <3>1, MailsOfUnion DEF IInv, MaintenanceTypeOK
    <2>2. MaintenanceTypeOK' /\ MailIsKeptWhole'
      BY <1>1, <1>5, <2>1, EmptyOnes DEF IInv, MaintenanceTypeOK, MailIsKeptWhole
    <2>3. Mails(archive) \cup run.mail \subseteq
             Mails(index.docs) \cup Mails(inc.docs) \cup missed'
      <3>1. CASE run.kind = "full"
        BY <1>5, <3>1 DEF IInv, Owed
      <3>2. CASE run.kind = "inc"
        BY <1>5, <3>2 DEF IInv, Recorded, Recordable
      <3> QED
        BY <1>1, <3>1, <3>2
    <2> QED
      BY <1>1, <1>5, <2>1, <2>2, <2>3, OverIInv DEF Recordable
  <1> QED
    BY <1>3, <1>4, <1>5 DEF Kill, At

LEMMA UnblockIInv ==
    ASSUME IInv, Unblock
    PROVE  IInv'
  <1>1. /\ UNCHANGED <<spool, archive, inc, index, new, old, run, short, missed>>
        /\ blocked' = FALSE
    BY DEF Unblock
  <1>2. Gone' = Gone /\ Recordable' = Recordable
    BY <1>1 DEF Gone, Recordable
  <1>3. MaintenanceTypeOK' /\ MailIsKeptWhole' /\ CopiedFirst'
    BY <1>1 DEF IInv, MaintenanceTypeOK, MailIsKeptWhole, CopiedFirst
  <1>4. RunsAreInPlace'
    BY <1>1 DEF IInv, RunsAreInPlace
  <1>5. Recorded' /\ Owed' /\ Built'
    BY <1>1, <1>2 DEF IInv, Recorded, Owed, Built
  <1> QED
    BY <1>3, <1>4, <1>5 DEF IInv

LEMMA NextIInv == IInv /\ [Next]_vars => IInv'
  <1> SUFFICES ASSUME IInv, [Next]_vars PROVE IInv'
    OBVIOUS
  <1>1. CASE UNCHANGED vars
    BY <1>1
    DEF vars, IInv, MaintenanceTypeOK, RunsAreInPlace, MailIsKeptWhole, CopiedFirst,
        Recorded, Recordable, Gone, Owed, Built
  <1>2. CASE EndOfList
    BY <1>2, ExitsWellIInv DEF EndOfList, At
  <1>3. CASE ForkFails
    BY <1>3, ExitsWellIInv DEF ForkFails, At
  <1>4. CASE MailIsGone
    BY <1>4, NtvErrorIInv DEF MailIsGone, At
  <1>5. CASE ReadspoolFails
    BY <1>5, NtvErrorIInv DEF ReadspoolFails
  <1> QED
    BY <1>1, <1>2, <1>3, <1>4, <1>5, DeliverIInv, StartIInv, ReadSpoolIInv, NextMailIInv,
       AppendXMLIInv, FilterFailsIInv, OpenXMLFailsIInv, ExecFailsIInv, AppendArchiveIInv,
       UnlinkIInv, RefuseIInv, PrepareIInv, BuildIndexIInv, DoneIdxIInv, MoveOldIInv,
       MoveNewIInv, FailIInv, KillIInv, UnblockIInv
    DEF Next

\* What ntvincreindex, ntvfullreindex and their hooks keep at every step.
THEOREM Invariance == Spec => []IInv
  BY InitIInv, NextIInv, PTL DEF Spec

-----------------------------------------------------------------------------
\* A mail that has left the spool is in the archive, the whole of it, unless
\* mailsimplereadspool read it while saveit was writing or an append to the archive
\* it does not test failed: nothing else that fails in ntvincreindex,
\* ntvfullreindex and their hooks, and no stop of the machine, loses one.
THEOREM NoMailIsLost == Spec => []MailIsKeptWhole
  <1>1. IInv => MailIsKeptWhole
    BY DEF IInv
  <1> QED
    BY <1>1, Invariance, PTL

\* Between runs of ntvincreindex and ntvfullreindex every mail of the archive is
\* in the index or in inc.xml, but for those whose own record a fault took since
\* the last full run that ended well.
THEOREM IndexCatchesUp == Spec => []ArchiveIsAccountedFor
  <1>1. IInv => ArchiveIsAccountedFor
    <2> SUFFICES ASSUME IInv, run.at = "idle"
                 PROVE  Mails(archive) \subseteq Mails(index.docs \cup inc.docs) \cup missed
      BY DEF ArchiveIsAccountedFor, At
    <2> QED
      BY MailsOfUnion DEF IInv, RunsAreInPlace, Recorded, Recordable
  <1> QED
    BY <1>1, Invariance, PTL
=============================================================================

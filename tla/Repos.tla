------------------------------- MODULE Repos -------------------------------
(***************************************************************************)
(* One attached repository (gate/repo.go), its record, its clone on disk,  *)
(* and one function that is kept in sync with a file of it.  A clone runs  *)
(* in the background of Attach; pulls are done by one goroutine from         *)
(* copies of the record that were read when the pull was asked for;        *)
(* another goroutine measures the clone.  Upstream commits are the numbers *)
(* 1 .. Len(RpContent), RpContent[c] is what the file holds at commit c.   *)
(***************************************************************************)
EXTENDS Integers, Sequences

CONSTANTS
    RpContent,    \* the file's content at each upstream commit
    RpWorkers,    \* requests, web hooks and the periodic sync
    RpMaxFaults   \* bound on failing operations and restarts of the gate

ASSUME RpContentAssumption == Len(RpContent) \in Nat \ {0}

Commits == 1 .. Len(RpContent)
NoCommit == 0
NoDir == -1
EmptyDir == 0

VARIABLES
    head,     \* the newest upstream commit
    rprec,    \* the record: its state and commit (last_pull is set with the commit)
    wt,       \* the clone's directory: NoDir, EmptyDir or the commit it is at
    rpclone,  \* bgClone: its label and the commit it cloned
    rppull,   \* the pull goroutine: label, copy of the record, commit pulled
    scrapes,  \* senders blocked on the scrapes channel: "clone", "pull" or a worker
    rpw,      \* requests: label, copy of the record, content that was read
    fnrepo,   \* the function's src.repo is set: it asked for sync
    fncode,   \* content the function runs, NoCommit before it has a source
    rpblame,  \* ghost: reasons a function or a directory may be left behind: for
              \* good ("fn", "dir"), or until a pull reads the commit ("late")
    rpfaults

rpVars == <<head, rprec, wt, rpclone, rppull, scrapes, rpw, fnrepo, fncode, rpblame, rpfaults>>

RpRec(s, c) == [state |-> s, commit |-> c]
NoRepo == RpRec("no", NoCommit)
NewRepo == RpRec("new", NoCommit)   \* an id that Attach has not used yet
RpIdle == [pc |-> "idle", rec |-> NoRepo, code |-> NoCommit]
CloneIdle == [pc |-> "idle", to |-> NoCommit]
PullIdle == [pc |-> "idle", rec |-> NoRepo, to |-> NoCommit, sync |-> "none"]

\* Values a file can have, with NoCommit for none
Codes == {RpContent[c] : c \in Commits} \cup {NoCommit}

RpTypeOK ==
    /\ head \in Commits
    /\ rprec \in [state : {"new", "no", "cln", "rdy", "stl", "rem"}, commit : Commits \cup {NoCommit}]
    /\ wt \in {NoDir, EmptyDir} \cup Commits
    /\ rpclone.pc \in {"idle", "mkdir", "git", "dirty", "save", "fail"}
    /\ rppull.pc \in {"idle", "git", "commit", "save", "dirty", "upd"}
    /\ scrapes \subseteq {"clone", "pull"}
    /\ \A w \in RpWorkers : rpw[w].pc \in {"idle", "asked", "wait", "rem", "drop", "rmrec", "upd"}
    /\ fncode \in Codes /\ rpblame \subseteq {"fn", "dir", "late"}
    \* one goroutine pulls: whoever waits for an answer is the one it serves
    /\ \A w \in RpWorkers : rpw[w].pc = "wait" => rppull.pc # "idle" /\ rppull.sync = w

RpInit ==
    /\ head = 1 /\ rprec = NewRepo /\ wt = NoDir
    /\ rpclone = CloneIdle /\ rppull = PullIdle /\ scrapes = {}
    /\ rpw = [w \in RpWorkers |-> RpIdle]
    /\ fnrepo = FALSE /\ fncode = NoCommit
    /\ rpblame = {} /\ rpfaults = 0

-----------------------------------------------------------------------------
RpFault == rpfaults < RpMaxFaults /\ rpfaults' = rpfaults + 1
RpOk == UNCHANGED rpfaults
RpBlame(s) == rpblame' = rpblame \cup s
Cloned == wt \in Commits
There == rprec.state \notin {"new", "no"}

\* dbUpdatePart whose result nobody looks at: nothing when the record is gone
Put(r) ==
    \/ rprec' = (IF There THEN r ELSE rprec) /\ RpOk
    \/ RpFault /\ UNCHANGED rprec

\* Somebody pushes to the upstream repository.  External.
RpPush ==
    /\ head < Len(RpContent) /\ head' = head + 1
    /\ UNCHANGED <<rprec, wt, rpclone, rppull, scrapes, rpw, fnrepo, fncode, rpblame, rpfaults>>

-----------------------------------------------------------------------------
(* Attach and the background clone.                                        *)

\* checks and limit of Add (dbRepoCountTen finds no document, whatever there
\* is), dbInsert, and the goroutine; the id, and the path with it, is new
RpAttach ==
    /\ rprec = NewRepo
    /\ rprec' = RpRec("cln", NoCommit)
    /\ rpclone' = [CloneIdle EXCEPT !.pc = "mkdir"]
    /\ UNCHANGED <<head, wt, rppull, scrapes, rpw, fnrepo, fncode, rpblame, rpfaults>>

\* Stat and MkdirAll.  A directory made after Del looked for it stays.
CloneMkdir ==
    /\ rpclone.pc = "mkdir"
    /\ \/ /\ wt' = EmptyDir /\ rpclone' = [rpclone EXCEPT !.pc = "git"] /\ RpOk
          /\ RpBlame(IF There /\ \A w \in RpWorkers : rpw[w].pc # "rmrec" THEN {} ELSE {"dir"})
       \/ RpFault /\ rpclone' = [rpclone EXCEPT !.pc = "fail"] /\ UNCHANGED <<wt, rpblame>>
    /\ UNCHANGED <<head, rprec, rppull, scrapes, rpw, fnrepo, fncode>>

\* git clone --depth=1; when Del moved the directory away it has none to clone to
CloneGit ==
    /\ rpclone.pc = "git"
    /\ \/ /\ wt = EmptyDir /\ wt' = head
          /\ rpclone' = [pc |-> "dirty", to |-> head]
          /\ scrapes' = scrapes \cup {"clone"} /\ RpOk
       \/ /\ (wt # EmptyDir /\ RpOk) \/ RpFault
          /\ rpclone' = [rpclone EXCEPT !.pc = "fail"] /\ UNCHANGED <<wt, scrapes>>
    /\ UNCHANGED <<head, rprec, rppull, rpw, fnrepo, fncode, rpblame>>

\* dirty() came back; gitCommit reads the clone as it is now
CloneCommit ==
    /\ rpclone.pc = "dirty" /\ "clone" \notin scrapes
    /\ \/ Cloned /\ RpOk /\ rpclone' = [pc |-> "save", to |-> wt]
       \/ ((~Cloned /\ RpOk) \/ RpFault) /\ rpclone' = [rpclone EXCEPT !.pc = "fail"]
    /\ UNCHANGED <<head, rprec, wt, rppull, scrapes, rpw, fnrepo, fncode, rpblame>>

\* bgClone's last word, whatever the state of the record
CloneDone ==
    /\ rpclone.pc \in {"save", "fail"} /\ rpclone' = CloneIdle
    /\ Put(IF rpclone.pc = "save" THEN RpRec("rdy", rpclone.to) ELSE [rprec EXCEPT !.state = "stl"])
    /\ UNCHANGED <<head, wt, rppull, scrapes, rpw, fnrepo, fncode, rpblame>>

\* The scrape goroutine: GetDirDU and the du of the record
Scrape(s) ==
    /\ s \in scrapes /\ scrapes' = scrapes \ {s}
    /\ UNCHANGED <<head, rprec, wt, rpclone, rppull, rpw, fnrepo, fncode, rpblame, rpfaults>>

-----------------------------------------------------------------------------
(* Pulls.                                                                  *)

\* handleRepoPull, githubRepoUpdated and pullRepos read the record; the last
\* only finds records with last_pull set, the first refuses one pulled recently
AskPull(w) ==
    /\ rpw[w].pc = "idle" /\ There
    /\ rpw' = [rpw EXCEPT ![w] = [RpIdle EXCEPT !.pc = "asked", !.rec = rprec]]
    /\ UNCHANGED <<head, rprec, wt, rpclone, rppull, scrapes, fnrepo, fncode, rpblame, rpfaults>>

\* pulls <- rq: the goroutine takes one request at a time.  pullSync waits for the
\* answer, pullAsync does not.
PullTake(w) ==
    /\ rpw[w].pc = "asked" /\ rppull.pc = "idle"
    /\ \E sync \in {w, "none"} :
          /\ rppull' = [PullIdle EXCEPT !.pc = "git", !.rec = rpw[w].rec, !.sync = sync]
          /\ rpw' = [rpw EXCEPT ![w] = IF sync = w THEN [@ EXCEPT !.pc = "wait"] ELSE RpIdle]
    /\ UNCHANGED <<head, rprec, wt, rpclone, scrapes, fnrepo, fncode, rpblame, rpfaults>>

\* rq.done <- err
Answer == rpw' = [w \in RpWorkers |-> IF rppull.sync = w THEN RpIdle ELSE rpw[w]]

\* changedFiles: git diff between the copy's commit and the pulled one; a copy
\* without a commit has no changes
Changed(from, to) == from # NoCommit /\ RpContent[from] # RpContent[to]

\* git pull moves the clone, or its failure is answered.
PullGit ==
    /\ rppull.pc = "git"
    /\ \/ /\ Cloned /\ wt' = head /\ RpOk
          /\ rppull' = [rppull EXCEPT !.pc = "commit"] /\ UNCHANGED rpw
          /\ RpBlame(IF RpContent[wt] # RpContent[head] THEN {"late"} ELSE {})
       \/ /\ (~Cloned /\ RpOk) \/ RpFault
          /\ rppull' = PullIdle /\ Answer /\ UNCHANGED <<wt, rpblame>>
    /\ UNCHANGED <<head, rprec, rpclone, scrapes, fnrepo, fncode>>

\* gitCommit reads where the clone is now.  When that fails, pull returns no error,
\* writes nothing and updates no function: the clone stays ahead of them.
PullCommit ==
    /\ rppull.pc = "commit"
    /\ \/ /\ Cloned /\ RpOk
          /\ rppull' = [rppull EXCEPT !.pc = "save", !.to = wt] /\ UNCHANGED rpw
          /\ rpblame' = (rpblame \ {"late"}) \cup
                 (IF "late" \in rpblame /\ ~Changed(rppull.rec.commit, wt) THEN {"fn"} ELSE {})
       \/ /\ (~Cloned /\ RpOk) \/ RpFault
          /\ rppull' = PullIdle /\ Answer /\ UNCHANGED rpblame
    /\ UNCHANGED <<head, rprec, wt, rpclone, scrapes, fnrepo, fncode>>

PullSave_Later ==
    /\ rppull.pc = "save" /\ rppull' = [rppull EXCEPT !.pc = "dirty", !.rec.commit = rppull.to]
    /\ scrapes' = scrapes \cup {"pull"}
    /\ Put([rprec EXCEPT !.commit = rppull.to])
    /\ UNCHANGED <<head, wt, rpclone, rpw, fnrepo, fncode, rpblame>>

\* commit and last_pull of the record, before the functions are looked at
PullSave ==
    /\ rppull.pc = "save" /\ rppull' = [rppull EXCEPT !.pc = "dirty"]
    /\ scrapes' = scrapes \cup {"pull"}
    /\ Put([rprec EXCEPT !.commit = rppull.to])
    /\ UNCHANGED <<head, wt, rpclone, rpw, fnrepo, fncode, rpblame>>

PullList_NoAnswer ==
    /\ rppull.pc = "dirty" /\ "pull" \notin scrapes
    /\ \/ /\ fnrepo /\ Changed(rppull.rec.commit, rppull.to)
          /\ rppull' = [rppull EXCEPT !.pc = "upd"] /\ UNCHANGED <<rpw, rpblame>> /\ RpOk
       \/ /\ \/ ~(fnrepo /\ Changed(rppull.rec.commit, rppull.to)) /\ UNCHANGED rpblame /\ RpOk
             \/ RpFault /\ RpBlame({"fn"})
          /\ rppull' = PullIdle /\ UNCHANGED rpw
    /\ UNCHANGED <<head, rprec, wt, rpclone, scrapes, fnrepo, fncode>>

\* dirty() came back; tryToUpdateFunctions finds the functions of the repository, or
\* logs that the changed files or the functions could not be listed
PullList ==
    /\ rppull.pc = "dirty" /\ "pull" \notin scrapes
    /\ \/ /\ fnrepo /\ Changed(rppull.rec.commit, rppull.to)
          /\ rppull' = [rppull EXCEPT !.pc = "upd"] /\ UNCHANGED <<rpw, rpblame>> /\ RpOk
       \/ /\ \/ ~(fnrepo /\ Changed(rppull.rec.commit, rppull.to)) /\ UNCHANGED rpblame /\ RpOk
             \/ RpFault /\ RpBlame({"fn"})
          /\ rppull' = PullIdle /\ Answer
    /\ UNCHANGED <<head, rprec, wt, rpclone, scrapes, fnrepo, fncode>>

\* fn.updateSources: the file of the clone, by the repository's record.  An error
\* (a function that is not running, too) is logged, and nobody tries again.
PullUpdate ==
    /\ rppull.pc = "upd" /\ rppull' = PullIdle /\ Answer
    /\ \/ Cloned /\ There /\ fncode' = RpContent[wt] /\ RpOk /\ UNCHANGED rpblame
       \/ ~(Cloned /\ There) /\ RpOk /\ UNCHANGED <<fncode, rpblame>>
       \/ RpFault /\ RpBlame({"fn"}) /\ UNCHANGED fncode
    /\ UNCHANGED <<head, rprec, wt, rpclone, scrapes, fnrepo>>

-----------------------------------------------------------------------------
(* The user's requests.                                                    *)

\* Sources from the repository with sync: the file is read ...
FnRead(w) ==
    /\ rpw[w].pc = "idle" /\ There /\ Cloned
    /\ rpw' = [rpw EXCEPT ![w] = [RpIdle EXCEPT !.pc = "upd", !.code = RpContent[wt]]]
    /\ UNCHANGED <<head, rprec, wt, rpclone, rppull, scrapes, fnrepo, fncode, rpblame, rpfaults>>

\* ... and the record of the function says so; a pull that moved the clone in
\* between did not see the function, or wrote it before
FnSave(w) ==
    /\ rpw[w].pc = "upd" /\ rpw' = [rpw EXCEPT ![w] = RpIdle]
    /\ fnrepo' = TRUE /\ fncode' = rpw[w].code
    /\ RpBlame(IF Cloned /\ RpContent[wt] = rpw[w].code /\ rppull.pc = "idle" THEN {} ELSE {"fn"})
    /\ UNCHANGED <<head, rprec, wt, rpclone, rppull, scrapes, rpfaults>>

\* Del: state, directory, record.  A missing directory is no error.
DelMark(w) ==
    /\ rpw[w].pc = "idle" /\ There
    /\ rprec' = [rprec EXCEPT !.state = "rem"]
    /\ rpw' = [rpw EXCEPT ![w] = [RpIdle EXCEPT !.pc = "drop"]]
    /\ UNCHANGED <<head, wt, rpclone, rppull, scrapes, fnrepo, fncode, rpblame, rpfaults>>

\* DropDir: renamed, and removed in the background
DelDir(w) ==
    /\ rpw[w].pc = "drop"
    /\ \/ wt' = NoDir /\ rpw' = [rpw EXCEPT ![w].pc = "rmrec"] /\ RpOk
       \/ RpFault /\ rpw' = [rpw EXCEPT ![w] = RpIdle] /\ UNCHANGED wt
    /\ UNCHANGED <<head, rprec, rpclone, rppull, scrapes, fnrepo, fncode, rpblame>>

DelRepo(w) ==
    /\ rpw[w].pc = "rmrec" /\ rpw' = [rpw EXCEPT ![w] = RpIdle]
    /\ \/ There /\ rprec' = NoRepo /\ RpOk
       \/ ((~There /\ RpOk) \/ RpFault) /\ UNCHANGED rprec
    /\ UNCHANGED <<head, wt, rpclone, rppull, scrapes, fnrepo, fncode, rpblame>>

\* The gate dies with its goroutines; nothing looks at a clone that was not
\* finished.  A pull that had saved its commit does not update its functions; one
\* that had not is made up for by the next.
RpRestart ==
    /\ RpFault
    /\ rpclone' = CloneIdle /\ rppull' = PullIdle /\ scrapes' = {}
    /\ rpw' = [w \in RpWorkers |-> RpIdle]
    /\ RpBlame(CASE rppull.pc = "save" -> {"late"}
                 [] rppull.pc \in {"dirty", "upd"} -> {"fn"}
                 [] OTHER -> {})
    /\ UNCHANGED <<head, rprec, wt, fnrepo, fncode>>

-----------------------------------------------------------------------------
RpPullStep == PullGit \/ PullCommit \/ PullSave \/ PullList \/ PullUpdate
RpNext ==
    \/ RpPush \/ RpAttach \/ CloneMkdir \/ CloneGit \/ CloneCommit \/ CloneDone
    \/ \E s \in {"clone", "pull"} : Scrape(s)
    \/ RpPullStep
    \/ \E w \in RpWorkers :
          AskPull(w) \/ PullTake(w) \/ FnRead(w) \/ FnSave(w) \/ DelMark(w) \/ DelDir(w) \/ DelRepo(w)
    \/ RpRestart

RpSpec == RpInit /\ [][RpNext]_rpVars

\* The goroutines of pulls and scrapes run until the gate dies.
RpFair == WF_rpVars(RpPullStep) /\ WF_rpVars(\E s \in {"clone", "pull"} : Scrape(s))
RpLive == RpSpec /\ RpFair

-----------------------------------------------------------------------------
(* Properties.                                                             *)

Quiet == rpclone.pc = "idle" /\ rppull.pc = "idle" /\ \A w \in RpWorkers : rpw[w].pc \in {"idle", "asked"}

\* A function that asked for sync runs what the clone holds once the pull is
\* over.  It may be left behind until the next pull, when the clone was moved and
\* its commit not read or not saved (gitCommit's error, the gate's death).  It may
\* be left behind for good, when its update failed or was lost with
\* the gate after the commit was saved; when the pull compared with the commit of an
\* old copy of the record and saw no change; when it was linked during a pull.
FnFollowsRepo ==
    Quiet /\ fnrepo /\ Cloned /\ There /\ rpblame \cap {"fn", "late"} = {} =>
        fncode = RpContent[wt]

\* A removed repository leaves no clone behind, but for one whose directory the
\* background clone made after Del had looked for it.
NoCloneLeft ==
    Quiet /\ ~There /\ "dir" \notin rpblame => wt = NoDir

\* A record that says ready has a clone, and a commit that was in it.
RpReadyHasClone ==
    rprec.state = "rdy" => /\ rprec.commit # NoCommit
                           /\ Cloned => rprec.commit <= wt

\* Whoever waits for a pull is answered, unless the gate dies.
PullAnswered ==
    \A w \in RpWorkers : rpw[w].pc = "wait" ~> rpw[w].pc # "wait"

\* Clone, record and functions of a repository agree after clones, pulls, updates
\* and removals that overlap (bgClone, pull, tryToUpdateFunctions, Del).
ReposSound == FnFollowsRepo /\ NoCloneLeft /\ RpReadyHasClone
=============================================================================

------------------------------ MODULE Release ------------------------------
(***************************************************************************)
(* scripts/release.sh: the Version constant is edited, verified, committed *)
(* and tagged, with a trap that restores version.go until the commit.  Any *)
(* step may fail or be interrupted, the script may be killed, the origin   *)
(* moves, and the maintainer cleans up, pushes what the script advised,    *)
(* and runs it again.                                                      *)
(*                                                                         *)
(* A commit is what version.go holds in it, and who made it; a branch or a *)
(* tag is the history that leads to it.  version.go's form is "plain", or  *)
(* "commented" (the constant's line ends in more than its quote, so that   *)
(* grep finds it and sed does not replace it), or "gone" (neither finds    *)
(* it), or, in the working tree alone, "partial" or "edited".              *)
(***************************************************************************)
EXTENDS Naturals, SequencesExt

CONSTANTS
    Versions,    \* the versions that anyone may release, all above 0
    Wanted,      \* the versions that the maintainer releases
    Forms,       \* the forms that others may give to version.go
    MaxMishaps   \* bound: failures, kills, stray edits and acts of others

ASSUME ReleaseAssumption ==
    /\ Versions \subseteq Nat \ {0} /\ Wanted \subseteq Versions
    /\ Forms \subseteq {"plain", "commented", "gone"}
    /\ MaxMishaps \in Nat

VARIABLES  \* the maintainer's clone
    onMain,      \* main is checked out
    main,        \* the local branch
    index,       \* version.go, as staged
    work,        \* version.go, in the working tree
    tags,        \* the local tags: a function on versions
    tracking     \* refs/remotes/origin/main

VARIABLES  \* the origin
    origin,      \* its main
    published    \* its tags

VARIABLES  \* the script
    pc,          \* the line it is at, or "idle"
    version,     \* its argument
    tmp,         \* what sed made of version.go
    committed,   \* its flag of that name
    advised      \* the tag it advised to push, 0 for none

VARIABLES
    mishaps,     \* how many there have been
    untidy       \* an edit, or a kill of the script, that nobody cleaned up after

repo == <<onMain, main, index, work, tags, tracking>>
remote == <<origin, published>>
script == <<pc, version, tmp, committed, advised>>
vars == <<repo, remote, script, mishaps, untidy>>

File(v, form) == [version |-> v, form |-> form]
Commit(file, by) == [file |-> file, by |-> by]
HEAD == Last(main).file
Clean == index = HEAD /\ work = HEAD
Onto(v, history, refs) == [u \in DOMAIN refs \cup {v} |-> IF u = v THEN history ELSE refs[u]]

First == <<Commit(File(0, "plain"), "others")>>

Init ==
    /\ onMain = TRUE /\ main = First /\ index = File(0, "plain") /\ work = File(0, "plain")
    /\ tags = [v \in {} |-> <<>>] /\ tracking = First
    /\ origin = First /\ published = [v \in {} |-> <<>>]
    /\ pc = "idle" /\ version = 0 /\ tmp = File(0, "plain") /\ committed = FALSE /\ advised = 0
    /\ mishaps = 0 /\ untidy = FALSE

-----------------------------------------------------------------------------
(***************************************************************************)
(* The script's checks.                                                    *)
(***************************************************************************)
Goto(line) == pc' = line /\ UNCHANGED <<version, tmp, committed, advised>>

(* One check: past it, or out.  Before the trap is set, an exit leaves     *)
(* everything as it is.                                                    *)
Check(line, holds, next) ==
    /\ pc = line
    /\ Goto(IF holds THEN next ELSE "idle")
    /\ UNCHANGED <<repo, remote, mishaps, untidy>>

Start(v) ==
    /\ pc = "idle"
    /\ pc' = "branch" /\ version' = v /\ advised' = 0
    /\ UNCHANGED <<repo, remote, tmp, committed, mishaps, untidy>>

(* Mutant: the tree is not looked at. *)
CheckClean_Never == Check("clean", TRUE, "fetch")

CheckBranch == Check("branch", onMain, "clean")
CheckClean == Check("clean", Clean, "fetch")
CheckTag == Check("tag", version \notin DOMAIN tags, "behind")
CheckBehind == Check("behind", IsPrefix(tracking, main), "file")
CheckFile == Check("file", work.form # "gone", "trap")

(* git fetch --tags takes the tags that are new here, and stops at one     *)
(* that differs.                                                           *)
Fetch ==
    /\ pc = "fetch"
    /\ tracking' = origin
    /\ tags' = [v \in DOMAIN tags \cup DOMAIN published |->
                    IF v \in DOMAIN tags THEN tags[v] ELSE published[v]]
    /\ Goto(IF \A v \in DOMAIN tags \cap DOMAIN published : tags[v] = published[v]
              THEN "tag" ELSE "idle")
    /\ UNCHANGED <<onMain, main, index, work, remote, mishaps, untidy>>

-----------------------------------------------------------------------------
(***************************************************************************)
(* The edit, under the trap.                                               *)
(***************************************************************************)
Armed == pc \in {"sed", "truncate", "write", "verify", "add", "commit", "committed", "tagit"}

SetTrap ==
    /\ pc = "trap"
    /\ committed' = FALSE /\ pc' = "sed"
    /\ UNCHANGED <<repo, remote, version, tmp, advised, mishaps, untidy>>

Sed ==
    /\ pc = "sed"
    /\ tmp' = IF work.form = "plain" THEN File(version, "plain") ELSE work
    /\ pc' = "truncate"
    /\ UNCHANGED <<repo, remote, version, committed, advised, mishaps, untidy>>

(* cat "$tmp" > "$file": the shell empties the file before cat fills it. *)
Truncate ==
    /\ pc = "truncate"
    /\ work' = File(0, "partial") /\ Goto("write")
    /\ UNCHANGED <<onMain, main, index, tags, tracking, remote, mishaps, untidy>>

Write ==
    /\ pc = "write"
    /\ work' = tmp /\ Goto("verify")
    /\ UNCHANGED <<onMain, main, index, tags, tracking, remote, mishaps, untidy>>

(* Mutant: a run without a failure is enough. *)
Verified_NotFailed(outcome) == outcome # "FAIL"

(* verify-version.sh demands the guard's PASS line. *)
Verified(outcome) == outcome = "PASS"

(* The guard compares the constant with the tag, unless it does not run. *)
Guard == IF work.version = version THEN "PASS" ELSE "FAIL"

(* Mutant: the file is restored from the index, staged bump and all. *)
Restored_FromIndex == index

(* What the trap's reset makes of the index, and its checkout of the file. *)
Restored == HEAD

Exit ==
    /\ Goto("idle")
    /\ IF Armed /\ ~committed
         THEN index' = Restored /\ work' = Restored
         ELSE UNCHANGED <<index, work>>
    /\ UNCHANGED <<onMain, main, tags, tracking, remote, untidy>>

(* gofmt, then the guard. *)
Verify ==
    /\ pc = "verify"
    /\ \E outcome \in {Guard} \cup (IF mishaps < MaxMishaps THEN {"SKIP"} ELSE {}) :
        /\ IF Verified(outcome)
             THEN Goto("add") /\ UNCHANGED <<repo, remote, untidy>>
             ELSE Exit
        /\ mishaps' = IF outcome = "SKIP" THEN mishaps + 1 ELSE mishaps

(* Mutant: an unchanged constant is committed as well, which git refuses. *)
NothingToCommit_Never == FALSE

(* git diff --cached --quiet, once the file is added. *)
NothingToCommit == work = HEAD

Add ==
    /\ pc = "add"
    /\ index' = work
    /\ Goto(IF NothingToCommit THEN "committed" ELSE "commit")
    /\ UNCHANGED <<onMain, main, work, tags, tracking, remote, mishaps, untidy>>

(* git commit, which refuses when there is nothing to commit. *)
MakeCommit ==
    /\ pc = "commit"
    /\ IF index = HEAD
         THEN Exit
         ELSE /\ main' = Append(main, Commit(index, "us"))
              /\ Goto("committed")
              /\ UNCHANGED <<onMain, index, work, tags, tracking, remote, untidy>>
    /\ UNCHANGED mishaps

Committed ==
    /\ pc = "committed"
    /\ committed' = TRUE /\ pc' = "tagit"
    /\ UNCHANGED <<repo, remote, version, tmp, advised, mishaps, untidy>>

TagIt ==
    /\ pc = "tagit"
    /\ tags' = Onto(version, main, tags)
    /\ pc' = "idle" /\ advised' = version
    /\ UNCHANGED <<onMain, main, index, work, tracking, remote, version, tmp, committed,
                   mishaps, untidy>>

(* The step at hand fails, or a signal ends the script: the trap runs. *)
StepFails ==
    /\ pc # "idle" /\ mishaps < MaxMishaps
    /\ Exit /\ mishaps' = mishaps + 1

(* Nothing runs any more, not even the trap. *)
Killed ==
    /\ pc # "idle" /\ mishaps < MaxMishaps
    /\ Goto("idle") /\ mishaps' = mishaps + 1 /\ untidy' = TRUE
    /\ UNCHANGED <<repo, remote>>

ScriptStep ==
    \/ CheckBranch \/ CheckClean \/ Fetch \/ CheckTag \/ CheckBehind \/ CheckFile
    \/ SetTrap \/ Sed \/ Truncate \/ Write \/ Verify
    \/ Add \/ MakeCommit \/ Committed \/ TagIt

-----------------------------------------------------------------------------
(***************************************************************************)
(* The maintainer, between two runs of the script.                         *)
(***************************************************************************)
Checkout(history) ==
    /\ main' = history /\ index' = Last(history).file /\ work' = Last(history).file

Edit ==
    /\ pc = "idle" /\ mishaps < MaxMishaps
    /\ work' = File(HEAD.version, "edited") /\ index' \in {index, work'}
    /\ mishaps' = mishaps + 1 /\ untidy' = TRUE
    /\ UNCHANGED <<onMain, main, tags, tracking, remote, script>>

Discard ==
    /\ pc = "idle" /\ untidy
    /\ Checkout(main) /\ untidy' = FALSE
    /\ UNCHANGED <<onMain, tags, tracking, remote, script, mishaps>>

Leave ==
    /\ pc = "idle" /\ onMain /\ Clean /\ mishaps < MaxMishaps
    /\ onMain' = FALSE /\ mishaps' = mishaps + 1
    /\ UNCHANGED <<main, index, work, tags, tracking, remote, script, untidy>>

Return ==
    /\ pc = "idle" /\ ~onMain
    /\ onMain' = TRUE
    /\ UNCHANGED <<main, index, work, tags, tracking, remote, script, mishaps, untidy>>

Pull ==
    /\ pc = "idle" /\ onMain /\ Clean /\ IsPrefix(main, origin)
    /\ Checkout(origin) /\ tracking' = origin
    /\ UNCHANGED <<onMain, tags, remote, script, mishaps, untidy>>

(* Others were first: the unpushed bump is given up, and with it the push. *)
ResetToOrigin ==
    /\ pc = "idle" /\ onMain /\ ~IsPrefix(main, origin) /\ ~IsPrefix(origin, main)
    /\ Checkout(origin) /\ tracking' = origin
    /\ advised' = 0 /\ untidy' = FALSE
    /\ UNCHANGED <<onMain, tags, remote, pc, version, tmp, committed, mishaps>>

(* A tag that was never published, and whose push nobody waits for. *)
DeleteTag(v) ==
    /\ pc = "idle" /\ v \in DOMAIN tags /\ v # advised
    /\ v \in DOMAIN published => tags[v] # published[v]
    /\ tags' = [u \in DOMAIN tags \ {v} |-> tags[u]]
    /\ UNCHANGED <<onMain, main, index, work, tracking, remote, script, mishaps, untidy>>

(* git push --atomic origin main v...: both or neither. *)
Push ==
    /\ pc = "idle" /\ advised # 0
    /\ IsPrefix(origin, main) /\ advised \notin DOMAIN published
    /\ origin' = main /\ published' = Onto(advised, tags[advised], published)
    /\ tracking' = main /\ advised' = 0
    /\ UNCHANGED <<onMain, main, index, work, tags, pc, version, tmp, committed, mishaps, untidy>>

(***************************************************************************)
(* Others, at any moment: a commit, perhaps of version.go, or a release.   *)
(***************************************************************************)
Others ==
    /\ mishaps < MaxMishaps /\ mishaps' = mishaps + 1
    /\ \/ /\ \E form \in Forms :
              origin' = Append(origin, Commit(File(Last(origin).file.version, form), "others"))
          /\ UNCHANGED published
       \/ \E v \in Versions \ DOMAIN published :
              /\ origin' = Append(origin, Commit(File(v, "plain"), "others"))
              /\ published' = Onto(v, origin', published)
    /\ UNCHANGED <<repo, script, untidy>>

Next ==
    \/ \E v \in Wanted : Start(v) \/ DeleteTag(v)
    \/ ScriptStep \/ StepFails \/ Killed
    \/ Edit \/ Discard \/ Leave \/ Return \/ Pull \/ ResetToOrigin \/ Push \/ Others

Spec == Init /\ [][Next]_vars

(***************************************************************************)
(* A script that runs goes on, and a maintainer who wants the releases     *)
(* keeps cleaning up, pushing and running it again.                        *)
(***************************************************************************)
Persistence ==
    /\ WF_vars(ScriptStep)
    /\ \A v \in Wanted : SF_vars(Start(v)) /\ SF_vars(DeleteTag(v))
    /\ SF_vars(Discard) /\ SF_vars(Return) /\ SF_vars(Pull /\ main # origin)
    /\ SF_vars(ResetToOrigin) /\ SF_vars(Push)

FairSpec == Spec /\ Persistence

-----------------------------------------------------------------------------
(***************************************************************************)
(* PROPERTIES                                                              *)
(***************************************************************************)
(* Types: a history is never empty, and nothing partial or edited is in it. *)
Released == {"plain", "commented", "gone"}
Files(forms) == [version : Versions \cup {0}, form : forms]
Histories == Seq([file : Files(Released), by : {"us", "others"}]) \ {<<>>}
Tags(refs) == DOMAIN refs \subseteq Versions /\ \A v \in DOMAIN refs : refs[v] \in Histories

TypeOK ==
    /\ onMain \in BOOLEAN /\ committed \in BOOLEAN /\ untidy \in BOOLEAN
    /\ main \in Histories /\ tracking \in Histories /\ origin \in Histories
    /\ index \in Files(Released \cup {"edited"})
    /\ work \in Files(Released \cup {"edited", "partial"})
    /\ tmp \in Files(Released)
    /\ Tags(tags) /\ Tags(published)
    /\ version \in Versions \cup {0} /\ advised \in Versions \cup {0}
    /\ pc \in {"idle", "branch", "clean", "fetch", "tag", "behind", "file", "trap", "sed",
               "truncate", "write", "verify", "add", "commit", "committed", "tagit"}
    /\ mishaps \in 0..MaxMishaps

(* However a run of the script ends, short of being killed, version.go is  *)
(* as it is in HEAD, in the working tree and in the index: the next run    *)
(* finds a clean tree (the EXIT trap).                                     *)
TreeRestored == pc = "idle" /\ ~untidy => Clean

(* A tag names the version that the constant has in its commit, whichever  *)
(* step fails and however the file is written (release.sh's first comment, *)
(* verify-version.sh).                                                     *)
TagNamesVersion ==
    \A v \in DOMAIN tags : tags[v] # <<>> /\ Last(tags[v]).file.version = v

(* The script never discards the maintainer's work: what was edited before *)
(* it ran is there, in the tree and in the index, after each of its steps  *)
(* (the comment on the restore).                                           *)
NeverDiscardsWork ==
    [][pc # "idle" /\ work.form = "edited" => work' = work /\ index' = index]_vars

(* Every release can be finished: whichever steps failed, were killed or   *)
(* were overtaken by others, a maintainer who keeps cleaning up and running *)
(* the script again publishes each version, if the constant's line stays   *)
(* as sed finds it (the comments on the trap and on an unchanged constant). *)
RerunReleases ==
    \A v \in Wanted :
        <>[](Last(origin).file.form = "plain") => <>(v \in DOMAIN published)
=============================================================================

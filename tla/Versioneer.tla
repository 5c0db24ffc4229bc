----------------------------- MODULE Versioneer -----------------------------
(***************************************************************************)
(* A developer's checkout of pyqryptonight and the commands that versions  *)
(* pass through: setup.py version, sdist, build, build_exe and py2exe,     *)
(* and `versioneer.py setup`.  One command runs at a time, as a process    *)
(* that makes one call to git or to the file system per step, that may be  *)
(* killed between any two of them, and beside which the developer goes on  *)
(* editing, committing, tagging and checking out.                          *)
(*                                                                         *)
(* setup.py hands get_cmdclass() to setup() only if UsesCmdclass: the      *)
(* docstring of versioneer.py wants it, setup.py:73 does not do it.        *)
(***************************************************************************)
EXTENDS VersionLookup, FiniteSets, Functions

CONSTANTS
  UsesCmdclass,
  Tags,          \* the tags the developer may give, each once
  Branch,        \* the branch of the history
  MaxCommits,    \* bound: the length of the (linear) history
  Scripts,       \* bound: the sequences of commands that are given
  MaxBreaks,     \* bound: kills and failed calls
  Places         \* where a release may be unpacked or installed

Commands == {"sdist", "build", "setup"}
              \union IF UsesCmdclass THEN {"version", "build_exe", "py2exe"} ELSE {}

ASSUME VersioneerAssumption ==
  /\ UsesCmdclass \in BOOLEAN
  /\ Tags \subseteq Ref /\ Branch \in Ref \ Tags
  /\ MaxCommits \in Nat \ {0} /\ MaxBreaks \in Nat
  /\ Scripts \subseteq Seq(Commands)
  \* cx_Freeze brings build_exe and takes build_py away (versioneer.py:1592).
  /\ \A s \in Scripts : {"build", "build_exe"} \cap Range(s) # {"build", "build_exe"}

VARIABLES
  files,    \* the worktree: src is the commit its sources are those of (0:
            \* edited), vf _version.py, attr .gitattributes, ini the snippets
            \* in __init__.py, man the includes in MANIFEST.in, cfg the
            \* [versioneer] section of setup.cfg
  known,    \* those of the files of Names that git was told of: its index
  commits,  \* the committed files
  head, tagged,
  egg,      \* the version pkg_resources finds in an egg-info or installed, if any
  rel,      \* release or build tree in the making: its files, and whether its
            \* _version.py is a hard link to that of the worktree
  dist,     \* the sdist or build just finished, if any
  job,      \* the command that runs
  todo,     \* the commands still to be given
  breaks,
  cut       \* history: the files a command was cut with; _version.py if the last
            \* one to have it in hand did not write it to the end, .gitattributes
            \* if the one that marked it did not get git to add it

vars == <<files, known, commits, head, tagged, egg, rel, dist, job, todo, breaks, cut>>

repo == <<known, commits, head, tagged>>
count == <<todo, breaks>>

NoVersion == [Unknown EXCEPT !.error = "not computed"]
NoOutput == [tag |-> NoTag, dist |-> 0, short |-> 0, dirty |-> FALSE]

\* quiet: nobody touched the checkout, and no call to git failed, since the
\* start; seen: history, the commits that were HEAD in the course of the lookup.
\* name is the version setup() gets, ver the one of the command's own lookup.
Idle == [cmd |-> "none", at |-> "idle", quiet |-> TRUE, seen |-> {},
         fresh |-> TRUE, round |-> 1, name |-> NoVersion.version, ver |-> NoVersion,
         out |-> NoOutput, full |-> 0, total |-> 0, ok |-> FALSE]

Nothing == [src |-> 0, vf |-> Absent, attr |-> "absent", ini |-> 0, man |-> {},
            cfg |-> "absent"]

\* What is left of a copy is never read.
NoTree == [files |-> Nothing, linked |-> FALSE]

\* Files that may exist without git being told of them.
Names == {"_version.py", "MANIFEST.in", ".gitattributes"}

Present(f) ==
  {n \in Names : \/ n = "_version.py" /\ f.vf # Absent
                 \/ n = "MANIFEST.in" /\ f.man # {}
                 \/ n = ".gitattributes" /\ f.attr # "absent"}

\* Of f the files of names, of g the others.
Merge(names, f, g) ==
  [g EXCEPT !.vf = IF "_version.py" \in names THEN f.vf ELSE @,
            !.man = IF "MANIFEST.in" \in names THEN f.man ELSE @,
            !.attr = IF ".gitattributes" \in names THEN f.attr ELSE @]

\* The repository as it is, and a project that begins with Versioneer.
Init ==
  /\ \/ files = [src |-> 1, vf |-> Long, attr |-> "absent", ini |-> 0,
                 man |-> {"versioneer.py"}, cfg |-> "full"]
     \/ files = [src |-> 1, vf |-> Absent, attr |-> "absent", ini |-> 0,
                 man |-> {}, cfg |-> "absent"]
  /\ known = Present(files)
  /\ commits = <<files>> /\ head = 1
  /\ tagged = [t \in Tags |-> 0]
  /\ egg = {} /\ dist = {} /\ rel = NoTree
  /\ job = Idle
  /\ todo \in Scripts
  /\ breaks = 0 /\ cut = {}

-----------------------------------------------------------------------------
(* The developer *)

\* What git compares with HEAD, and commit -a takes: a file it was not told of
\* is not in it.
Tracked == Merge(Names \ known, Nothing, files)
IsDirty == Tracked # commits[head]

Untracked == Present(files) \ known

\* It happens beside a command: heads is where HEAD moves.
Disturb(heads) ==
  job' = IF job.cmd = "none" THEN job
         ELSE [job EXCEPT !.quiet = FALSE, !.seen = IF @ = {} THEN {} ELSE @ \union heads]

Edit ==
  /\ files.src # 0
  /\ files' = [files EXCEPT !.src = 0]
  /\ Disturb({})
  /\ UNCHANGED <<repo, egg, rel, dist, cut, count>>

\* The VCS= line that CONFIG_ERROR asks for.
Configure ==
  /\ files.cfg # "full"
  /\ files' = [files EXCEPT !.cfg = "full"]
  /\ Disturb({})
  /\ UNCHANGED <<repo, egg, rel, dist, cut, count>>

\* git commit -a; it takes a file that is gone out of the index.
Commit ==
  /\ head = Len(commits) /\ head < MaxCommits
  /\ IsDirty
  /\ commits' = Append(commits, [Tracked EXCEPT !.src = head + 1])
  /\ files' = [files EXCEPT !.src = head + 1]
  /\ known' = known \cap Present(files)
  /\ head' = head + 1
  /\ Disturb({head + 1})
  /\ UNCHANGED <<tagged, egg, rel, dist, cut, count>>

Tag(t) ==
  /\ tagged[t] = 0
  /\ tagged' = [tagged EXCEPT ![t] = head]
  /\ Disturb({})
  /\ UNCHANGED <<files, known, commits, head, egg, rel, dist, cut, count>>

\* git checkout refuses to touch what is not committed.
Checkout(c) ==
  /\ c # head /\ ~IsDirty
  /\ Untracked \cap Present(commits[c]) = {}
  /\ files' = Merge(Untracked, files, commits[c])
  /\ known' = Present(commits[c])
  /\ head' = c
  /\ cut' = cut \cap Untracked
  /\ Disturb({c})
  /\ UNCHANGED <<commits, tagged, egg, rel, dist, count>>

-----------------------------------------------------------------------------
(* The life of a command *)

Goto(step) == job' = [job EXCEPT !.at = step]

\* setup_package() asks pkg_resources first; versioneer.py has a main() of its own.
Start ==
  /\ job.cmd = "none" /\ todo # <<>>
  /\ todo' = Tail(todo)
  /\ job' = [Idle EXCEPT !.cmd = Head(todo), !.fresh = (egg = {}),
                         !.at = IF Head(todo) = "setup" THEN "config" ELSE "require"]
  /\ UNCHANGED <<files, repo, egg, rel, dist, cut, breaks>>

End ==
  /\ job.at = "done"
  /\ job' = Idle /\ dist' = {}
  /\ UNCHANGED <<files, repo, egg, rel, cut, count>>

\* Between the unlink of the worktree's _version.py, or the open that truncates
\* it, and the write of the long one.
InHand ==
  \/ job.at \in {"open", "write", "freeze", "unlinkShort", "writeLong"}
  \/ job.at = "openLong" /\ job.cmd # "setup"

\* The process ends where it is: a kill, or an exception that nobody catches.
Abort ==
  /\ job' = Idle /\ rel' = NoTree
  /\ cut' = cut \union {n \in {"_version.py"} : InHand}
                \union {n \in {".gitattributes"} : job.at = "addAttributes"}
  /\ UNCHANGED <<files, repo, egg, dist>>

Kill ==
  /\ job.cmd # "none" /\ job.at # "done"
  /\ breaks < MaxBreaks
  /\ breaks' = breaks + 1 /\ UNCHANGED todo
  /\ Abort

-----------------------------------------------------------------------------
(* The lookup: get_versions() *)

AfterLookup(cmd) ==
  CASE cmd = "version" -> "print"
    [] cmd = "sdist"   -> "egg"
    [] cmd = "build"   -> "tree"
    [] OTHER           -> "unlink"

Forget == [job EXCEPT !.out = NoOutput, !.full = 0, !.total = 0, !.seen = {}]

\* The first lookup, of setup_package(), names the distribution; the second
\* one is that of the commands of get_cmdclass().
Named(name) ==
  [Forget EXCEPT !.name = name, !.round = 2,
                 !.at = IF UsesCmdclass THEN "read" ELSE AfterLookup(job.cmd)]

Answered(v) ==
  IF job.round = 1 THEN Named(v.version)
  ELSE [Forget EXCEPT !.ver = v, !.at = AfterLookup(job.cmd)]

Answer(v) == job' = Answered(v)

Require ==
  /\ job.at = "require"
  /\ IF egg # {} THEN \E name \in egg : job' = Named(name) ELSE Goto("read")
  /\ UNCHANGED <<files, repo, egg, rel, dist, cut, count>>

HasConfig == files.cfg = "full"

\* get_config_from_root() raises without a VCS=; keywords and the version in
\* the file come before git.
ReadVersionFile ==
  /\ job.at = "read"
  /\ IF ~HasConfig THEN Abort
     ELSE /\ LET found == OrElse(FromKeywords(files.vf), FromFile(files.vf))
             IN IF found # {} THEN \E v \in found : Answer(v) ELSE Goto("describe")
          /\ UNCHANGED <<files, repo, egg, rel, dist, cut>>
  /\ UNCHANGED count

\* run_command() returns None: NotThisMethod, and there is no other method
\* left; but the outputs of rev-list and show are used unseen.
GitFails ==
  /\ job.at \in {"describe", "head", "count", "show"}
  /\ breaks < MaxBreaks
  /\ breaks' = breaks + 1 /\ UNCHANGED todo
  /\ IF job.at \in {"count", "show"} THEN Abort
     ELSE /\ job' = [Answered(Unknown) EXCEPT !.quiet = FALSE]
          /\ UNCHANGED <<files, repo, egg, rel, dist, cut>>

\* rev-parse --git-dir, of which only the exit status is used, and describe.
GitDescribe ==
  /\ job.at = "describe"
  /\ job' = [job EXCEPT !.out = Describe(head, tagged, IsDirty), !.at = "head",
                        !.seen = {head}]
  /\ UNCHANGED <<files, repo, egg, rel, dist, cut, count>>

\* Mutant of Revision: the branch instead of HEAD.
TipOfBranch == Len(commits)

Revision == head

GitHead ==
  /\ job.at = "head"
  /\ job' = [job EXCEPT !.full = Revision,
                        !.at = IF job.out.tag = NoTag THEN "count" ELSE "show"]
  /\ UNCHANGED <<files, repo, egg, rel, dist, cut, count>>

GitCount ==
  /\ job.at = "count"
  /\ job' = [job EXCEPT !.total = head, !.at = "show"]
  /\ UNCHANGED <<files, repo, egg, rel, dist, cut, count>>

\* The date, and with it the pieces are complete.
GitShow ==
  /\ job.at = "show"
  /\ Answer(Render(Pieces(job.out, job.full, job.total), Style))
  /\ UNCHANGED <<files, repo, egg, rel, dist, cut, count>>

-----------------------------------------------------------------------------
(* version, sdist and build *)

PrintVersion ==
  /\ job.at = "print"
  /\ Goto("done")
  /\ UNCHANGED <<files, repo, egg, rel, dist, cut, count>>

\* cmd_sdist.run() gives the version it found to the distribution, whose
\* egg_info is written next.
\* Mutant of ReleaseName: without metadata.version = versions["version"].
FirstName == job.name

ReleaseName == IF UsesCmdclass THEN job.ver.version ELSE job.name

WriteEggInfo ==
  /\ job.at = "egg"
  /\ egg' = {ReleaseName}
  /\ job' = [job EXCEPT !.name = ReleaseName, !.at = "tree"]
  /\ UNCHANGED <<files, repo, rel, dist, cut, count>>

\* make_release_tree() of distutils links the files if it can ...
MakeReleaseTree ==
  /\ job.at = "tree" /\ job.cmd = "sdist"
  /\ \E linked \in BOOLEAN : rel' = [files |-> files, linked |-> linked]
  /\ Goto(IF UsesCmdclass THEN "unlinkRel" ELSE "finish")
  /\ UNCHANGED <<files, repo, egg, dist, cut, count>>

\* ... and build_py copies them.
BuildPy ==
  /\ job.at = "tree" /\ job.cmd = "build"
  /\ rel' = [files |-> files, linked |-> FALSE]
  /\ Goto(IF UsesCmdclass THEN "unlinkRel" ELSE "finish")
  /\ UNCHANGED <<files, repo, egg, dist, cut, count>>

\* Mutant of Unlinked: the file is written in place.
SameFile(r) == r

Unlinked(r) == [r EXCEPT !.linked = FALSE, !.files.vf = Absent]

\* write_to_version_file() on the copy; os.unlink() raises if there is none.
UnlinkRel ==
  /\ job.at = "unlinkRel"
  /\ IF rel.files.vf = Absent THEN Abort
     ELSE /\ rel' = Unlinked(rel) /\ Goto("openRel")
          /\ UNCHANGED <<files, repo, egg, dist, cut>>
  /\ UNCHANGED count

\* A write through the copy's name, which may be the worktree's file too.
WriteThrough(content) ==
  /\ rel' = [rel EXCEPT !.files.vf = content]
  /\ files' = IF rel.linked THEN [files EXCEPT !.vf = content] ELSE files

OpenRel ==
  /\ job.at = "openRel"
  /\ WriteThrough(Torn)
  /\ Goto("writeRel")
  /\ UNCHANGED <<repo, egg, dist, cut, count>>

WriteRel ==
  /\ job.at = "writeRel"
  /\ WriteThrough(Short(job.ver))
  /\ Goto("finish")
  /\ UNCHANGED <<repo, egg, dist, cut, count>>

Finished == [kind |-> job.cmd, files |-> rel.files, name |-> job.name, ver |-> job.ver,
             quiet |-> job.quiet, fresh |-> job.fresh, source |-> files.vf]

\* make_archive()
MakeArchive ==
  /\ job.at = "finish" /\ job.cmd = "sdist"
  /\ dist' = {Finished} /\ rel' = NoTree
  /\ Goto("done")
  /\ UNCHANGED <<files, repo, egg, cut, count>>

\* CMakeBuild.run() compiles the name into the library as VERSION_INFO (a
\* cmake that fails raises: a Kill).
CMakeBuild ==
  /\ job.at = "finish" /\ job.cmd = "build"
  /\ dist' = {Finished} /\ rel' = NoTree
  /\ Goto("done")
  /\ UNCHANGED <<files, repo, egg, cut, count>>

-----------------------------------------------------------------------------
(* build_exe and py2exe: the worktree's own file is replaced for a while *)

WriteVf(content) == files' = [files EXCEPT !.vf = content]

\* write_to_version_file(), and after the freeze os.unlink()
UnlinkVf ==
  /\ job.at \in {"unlink", "unlinkShort"}
  /\ IF files.vf = Absent THEN Abort
     ELSE /\ WriteVf(Absent)
          /\ Goto(IF job.at = "unlink" THEN "open" ELSE "openLong")
          /\ UNCHANGED <<repo, egg, rel, dist, cut>>
  /\ UNCHANGED count

OpenVf ==
  /\ job.at = "open"
  /\ WriteVf(Torn)
  /\ Goto("write")
  /\ UNCHANGED <<repo, egg, rel, dist, cut, count>>

WriteShort ==
  /\ job.at = "write"
  /\ WriteVf(Short(job.ver))
  /\ Goto("freeze")
  /\ UNCHANGED <<repo, egg, rel, dist, cut, count>>

\* Mutant of AfterFreeze: the long file is not put back.
NoRestore == "done"

AfterFreeze == "unlinkShort"

\* _build_exe.run() and _py2exe.run(); a failure is a Kill.
BuildExe ==
  /\ job.at = "freeze" /\ job.cmd = "build_exe"
  /\ Goto(AfterFreeze)
  /\ UNCHANGED <<files, repo, egg, rel, dist, cut, count>>

Py2exe ==
  /\ job.at = "freeze" /\ job.cmd = "py2exe"
  /\ Goto(AfterFreeze)
  /\ UNCHANGED <<files, repo, egg, rel, dist, cut, count>>

OpenLong ==
  /\ job.at = "openLong"
  /\ WriteVf(Torn)
  /\ Goto("writeLong")
  /\ UNCHANGED <<repo, egg, rel, dist, cut, count>>

\* The long file is back, whatever was there before.
WriteLong ==
  /\ job.at = "writeLong"
  /\ WriteVf(Long)
  /\ cut' = cut \ {"_version.py"}
  /\ Goto(IF job.cmd = "setup" THEN "snippet" ELSE "done")
  /\ UNCHANGED <<repo, egg, rel, dist, count>>

-----------------------------------------------------------------------------
(* versioneer.py setup: do_setup() and scan_setup_py() *)

\* Without a section a sample is appended, without VCS= nothing: 1 is returned.
ReadConfig ==
  /\ job.at = "config"
  /\ files' = IF files.cfg = "absent" THEN [files EXCEPT !.cfg = "sample"] ELSE files
  /\ Goto(IF HasConfig THEN "openLong" ELSE "scan")
  /\ UNCHANGED <<repo, egg, rel, dist, cut, count>>

\* Mutant of Snippet: it is appended without a look at the file.
AppendSnippet(n) == n + 1

Snippet(n) == IF n = 0 THEN 1 ELSE n

WriteSnippet ==
  /\ job.at = "snippet"
  /\ files' = [files EXCEPT !.ini = Snippet(@)]
  /\ Goto("manifest")
  /\ UNCHANGED <<repo, egg, rel, dist, cut, count>>

\* MANIFEST.in is read once, then appended to for each name it lacks.
WriteManifest ==
  /\ job.at \in {"manifest", "manifest2"}
  /\ files' = [files EXCEPT !.man =
                 @ \union IF job.at = "manifest" THEN {"versioneer.py"} ELSE {"_version.py"}]
  /\ Goto(IF job.at = "manifest" THEN "manifest2" ELSE "attributes")
  /\ UNCHANGED <<repo, egg, rel, dist, cut, count>>

\* do_vcs_install(): open(..., "a+") makes the file, the write comes with the
\* close, and git is told of .gitattributes only by the run that writes it.
OpenAttributes ==
  /\ job.at = "attributes"
  /\ files' = [files EXCEPT !.attr = IF @ = "absent" THEN "empty" ELSE @]
  /\ Goto(IF files.attr = "marked" THEN "add" ELSE "mark")
  /\ UNCHANGED <<repo, egg, rel, dist, cut, count>>

WriteAttributes ==
  /\ job.at = "mark"
  /\ files' = [files EXCEPT !.attr = "marked"]
  /\ Goto("addAttributes")
  /\ UNCHANGED <<repo, egg, rel, dist, cut, count>>

\* The files that git is told of: .gitattributes only if this run wrote it.
ToAdd == {"_version.py", "MANIFEST.in"}
           \union IF job.at = "addAttributes" THEN {".gitattributes"} ELSE {}

\* git add takes all of them or, if one is missing, none.  Nobody looks at its
\* exit status.
GitAdd ==
  /\ job.at \in {"add", "addAttributes"}
  /\ \/ /\ ToAdd \subseteq Present(files)
        /\ known' = known \union ToAdd /\ cut' = cut \ (ToAdd \ {"_version.py"})
        /\ UNCHANGED breaks
     \/ /\ IF ToAdd \subseteq Present(files) THEN breaks < MaxBreaks /\ breaks' = breaks + 1
           ELSE UNCHANGED breaks
        /\ cut' = cut \union (ToAdd \cap {".gitattributes"})
        /\ UNCHANGED known
  /\ job' = [job EXCEPT !.at = "scan", !.ok = TRUE]
  /\ UNCHANGED <<files, commits, head, tagged, egg, rel, dist, todo>>

\* scan_setup_py() looks for versioneer.get_cmdclass() in setup.py.
ScanSetupPy == UsesCmdclass

\* The exit status is that of both.
Exit ==
  /\ job.at = "scan"
  /\ job' = [job EXCEPT !.at = "done", !.ok = @ /\ ScanSetupPy]
  /\ UNCHANGED <<files, repo, egg, rel, dist, cut, count>>

-----------------------------------------------------------------------------

Developer ==
  \/ Edit \/ Configure \/ Commit
  \/ \E t \in Tags : Tag(t)
  \/ \E c \in DOMAIN commits : Checkout(c)

\* The developer may leave it at that, a command may not.
Rest == job.cmd = "none" /\ UNCHANGED vars

Lookup ==
  \/ Require \/ ReadVersionFile \/ GitFails
  \/ GitDescribe \/ GitHead \/ GitCount \/ GitShow

Release ==
  \/ PrintVersion \/ WriteEggInfo \/ MakeReleaseTree \/ BuildPy
  \/ UnlinkRel \/ OpenRel \/ WriteRel
  \/ MakeArchive \/ CMakeBuild

FreezeSteps == UnlinkVf \/ OpenVf \/ WriteShort \/ BuildExe \/ Py2exe \/ OpenLong \/ WriteLong

Setup ==
  \/ ReadConfig \/ WriteSnippet \/ WriteManifest
  \/ OpenAttributes \/ WriteAttributes \/ GitAdd \/ Exit

Next ==
  \/ Developer
  \/ Start \/ Lookup \/ Release \/ FreezeSteps \/ Setup
  \/ End \/ Kill \/ Rest

Spec == Init /\ [][Next]_vars

-----------------------------------------------------------------------------
(* Types *)

Errors == {"none", "not computed", "unable to compute version",
           "tag doesn't start with prefix"}
Versions == [version: VersionString, full: Nat, dirty: {"True", "False", "None"},
             error: Errors]
Content == [kind: {"absent", "torn", "long"}] \union [kind: {"short"}, versions: Versions]
Files == [src: 0..MaxCommits, vf: Content, attr: {"absent", "empty", "marked"}, ini: Nat,
          man: SUBSET {"versioneer.py", "_version.py"}, cfg: {"absent", "sample", "full"}]
Output == [tag: Ref \union {NoTag}, dist: Nat, short: Nat, dirty: BOOLEAN]
Steps == {"idle", "require", "read", "describe", "head", "count", "show", "print",
          "egg", "tree", "unlinkRel", "openRel", "writeRel", "finish",
          "unlink", "open", "write", "freeze", "unlinkShort", "openLong", "writeLong",
          "config", "snippet", "manifest", "manifest2", "attributes", "mark", "add",
          "addAttributes", "scan", "done"}
Job == [cmd: Commands \union {"none"}, at: Steps, quiet: BOOLEAN, seen: SUBSET (1..MaxCommits),
        fresh: BOOLEAN, round: {1, 2}, name: VersionString, ver: Versions, out: Output,
        full: Nat, total: Nat, ok: BOOLEAN]
Dist == [kind: {"sdist", "build"}, files: Files, name: VersionString, ver: Versions,
         quiet: BOOLEAN, fresh: BOOLEAN, source: Content]

\* The type invariant, with what the history keeps: HEAD is a commit, a tag
\* that was given names one, and there is one egg and one release at most.
TypeOK ==
  /\ files \in Files /\ known \subseteq Names
  /\ commits \in Seq(Files) /\ Len(commits) \in 1..MaxCommits
  /\ head \in 1..Len(commits)
  /\ tagged \in [Tags -> 0..Len(commits)]
  /\ egg \subseteq VersionString /\ Cardinality(egg) <= 1
  /\ rel \in [files: Files, linked: BOOLEAN]
  /\ dist \subseteq Dist /\ Cardinality(dist) <= 1
  /\ job \in Job
  /\ todo \in Seq(Commands) /\ breaks \in 0..MaxBreaks /\ cut \subseteq {"_version.py", ".gitattributes"}

-----------------------------------------------------------------------------
(* Properties *)

\* sdist and build never change the developer's files, although the release
\* tree's _version.py, which they replace, may be a hard link to the source's
\* (versioneer.py:1641-1647).
SourceUntouched ==
  [][job.cmd \in {"sdist", "build"} /\ job'.at # job.at => files' = files]_vars

\* Outside the freeze the source tree has its long _version.py, the one that
\* looks a version up, or what HEAD has committed.  Another one, half written or
\* short, was left by a command that was cut, and a later command that freezes
\* and ends puts the long one back, whatever it found (versioneer.py:1569-1586).
SourceFileIsLong ==
  /\ \/ files.vf \in {Long, commits[head].vf}
     \/ InHand
     \/ "_version.py" \in cut
  /\ job.cmd \in {"build_exe", "py2exe"} /\ job.at = "done" /\ job.quiet => files.vf = Long

\* git-describe, rev-parse and rev-list are asked one after the other, and HEAD
\* may move between them (versioneer.py:1040-1101): what each says is about a
\* commit that was HEAD in the course of the lookup, the tag and the distance
\* about the commit whose id stands beside them; all about one if HEAD stood
\* still.
LookupSeesOneCommit ==
  job.at = "show" =>
    /\ {job.out.short, job.full} \subseteq job.seen
    /\ IF job.out.tag = NoTag THEN job.total \in job.seen
       ELSE tagged[job.out.tag] # 0 /\ tagged[job.out.tag] + job.out.dist = job.out.short

\* What commit g holds is in f as it is there, _version.py apart.
Holds(f, g) ==
  /\ f.src = g.src /\ f.ini = g.ini /\ f.cfg = g.cfg
  /\ g.man \in {{}, f.man} /\ g.attr \in {"absent", f.attr}

\* The tags whose text ends in the suffix that a style writes.
Ambiguous(style) ==
  {t \in Tags \cap Prefixed : /\ Stripped[t] \in DOMAIN Suffixed
                              /\ Suffixed[Stripped[t]].form = Form(style)}

\* A release that nobody disturbed has the version its tree says it has.  If
\* the source tree has a short _version.py, committed or left by a command that
\* was cut, the version is the one in there, whatever the files are now.  If
\* not, a version that is the text of a tag means the files of that tag, without
\* local changes; that is, of a tag that does not end like a suffix of Style.
CleanReleaseIsItsTag ==
  \A d \in dist : d.quiet =>
    IF d.source.kind = "short" THEN d.ver = d.source.versions
    ELSE \A t \in (Tags \cap Prefixed) \ Ambiguous(Style) :
           d.ver.error = "none" /\ d.ver.version = Text(Stripped[t])
             => tagged[t] # 0 /\ Holds(d.files, commits[tagged[t]])

\* The name of a release and the version in it are the same: for an sdist,
\* because the command renames the distribution; for a build, if no earlier
\* egg-info or installation answered for setup.py (setup.py:64-67) and the
\* checkout stood still between the two lookups.
ReleaseIsNamedByItsVersion ==
  \A d \in dist : d.kind = "sdist" \/ (d.fresh /\ d.quiet) => d.name = d.ver.version

\* A release says which version it is wherever it is unpacked or installed: in
\* the repository of another project, in a directory of any name, without git.
ReleaseKeepsItsVersion ==
  \A d \in dist, place \in Places :
    /\ SetupVersions(d.files.vf, place) = {d.ver}
    /\ RuntimeVersions(d.files.vf, place) = {d.ver}

\* Two states of the checkout with the same version are the same commit, and
\* both or neither have local changes; pep440-pre leaves the changes out.  It
\* takes tags that are told from no tag at all, whose distance is written behind
\* a "0", a "0+untagged" or nothing, and do not end like a suffix of the style:
\* pep440-old writes distance 1 from v1 as 1.post1, which is what v1.post1 is
\* called (versioneer.py:1248-1354).  (Commands do not write the history: it is
\* looked at while none runs.)
VersionsTellTreesApart ==
  job.cmd = "none" =>
    \A style \in Styles :
      (\A t \in Tags \cap Prefixed :
         tagged[t] # 0 => Stripped[t] \notin {"", "0", "0+untagged"} /\ t \notin Ambiguous(style))
      => \A c, d \in DOMAIN commits, x, y \in BOOLEAN :
           Render(PiecesAt(c, tagged, x), style).version
             = Render(PiecesAt(d, tagged, y), style).version
           => c = d /\ (x = y \/ style = "pep440-pre")

\* git archive of a commit, by a git that marks the tags among the refs or not.
Archive(c, marks) ==
  IF commits[c].attr # "marked" \/ commits[c].vf # Long THEN commits[c].vf
  ELSE Expanded({[name |-> t, tag |-> marks] : t \in {u \in Tags : tagged[u] = c}}
                  \union {[name |-> Branch, tag |-> FALSE] : b \in {Len(commits)} \cap {c}}, c)

\* The matching tags at a commit, and those that are told from its branches.
Here(c) == {t \in Tags \cap Prefixed : tagged[t] = c}
Likely(c, marks) == IF marks THEN Here(c) ELSE Here(c) \cap Digits

\* A branch that keywords without marks cannot tell from a release.
Rival(c, marks) == ~marks /\ c = Len(commits) /\ Branch \in Prefixed \cap Digits

\* Where there is no git to ask, file has for setup.py and for the package the
\* one version v, that of t: what a clean checkout of c has, if describe takes t.
Says(file, t, c) ==
  LET place == [git |-> {}, dirs |-> <<>>, file |-> TRUE]
  IN \E v \in SetupVersions(file, place) :
       /\ SetupVersions(file, place) = {v} /\ RuntimeVersions(file, place) = {v}
       /\ v.version = Text(Stripped[t]) /\ v.full = c
       /\ (\A u \in Here(c) : Preference[u] <= Preference[t])
            => v = Render(PiecesAt(c, tagged, FALSE), Style)

\* An archive that marks _version.py for export-subst has the version of a tag
\* of its commit: of the tags that may be one the first in sorted()
\* (versioneer.py:1001-1017), and if git-describe prefers that one too, it is the
\* version of a clean checkout.  Branches at the commit do not count, whatever
\* they are called, if git marks the tags; if it does not, only a branch that is
\* not called like a release, v and a digit, is told from the tags.
ArchiveKnowsItsTag ==
  job.cmd = "none" => \A c \in DOMAIN commits, marks \in BOOLEAN :
    commits[c].attr = "marked" /\ commits[c].vf = Long /\ ~Rival(c, marks)
      => \A t \in Likely(c, marks) :
           (\A u \in Likely(c, marks) : Rank[t] <= Rank[u]) => Says(Archive(c, marks), t, c)

\* When `versioneer.py setup` exits with 0 everything is in place, and the
\* snippet once, however often it was run and killed before (versioneer.py:1697-1776).
\* git knows the files too, but nobody looks whether `git add` failed, and a
\* .gitattributes that is found marked is not added again, when the run that
\* marked it did not get that far.
SetupIsComplete ==
  job.at = "done" /\ job.ok /\ job.quiet =>
    /\ files.vf = Long /\ files.cfg = "full" /\ files.ini = 1
    /\ files.man = {"versioneer.py", "_version.py"} /\ files.attr = "marked"
    /\ breaks = 0 => {"_version.py", "MANIFEST.in"} \subseteq known
    /\ ".gitattributes" \in known \union cut

\* _version.py:3-6: "Distribution tarballs (built by setup.py sdist) and build
\* directories (produced by setup.py build) will contain a much shorter file
\* that just contains the computed version number."
DistributionHasShortFile == \A d \in dist : d.files.vf.kind = "short"
=============================================================================

---------------------------- MODULE VersioneerInv ----------------------------
(***************************************************************************)
(* The inductive invariant of Versioneer, in named parts.                  *)
(***************************************************************************)
EXTENDS Versioneer

GitSteps == {"describe", "head", "count", "show"}
LookupSteps == GitSteps \union {"require", "read"}
NamedSteps == {"tree", "unlinkRel", "openRel", "writeRel", "finish"}
ReleaseSteps == NamedSteps \union {"egg"}
ShortSteps == {"unlink", "open", "write", "freeze", "unlinkShort"}
LongSteps == {"openLong", "writeLong"}
AddSteps == {"add", "addAttributes"}
AttributeSteps == AddSteps \union {"attributes", "mark"}
ManifestSteps == AttributeSteps \union {"manifest", "manifest2"}

\* Which command may be at which step.
Placed(cmd, at) ==
  /\ at = "idle" <=> cmd = "none"
  /\ at \in LookupSteps => cmd \notin {"none", "setup"}
  /\ at \in ReleaseSteps => cmd \in {"sdist", "build"}
  /\ at = "egg" => cmd = "sdist"
  /\ at \in ShortSteps => cmd \in {"build_exe", "py2exe"}
  /\ at \in LongSteps => cmd \in {"build_exe", "py2exe", "setup"}
  /\ at \in ManifestSteps \union {"config", "snippet", "scan"} => cmd = "setup"
  /\ at = "print" => cmd = "version"

PlaceInv == Placed(job.cmd, job.at)

\* Between unlink() and the last write the copy is a file of its own.
LinkInv == job.at \in {"openRel", "writeRel"} => ~rel.linked

\* What HEAD has committed git knows, and a file that it does not know is nobody's.
LongInv ==
  /\ SourceFileIsLong
  /\ Present(commits[head]) \subseteq known

\* What the calls to git have said so far is about commits that were HEAD.
LookupInv ==
  LET describe == /\ job.out.short \in job.seen
                  /\ job.out.tag # NoTag =>
                       /\ job.out.tag \in Tags /\ tagged[job.out.tag] # 0
                       /\ tagged[job.out.tag] + job.out.dist = job.out.short
  IN /\ job.at \in {"head", "count", "show"} => head \in job.seen /\ describe
     /\ job.at \in {"count", "show"} => job.full \in job.seen
     /\ job.at = "show" /\ job.out.tag = NoTag => job.total \in job.seen

\* The answer of a lookup while nothing changes.
Current ==
  IF files.vf.kind = "short" THEN files.vf.versions
  ELSE Render(PiecesAt(head, tagged, IsDirty), Style)

\* Both lookups of a quiet release have that answer.
NameInv ==
  /\ job.cmd \in {"sdist", "build"} /\ job.quiet =>
       /\ job.at \in GitSteps => files.vf.kind # "short"
       /\ job.at \in {"head", "count", "show"} => job.out = Describe(head, tagged, IsDirty)
       /\ job.at \in {"count", "show"} => job.full = head
       /\ job.at = "show" /\ job.out.tag = NoTag => job.total = head
       /\ job.at \in LookupSteps /\ job.round = 2 /\ job.fresh => job.name = Current.version
       /\ job.at \in ReleaseSteps /\ job.fresh => job.name = job.ver.version
  /\ job.at = "require" => job.round = 1 /\ (job.fresh => egg = {})
  /\ job.cmd = "sdist" /\ job.at \in NamedSteps => job.name = job.ver.version

ShortInv ==
  /\ job.at = "finish" => rel.files.vf = Short(job.ver)
  /\ \A d \in dist : d.files.vf = Short(d.ver)

\* git is told of a marked .gitattributes, or was not by the run that marked it.
AttrInv ==
  files.attr = "marked" => ".gitattributes" \in known \union cut \/ job.at = "addAttributes"

SetupInv ==
  /\ files.ini \in {0, 1} /\ \A c \in DOMAIN commits : commits[c].ini \in {0, 1}
  /\ job.ok => job.cmd = "setup" /\ job.at \in {"scan", "done"}
  /\ job.cmd = "setup" /\ job.quiet =>
       LET done == job.at \in {"scan", "done"} /\ job.ok IN
       /\ job.at \in LongSteps \union ManifestSteps \union {"snippet"} \/ done
            => files.cfg = "full"
       /\ job.at \in ManifestSteps \union {"snippet"} \/ done => files.vf = Long
       /\ job.at \in ManifestSteps \/ done => files.ini = 1
       /\ job.at \in AttributeSteps \union {"manifest2"} \/ done => "versioneer.py" \in files.man
       /\ job.at \in AttributeSteps \/ done => "_version.py" \in files.man
       /\ job.at \in AddSteps \/ done => files.attr = "marked"
       /\ done /\ breaks = 0 => {"_version.py", "MANIFEST.in"} \subseteq known
=============================================================================

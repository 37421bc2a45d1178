------------------------------ MODULE KeyNaming ------------------------------
(***************************************************************************)
(* The local names of a job's transformed file.  Three pieces of code      *)
(* derive one from the raw key raw/<user>-<uuid>-<filename>: TransformImage *)
(* writes the file, ProcessMessage names what UploadtoS3Object reads, and  *)
(* RemoveLocalProcessed removes it.                                        *)
(*                                                                         *)
(* What follows raw/ is a sequence of segments between slashes, and a      *)
(* segment the sequence of its parts between dots.                         *)
(***************************************************************************)
EXTENDS SequencesExt

\* What TransformImageDto lets through; FORMAT is optional there, but without
\* one a CONVERT fails before it writes a file.
Types == {"ROTATE", "RESIZE", "FORCE_RESIZE", "CONVERT"}
Lower == [PNG |-> "png", JPEG |-> "jpeg", GIF |-> "gif", BMP |-> "bmp", TIFF |-> "tiff"]
Formats == DOMAIN Lower

\* Jobs whose transformation can succeed: CONVERT refuses a name without a dot.
Segment == Seq(STRING) \ {<<>>}
Transformable ==
  {u \in [type : Types, format : Formats, key : Seq(Segment) \ {<<>>}] :
     u.type = "CONVERT" => Len(u.key[1]) > 1}

\* Where TransformImage writes: a CONVERT keeps what precedes the first dot.
Written(u) ==
  <<IF u.type = "CONVERT" THEN <<u.key[1][1], Lower[u.format]>> ELSE u.key[1]>>

\* Where ProcessMessage lets UploadtoS3Object read: a CONVERT keeps what
\* precedes the last dot, and the format as given.
Uploaded(u) ==
  <<IF u.type = "CONVERT" THEN Append(Front(u.key[1]), u.format) ELSE u.key[1]>>

\* What RemoveLocalProcessed removes.
Removed(u) == u.key

\* Two names are one file; on a disk that ignores case only the formats differ
\* by it.
LowerCased(part) == IF part \in Formats THEN Lower[part] ELSE part
Folded(name) == [s \in DOMAIN name |-> [p \in DOMAIN name[s] |-> LowerCased(name[s][p])]]
SameFile(a, b, sensitive) == IF sensitive THEN a = b ELSE Folded(a) = Folded(b)

\* The jobs whose upload does not find, whose cleanup does not remove the file.
NotFound(jobs, sensitive) == {u \in jobs : ~ SameFile(Uploaded(u), Written(u), sensitive)}
NotRemoved(jobs, sensitive) == {u \in jobs : ~ SameFile(Removed(u), Written(u), sensitive)}
=============================================================================

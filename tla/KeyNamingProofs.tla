--------------------------- MODULE KeyNamingProofs ---------------------------
(* What the three names of KeyNaming come to, for all uploads. *)
EXTENDS KeyNaming, TLAPS

\* A CONVERT's two names differ in their last part: the format as given and the
\* same in lower case (transform.go:66 and service.go:209).
LEMMA ConvertNamesDiffer ==
  ASSUME NEW u \in Transformable, u.type = "CONVERT"
  PROVE  Uploaded(u) # Written(u)
<1> DEFINE s == u.key[1]
           f == u.format
<1>1. s \in Seq(STRING) /\ Len(s) > 1 /\ f \in Formats
  BY DEF Transformable, Segment
<1>2. Front(s) \in Seq(STRING \cup Formats) /\ Len(Front(s)) = Len(s) - 1
  BY <1>1 DEF Front
<1>3. f # Lower[f]
  BY <1>1 DEF Formats, Lower
<1>4. SUFFICES ASSUME Append(Front(s), f) = <<s[1], Lower[f]>> PROVE FALSE
  BY DEF Uploaded, Written
<1>5. Len(Append(Front(s), f)) = 2 /\ Append(Front(s), f)[2] = Lower[f]
  BY <1>4
<1>6. Append(Front(s), f)[2] = f
  BY <1>1, <1>2, <1>5
<1> QED BY <1>3, <1>5, <1>6

\* On a disk that tells upper from lower case, as the worker's image has it, the
\* upload misses exactly the files of the CONVERT jobs, every one of them.
THEOREM UploadMissesEveryConvert ==
  ASSUME NEW jobs \in SUBSET Transformable
  PROVE  NotFound(jobs, TRUE) = {u \in jobs : u.type = "CONVERT"}
<1>1. ASSUME NEW u \in jobs, u.type # "CONVERT" PROVE Uploaded(u) = Written(u)
  BY <1>1 DEF Uploaded, Written
<1> QED BY <1>1, ConvertNamesDiffer DEF NotFound, SameFile

\* Other jobs are found and removed on every disk, if their filename has no slash.
THEOREM OthersFoundAndRemoved ==
  ASSUME NEW jobs \in SUBSET Transformable, NEW sensitive \in BOOLEAN,
         NEW u \in jobs, u.type # "CONVERT", Len(u.key) = 1
  PROVE  u \notin NotFound(jobs, sensitive) \cup NotRemoved(jobs, sensitive)
<1>1. Uploaded(u) = Written(u)
  BY DEF Uploaded, Written
<1>2. Removed(u) = Written(u)
  BY DEF Removed, Written, Transformable
<1> QED BY <1>1, <1>2 DEF NotFound, NotRemoved, SameFile

\* On the worker image's disk RemoveLocalProcessed leaves no file behind but
\* those of jobs whose upload fails, if filenames of other jobs than CONVERT have no
\* slash: the hypothesis of WorkerPoolProofs!SuccessLeavesNothing.
THEOREM UnsweptAreMisnamed ==
  ASSUME NEW jobs \in SUBSET Transformable,
         \A u \in jobs : u.type # "CONVERT" => Len(u.key) = 1
  PROVE  NotRemoved(jobs, TRUE) \subseteq NotFound(jobs, TRUE)
<1> SUFFICES ASSUME NEW u \in NotRemoved(jobs, TRUE) PROVE u \in NotFound(jobs, TRUE)
  OBVIOUS
<1>1. u \in jobs
  BY DEF NotRemoved
<1>2. u.type = "CONVERT"
  BY <1>1, OthersFoundAndRemoved
<1> QED BY <1>1, <1>2, UploadMissesEveryConvert
=============================================================================

------------------------------ MODULE Boundary -------------------------------
(***************************************************************************)
(* What stops a walk at a directory (judged-core/src/boundary.rs): the     *)
(* directory belongs to another repository, or it cannot be told.  marks   *)
(* is what lstat says of its markers: "none" for NotFound, "error" for any *)
(* other failure, otherwise the type; first is how its HEAD begins.        *)
(***************************************************************************)
bare_repository(marks) ==
  IF marks.HEAD = "error" THEN "Unreadable"
  ELSE IF marks.HEAD # "file" \/ marks.objects # "dir" \/ marks.refs # "dir"
    THEN "None"
  ELSE IF marks.first = "error" THEN "Unreadable"
  ELSE IF marks.first \in {"ref: ", "object id"} THEN "Bare"
  ELSE "None"

classify(marks) ==
  CASE marks.git = "dir"   -> "NestedClone"
    [] marks.git \in {"file", "link"} -> "GitFile"
    [] marks.git = "error" -> "Unreadable"
    [] marks.git = "none"  -> bare_repository(marks)

(* Mutant: only a directory called .git stops the walk.                    *)
stops_at_clones(boundary) == boundary = "NestedClone"

stops_the_walk(boundary) == boundary # "None"

(* The markers of an ordinary directory.                                   *)
NoMarks == [git |-> "none", HEAD |-> "none", objects |-> "none",
            refs |-> "none", first |-> "none"]
=============================================================================

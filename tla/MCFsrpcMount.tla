----------------------------- MODULE MCFsrpcMount -----------------------------
(* Instances of FsrpcMount for TLC. *)
EXTENDS FsrpcMount

\* Directory 1 holding file 1.
SmallTree ==
  [p \in Paths |->
     CASE p = Root     -> [kind |-> "dir", obj |-> 1]
       [] p = <<1>>    -> [kind |-> "dir", obj |-> 2]
       [] p = <<1, 1>> -> [kind |-> "file", obj |-> 3]
       [] OTHER        -> Absent]

NamesAndDotDot == Names \cup {DotDot}

\* No flag, one without an access mode, and one with it.
SomeFlags == {{}, {"TRUNC"}, {"RDWR", "APPEND"}}
=============================================================================

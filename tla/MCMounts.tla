------------------------------ MODULE MCMounts ------------------------------
(* In a directory that a tmpfs or a read-only bind covers, with what is     *)
(* mounted in its source: a file bound writable and read-only.             *)
EXTENDS Mounts

CONSTANTS t1, b1, f1, f2, dir, file, s1, s2, s3, own

MCObj == {t1, b1, f1, f2}
MCDest == {dir, file}
MCBelow == {<<file, dir>>}
MCTree == {s1, s2, s3, own}
MCKind == [o \in MCObj |->
  CASE o \in {f1, f2} -> "file" [] o = b1 -> "dir" [] OTHER -> "tmpfs"]
MCDestOf == [o \in MCObj |-> IF o \in {t1, b1} THEN dir ELSE file]
MCSourceOf == [o \in MCObj |->
  CASE o = t1 -> own [] o = b1 -> s1 [] o = f1 -> s2 [] o = f2 -> s3]
MCInside == [t \in MCTree |-> IF t = s1 THEN {s2} ELSE {}]

SomeWritable == {f1}
AllFaults == {"setup", "mount", "remount"}
=============================================================================

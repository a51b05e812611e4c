------------------------------ MODULE MCCommit ------------------------------
(***************************************************************************)
(* Rows of the decode tables (dj_decode_table.inc), one of every shape     *)
(* that the flags tell apart, on two slots with two entries of each        *)
(* channel machine.  Three transactions come, one after the other in a     *)
(* slot or side by side; the rows of Beside use both decoders and every    *)
(* machine.                                                                *)
(***************************************************************************)
EXTENDS Commit

\* Reads: a hit in LLC, sent by the front end or by the commit; memory that
\* sends to the requester; memory that sends to the home node, half a line.
HitSent   == [NoPlan EXCEPT !.op = "data", !.rsp = "DAT", !.ack = TRUE, !.dir = TRUE, !.alr = "data"]
HitLLC    == [NoPlan EXCEPT !.op = "data", !.rsp = "DAT", !.ack = TRUE, !.dir = TRUE]
ReadDMT   == [NoPlan EXCEPT !.t1 = "Rd", !.ack = TRUE, !.dir = TRUE]
ReadHome  == [NoPlan EXCEPT !.t1 = "Rd", !.db1 = TRUE, !.op = "data", !.dir = TRUE, !.rsp = "DAT",
                            !.ack = TRUE, !.vec = {0}]

\* Snoops: the owner forwards and its data is kept until LLC has a way; the
\* owner forwards and memory is written; the owner has nothing and memory is
\* read, for the requester or for the home node.
SnpKeep   == [NoPlan EXCEPT !.t1 = "Snp", !.db1 = TRUE, !.op = "keep", !.dir = TRUE, !.ack = TRUE]
SnpWrite  == [NoPlan EXCEPT !.t1 = "Snp", !.db1 = TRUE, !.t2 = "Wr", !.ack = TRUE, !.dir = TRUE]
SnpRead   == [NoPlan EXCEPT !.t1 = "Snp", !.db1 = TRUE, !.t2 = "Rd", !.dir = TRUE, !.ack = TRUE]
SnpReadHome ==
  [NoPlan EXCEPT !.t1 = "Snp", !.db1 = TRUE, !.t2 = "Rd", !.wait = TRUE, !.db2 = TRUE, !.op = "data",
                 !.dir = TRUE, !.rsp = "DAT", !.ack = TRUE]

\* Writes: ordered, its buffer id sent by the front end; of half a line with
\* a snoop before it goes to memory; a write back.
WriteSent == [NoPlan EXCEPT !.dbid = TRUE, !.db1 = TRUE, !.op = "data", !.dir = TRUE, !.rsp = "RSP",
                            !.ack = TRUE, !.alr = "dbid"]
SnpWriteHalf ==
  [NoPlan EXCEPT !.t1 = "Snp", !.dbid = TRUE, !.db1 = TRUE, !.t2 = "Wr", !.wait = TRUE, !.dir = TRUE,
                 !.rsp = "RSP", !.vec = {1}]
WriteBack ==
  [NoPlan EXCEPT !.dbid = TRUE, !.db1 = TRUE, !.copy = TRUE, !.op = "data", !.dir = TRUE, !.ack = TRUE]

NoData    == [NoPlan EXCEPT !.rsp = "RSP", !.dir = TRUE, !.ack = TRUE]

MCBeside == {SnpReadHome, SnpWriteHalf}
MCPlans  == MCBeside \cup
  {HitSent, HitLLC, ReadDMT, ReadHome, SnpKeep, SnpWrite, SnpRead, WriteSent, WriteBack, NoData}
=============================================================================

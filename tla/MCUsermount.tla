----------------------------- MODULE MCUsermount -----------------------------
(* Small instances of Usermount.                                           *)
EXTENDS Usermount

Line(dir, dev, type, users, owner) ==
    [dir |-> dir, dev |-> dev, type |-> type, users |-> users, owner |-> owner]

\* Two lines for the floppy, a disk with a type of its own, one only for its
\* owner, one only for root, and lines that are passed over; nothing at all.
MCFstabs ==
    {<<Line("fine", "fd0", "auto", TRUE, FALSE),
       Line("fine", "fd0", "auto", TRUE, FALSE),
       Line("fine", "sdb", "ext2", TRUE, FALSE),
       Line("fine", "sdc", "auto", FALSE, TRUE),
       Line("fine", "sda", "ext2", FALSE, FALSE),
       Line("missing", "sdc", "auto", TRUE, FALSE),
       Line("bogus", "sda", "swap", TRUE, FALSE)>>,
     <<Line("bogus", "sda", "swap", TRUE, FALSE)>>}

MCPrograms == {"/mkfs.ext2", "/mkfs.vfat"}
=============================================================================

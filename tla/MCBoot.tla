-------------------------------- MODULE MCBoot --------------------------------
(***************************************************************************)
(* Boot on volumes with a root directory of two sectors of two entries, and  *)
(* files of up to four clusters, in order, backwards or interleaved.        *)
(***************************************************************************)
EXTENDS Boot

Eoc == 4095

MCDrive == [sectors |-> 3, heads |-> 2]
MCGeometries == {MCDrive, [sectors |-> 2, heads |-> 2], [sectors |-> 4, heads |-> 2]}

(* roots with everything in place, with the kernel or the module far back,   *)
(* and with a file missing                                                  *)
Roots == {<<"kernel", "userland", "stage2", "free">>, <<"userland", "stage2", "kernel", "free">>,
          <<"stage2", "kernel", "free", "userland">>, <<"stage2", "free", "free", "kernel">>,
          <<"kernel", "free", "userland", "free">>}

(* chains as sequences of clusters; stage2 has 2 and 6 *)
Chains == {[kernel |-> <<3, 4, 5, 8>>, userland |-> <<7, 9, 10>>],
           [kernel |-> <<9, 8, 4, 3>>, userland |-> <<10, 5, 7>>],
           [kernel |-> <<3, 5, 8, 10>>, userland |-> <<4, 7, 9>>]}

Clusters(size) == (size + Sector - 1) \div Sector
Pick(c, ks, us) ==
  [n \in {"kernel", "userland", "stage2"} |->
     CASE n = "kernel" -> SubSeq(c.kernel, 1, Clusters(ks))
       [] n = "userland" -> SubSeq(c.userland, 1, Clusters(us))
       [] OTHER -> <<2, 6>>]
Link(chain) == [c \in ToSet(chain) |->
                  LET i == CHOOSE j \in DOMAIN chain : chain[j] = c
                  IN  IF i = Len(chain) THEN Eoc ELSE chain[i + 1]]
Volume(r, c, ks, us) ==
  LET p == Pick(c, ks, us)
  IN  [root |-> r, first |-> [n \in DOMAIN p |-> p[n][1]],
       size |-> [n \in DOMAIN p |-> CASE n = "kernel" -> ks [] n = "userland" -> us [] OTHER -> 3],
       fat |-> [c2 \in UNION {ToSet(p[n]) : n \in DOMAIN p} |->
                  LET n == CHOOSE m \in DOMAIN p : c2 \in ToSet(p[m]) IN Link(p[n])[c2]]]

MCVolumes == {Volume(r, c, ks, us) : r \in Roots, c \in Chains, ks \in {1, 4, 5, 7}, us \in {2, 3, 5}}

(* a block that is dropped, usable or not; one that is not; more memory than  *)
(* the count holds; a BIOS without the call                                 *)
Block(t, n) == [type |-> t, len |-> n]
MCBiosMaps == {[blocks |-> <<Block("usable", 2), Block("reserved", 1), Block("usable", 4), Block("reserved", 1)>>, end |-> "zero"],
               [blocks |-> <<Block("usable", 2), Block("reserved", 1), Block("usable", 4)>>, end |-> "zero"],
               [blocks |-> <<Block("reserved", 2), Block("usable", 3), Block("usable", 2)>>, end |-> "error"],
               [blocks |-> <<Block("usable", 5), Block("usable", 6), Block("reserved", 1)>>, end |-> "zero"],
               [blocks |-> <<>>, end |-> "error"]}
=============================================================================

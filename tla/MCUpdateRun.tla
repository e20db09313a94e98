----------------------------- MODULE MCUpdateRun -----------------------------
(* Five releases: 1 and 2 of the first format, 3 the last one of it, which says it is  *)
(* release 4 and belongs to the second format, 4 with the same content as 3, and 5.    *)
EXTENDS UpdateRun, TLC

MCFileOrder == <<"bin", "release", "format", "share">>

Entry(hash, change) == [hash |-> hash, change |-> change]
Release(listed, signed, bin, release, format, share) ==
  [listed |-> listed, signed |-> signed,
   files |-> [bin |-> bin, release |-> release, format |-> format, share |-> share]]

Sound == <<
  Release(1, "main", Entry(1, 1), Entry(1, 1), Entry(1, 1), Entry(1, 1)),
  Release(1, "main", Entry(1, 2), Entry(2, 2), Entry(1, 1), Entry(2, 2)),
  Release(1, "alt",  Entry(3, 3), Entry(4, 3), Entry(2, 3), Entry(2, 2)),
  Release(2, "alt",  Entry(3, 3), Entry(4, 3), Entry(2, 3), Entry(2, 2)),
  Release(2, "main", Entry(5, 5), Entry(5, 5), Entry(2, 3), Entry(0, 0)) >>

\* Release 2 without an os-release of its own.
Botched == [Sound EXCEPT ![2].files.release = Entry(1, 1)]

Option(incremental, requested, download, keepcache) ==
  [incremental |-> incremental, requested |-> requested, download |-> download,
   keepcache |-> keepcache]
MCOptions == {Option(FALSE, 0, FALSE, FALSE), Option(TRUE, 0, FALSE, TRUE),
              Option(FALSE, 2, FALSE, FALSE), Option(FALSE, 5, FALSE, FALSE),
              Option(FALSE, 0, TRUE, TRUE)}

World(releases, up, behind, files, wrong, with, bound) ==
  [catalog |-> releases, published |-> [upstream |-> up, mirror |-> behind], etc |-> files,
   altered |-> wrong, certs |-> with, troubles |-> bound]
Both == {"version", "content"}
Certs == {"main", "alt"}
MCWorlds == {World(Sound, 5, 2, Both, {"bin"}, Certs, 2), World(Sound, 5, 4, Both, {}, Certs, 1),
             World(Sound, 2, 1, {"version"}, {}, Certs, 1),
             World(Sound, 5, 1, {}, {}, {"main"}, 1), World(Botched, 5, 1, {}, {}, Certs, 1)}

\* These releases follow one another as the proofs ask of them.
ASSUME MCReleases == \A w \in Worlds : FormatsFollow(w.catalog)
=============================================================================

----------------------------- MODULE MCTileCache -----------------------------
(* Instances of PersistentCacheTileDataSource for TLC: two tiles, an index *)
(* that holds one or both, one map thread beside the download thread.      *)
EXTENDS PersistentCacheTileDataSource

CONSTANTS t1, t2, r1

TwoTiles == {t1, t2}
OneReader == {r1}
AreaOfBoth == {<<t1, t2>>}
SmallCapacities == {1, 2}
=============================================================================

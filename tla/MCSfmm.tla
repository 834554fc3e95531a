------------------------------ MODULE MCSfmm ------------------------------
EXTENDS SfmmProperties, TLC
Max3 == 0 :> 4 @@ 1 :> 6 @@ 2 :> 10

\* All of the memory, nothing, all but the headers of new pages.
MCClean == {Rows, {}, {a \in Rows : a % PageSize # 0}}
=============================================================================

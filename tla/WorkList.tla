------------------------------ MODULE WorkList ------------------------------
(***************************************************************************)
(* Img::WorkList: the worker's loaders in order of priority, which of them *)
(* is loaded next, and which are given up when the list of requests or the *)
(* memory limit changes.                                                   *)
(***************************************************************************)
EXTENDS ImageLoader

IsLoad(p) == GetState(p) < LoadStateDone        \* Operation() = WOLoadImage

\* The sum of the first n of a sequence of numbers.
Total(numbers, n) ==
    LET total[k \in 0..n] == IF k = 0 THEN 0 ELSE total[k - 1] + numbers[k]
    IN  total[n]

MemoryUsage(packages) == [k \in DOMAIN packages |-> MemoryRequirements(packages[k])]

\* The estimates of the packages that come before position k.
UsedBefore(packages, k) == Total(MemoryUsage(packages), k - 1)

\* Mutant: "at least ONE image" is not attempted beyond the limit.
SuitableStrictly(p, used, limit, fastPass) ==
    /\ IsLoad(p)
    /\ \/ p.state = "Unprocessed"
       \/ /\ fastPass => ~FastPassFinished(p)
          /\ used + MemoryRequirements(p) < limit

\* SuitableWorkPackage: whether to work on p when the packages before it need
\* `used`. A header is always loaded, and so is the first image that needs any
\* memory; the others only within the limit.
SuitableWorkPackage(p, used, limit, fastPass) ==
    /\ IsLoad(p)
    /\ \/ p.state = "Unprocessed"
       \/ used = 0
       \/ /\ fastPass => ~FastPassFinished(p)
          /\ used + MemoryRequirements(p) < limit

\* The positions ScanForPackage would stop at; it stops at the first.
Suitable(packages, limit, fastPass) ==
    {k \in DOMAIN packages :
        SuitableWorkPackage(packages[k], UsedBefore(packages, k), limit, fastPass)}

FirstOf(positions) == CHOOSE k \in positions : \A j \in positions : k <= j

\* FetchPackage: the image to work on, or NoImage. The fast pass goes first.
FetchPackage(packages, limit) ==
    LET fast == Suitable(packages, limit, TRUE)
        any  == Suitable(packages, limit, FALSE)
    IN  CASE fast # {} -> packages[FirstOf(fast)].image
          [] fast = {} /\ any # {} -> packages[FirstOf(any)].image
          [] OTHER -> NoImage

-----------------------------------------------------------------------------
(* Rebuild.                                                                *)

\* The package that already works on the requested image, or a new one.
PackageFor(packages, request) ==
    IF request.image \in ImagesOf(packages)
    THEN packages[CHOOSE k \in DOMAIN packages : packages[k].image = request.image]
    ELSE NewLoader(request.image, request.filename)

\* The requests for an image: null requests are skipped.
NonNull(requests) ==
    LET wanted[k \in 0..Len(requests)] ==
            IF k = 0 THEN <<>>
            ELSE IF requests[k].image = NoImage THEN wanted[k - 1]
            ELSE Append(wanted[k - 1], requests[k])
    IN  wanted[Len(requests)]

\* The packages for a list of requests, in its order.
Adopt(packages, requests) ==
    LET wanted == NonNull(requests)
    IN  [k \in DOMAIN wanted |-> PackageFor(packages, wanted[k])]

HoldsData(p) == ~IsLoad(p) \/ GetState(p) >= LoadStateLoading

\* Mutant: the first package is evicted like any other.
EvictedFirst(packages, k, used, limit) ==
    HoldsData(packages[k]) /\ used + MemoryRequirements(packages[k]) > limit

\* Mutant: the package itself is not counted.
EvictedLate(packages, k, used, limit) ==
    HoldsData(packages[k]) /\ k > 1 /\ used > limit

\* Whether the eviction pass deallocates the package at position k, when the
\* ones kept before it need `used`: never the first, whatever it needs.
Evicted(packages, k, used, limit) ==
    /\ HoldsData(packages[k])
    /\ k > 1
    /\ used + MemoryRequirements(packages[k]) > limit

\* What a package counts in the eviction pass.
HeldBy(p) == IF HoldsData(p) THEN MemoryRequirements(p) ELSE 0

\* The memory of the packages up to each position that the pass keeps.
KeptMemory(packages, limit) ==
    LET kept[k \in 0..Len(packages)] ==
            IF k = 0 THEN 0
            ELSE LET used == kept[k - 1]
                 IN  used + (IF Evicted(packages, k, used, limit) THEN 0
                             ELSE HeldBy(packages[k]))
    IN  kept

\* Only the image in front may skip its fast pass.
AllowFastSkip(packages) ==
    [k \in DOMAIN packages |-> [packages[k] EXCEPT !.maySkipFast = (k = 1)]]

Rebuild(packages, requests, limit) ==
    LET adopted == AllowFastSkip(Adopt(packages, requests))
        kept    == KeptMemory(adopted, limit)
    IN  [k \in DOMAIN adopted |->
            IF Evicted(adopted, k, kept[k - 1], limit) THEN Purge(adopted[k]) ELSE adopted[k]]

\* The images Rebuild deallocates: those dropped, and those it evicts.
Deallocated(packages, rebuilt) ==
    {packages[k].image : k \in {j \in DOMAIN packages :
        \A n \in DOMAIN rebuilt :
            rebuilt[n].image = packages[j].image =>
                rebuilt[n].state = "Unprocessed" /\ packages[j].state # "Unprocessed"}}

=============================================================================

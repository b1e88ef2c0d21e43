---------------------------- MODULE NoelleLoops ----------------------------
(***************************************************************************)
(* The loops that Noelle hands to a pass: those of the functions reachable *)
(* from main that the profile finds hot and INDEX_FILE, when given, keeps. *)
(* A file is <<>> when there is none, or a sequence of                     *)
(* [cores, disabled, chunk] records, one per loop in the order of the      *)
(* program; loopThreads, techniquesToDisable and DOALLChunkSize are read   *)
(* from it once.                                                           *)
(***************************************************************************)
EXTENDS StayConnectedNestedLoopForest

(* Noelle::getModuleFunctionsReachableFrom.                                *)
FunctionsReachableFrom(p, fs) ==
  LET callees(f) == {p.call[b] : b \in {c \in ToSet(p.body[f]) : Calls(p, c)}}
      within[k \in 0 .. Cardinality(Functions(p))] ==
        IF k = 0 THEN fs
        ELSE LET r == within[k - 1]
             IN r \union UNION {callees(f) : f \in r}
  IN within[Cardinality(Functions(p))]

getModuleFunctionsReachableFrom(p, start) ==
  Functions(p) \intersect FunctionsReachableFrom(p, {start})

isLoopHot(p, h, l, minimumHotness) ==
  isAvailable(h) => CoversAtLeast(h, getTotalInstructions(p, h, l), minimumHotness)

isFunctionHot(p, h, f, minimumHotness) ==
  isAvailable(h) => CoversAtLeast(h, h.function[f], minimumHotness)

(* The order in which the loops are counted: function by function as the   *)
(* module has them, in a function as LLVM's getLoopsInPreorder lists them, *)
(* an outer loop before the loops inside it.                               *)
PositionIn(s, x) == CHOOSE n \in DOMAIN s : s[n] = x
LoopsInPreorder(p, k, l) ==
  LET f == LoopFunction(p, k)
      g == LoopFunction(p, l)
  IN \/ PositionIn(p.functions, f) < PositionIn(p.functions, g)
     \/ /\ f = g
        /\ PositionIn(p.body[f], p.loops[k].header) < PositionIn(p.body[f], p.loops[l].header)

(* The loops that are counted: those of the hot functions.  One without a  *)
(* body has none.                                                          *)
LoopsToCount(p, h, minimumHotness) ==
  {l \in DOMAIN p.loops :
     /\ LoopFunction(p, l) \in getModuleFunctionsReachableFrom(p, Main)
     /\ isFunctionHot(p, h, LoopFunction(p, l), minimumHotness)}

CountedLoops(p, h, minimumHotness) ==
  LET loops == LoopsToCount(p, h, minimumHotness)
      before(l) == {k \in loops : LoopsInPreorder(p, k, l)}
  IN [n \in 1 .. Cardinality(loops) |-> CHOOSE l \in loops : Cardinality(before(l)) = n - 1]

(* Noelle::checkToGetLoopFilteringInfo: whether to filter.                 *)
checkToGetLoopFilteringInfo(file, hasReadFilterFile) == file # <<>> /\ ~hasReadFilterFile

loopThreads(file, n) == IF file[n].cores >= 2 THEN file[n].cores ELSE 1

(* Noelle::getLoopStructures: the loops and their indices.                 *)
getLoopStructures(p, h, minimumHotness, file, hasReadFilterFile) ==
  LET counted == CountedLoops(p, h, minimumHotness)
      filterLoops == checkToGetLoopFilteringInfo(file, hasReadFilterFile)
      kept == {n \in DOMAIN counted :
                 /\ isLoopHot(p, h, counted[n], minimumHotness)
                 /\ filterLoops => loopThreads(file, n) > 1}
  IN [l \in {counted[n] : n \in kept} |-> CHOOSE n \in kept : counted[n] = l]

(* Noelle::getLoops: the loops that get a dependence graph of their own.   *)
getLoops(p, h, minimumHotness, file, hasReadFilterFile) ==
  LET counted == CountedLoops(p, h, minimumHotness)
      filterLoops == checkToGetLoopFilteringInfo(file, hasReadFilterFile)
  IN {counted[n] : n \in {m \in DOMAIN counted :
                            /\ isLoopHot(p, h, counted[m], minimumHotness)
                            /\ ~filterLoops \/ loopThreads(file, m) > 1}}

(* Noelle::getLoopStructures and Noelle::getLoops of a function.           *)
getLoopStructuresOf(p, h, f, minimumHotness) ==
  {l \in DOMAIN p.loops : LoopFunction(p, l) = f /\ isLoopHot(p, h, l, minimumHotness)}

getLoopsOf(p, h, f, minimumHotness) ==
  {l \in getLoopStructuresOf(p, h, f, minimumHotness) : isFunctionHot(p, h, f, minimumHotness)}

(* Mutant: loops that the file drops are counted.                          *)
NumberOfAllLoops(p, h, minimumHotness, file, hasReadFilterFile) ==
  Len(CountedLoops(p, h, minimumHotness))

(* Noelle::getNumberOfProgramLoops.                                        *)
getNumberOfProgramLoops(p, h, minimumHotness, file, hasReadFilterFile) ==
  LET counted == CountedLoops(p, h, minimumHotness)
      filterLoops == checkToGetLoopFilteringInfo(file, hasReadFilterFile)
  IN Sum(LAMBDA n : IF isLoopHot(p, h, counted[n], minimumHotness)
                       /\ (filterLoops => loopThreads(file, n) > 1) THEN 1 ELSE 0,
         DOMAIN counted)

Techniques == {"DOALL", "HELIX", "DSWP"}

(* Noelle::getLoopDependenceInfoForLoop: the techniques that the line of a *)
(* loop leaves enabled, and the chunk of DOALL.                            *)
TechniquesToDisable ==
  [n \in 0 .. 6 |-> <<{}, {"DSWP"}, {"HELIX"}, {"DOALL"}, {"DSWP", "HELIX"},
                      {"DSWP", "DOALL"}, {"HELIX", "DOALL"}>>[n + 1]]

getLoopDependenceInfoForLoop(line) ==
  [maxCores |-> IF line.cores >= 2 THEN line.cores ELSE 1,
   enabled |-> Techniques \ TechniquesToDisable[IF line.cores >= 2 THEN line.disabled ELSE 0]]

(* Noelle::getLoop of a loop with an index.                                *)
getLoop(file, hasReadFilterFile, index, maximumNumberOfCores) ==
  IF ~hasReadFilterFile THEN [maxCores |-> maximumNumberOfCores, enabled |-> Techniques]
  ELSE getLoopDependenceInfoForLoop(file[index])
=============================================================================

------------------------------- MODULE RocRefs -------------------------------
(***************************************************************************)
(* Who owns the memory that Roc code and the host hand each other. A task  *)
(* makes one hosted call after another; the arguments are the host's to    *)
(* release, the result is the task's. Another thread (the "peer") stands   *)
(* for every other holder: a copy of an argument some other task keeps, a  *)
(* closure the host has queued. It lets go whenever it likes, so the two   *)
(* release the same allocations side by side.                              *)
(*                                                                         *)
(* A reference is inline (a short string, an empty list: no allocation),   *)
(* to the program's static data (count 0), or to a counted block. `says`   *)
(* is what the holder of a byte list believes it contains.                 *)
(***************************************************************************)
EXTENDS HostedCalls, Integers, FiniteSets
LOCAL INSTANCE SequencesExt
LOCAL INSTANCE FiniteSetsExt

CONSTANTS
  MaxBlocks,  \* counted allocations at one time
  MaxHeap     \* arguments of one call that are in counted blocks

Blocks == 1..MaxBlocks
Inline == 0
Static == MaxBlocks + 1
Owners == {"task", "peer"}

VARIABLES
  refcount,   \* the count in the word before an allocation's data
  allocated,  \* the blocks not yet given back to the allocator
  items,      \* the values stored in a list's allocation
  data,       \* the bytes stored in a byte list's allocation (its capacity)
  hosted,     \* the hosted call under way, or NoCall
  owned,      \* the values a thread holds
  work        \* the releases a thread still has to make, first to last
refVars == <<refcount, allocated, items, data, hosted, owned, work>>

NoCall == [does |-> <<>>, gives |-> {}, decref |-> {}, given |-> <<>>, args |-> <<>>,
           result |-> <<>>, stored |-> <<>>, running |-> FALSE]
Ref(at, slice, from, says) == [at |-> at, slice |-> slice, from |-> from, says |-> says]
NoRef == Ref(Inline, FALSE, 0, <<>>)
Value(path, refs, decref) == [path |-> path, refs |-> refs, decref |-> decref]

RefsInit ==
  /\ refcount = [b \in Blocks |-> 0] /\ allocated = {} /\ items = [b \in Blocks |-> <<>>]
  /\ data = [b \in Blocks \cup {Static} |-> IF b = Static THEN <<"literal">> ELSE <<>>]
  /\ hosted = NoCall /\ owned = [o \in Owners |-> <<>>] /\ work = [o \in Owners |-> <<>>]

-----------------------------------------------------------------------------
(* Releasing.                                                              *)

ReleaseRef(ref, of) == [op |-> "release", ref |-> ref, of |-> of]
FreeBlock(ref) == [op |-> "free", ref |-> ref, of |-> {}]

(* decref of a value: the references its plan lists for this shape. *)
ReleasesOf(value) ==
  LET arms == {s \in value.decref : s.path = value.path}
      arm == CHOOSE s \in arms : TRUE
  IN  IF arms = {} THEN <<>>
      ELSE [i \in DOMAIN arm.holds |-> ReleaseRef(value.refs[i], arm.holds[i].of)]

(* Mutant: decref in place of release_with. *)
LeaveElements(b, of) == <<>>

(* release_with, once this reference is known to be the last: each element *)
(* by the plan of the list's element type. A bare decref has no plan and   *)
(* leaves the elements alone.                                              *)
ElementReleases(b, of) ==
  FlattenSeq([k \in DOMAIN items[b] |->
                ReleasesOf(Value(items[b][k].path, items[b][k].refs, of))])

(* One reference given up. The decrement claims the block before its       *)
(* elements are read: whoever takes the count to 0 tears it down.          *)
ReleaseStep(o) ==
  /\ work[o] # <<>> /\ Head(work[o]).op = "release"
  /\ LET ref == Head(work[o]).ref
         b == ref.at
     IN  \/ /\ b \in {Inline, Static}
            /\ work' = [work EXCEPT ![o] = Tail(@)]
            /\ UNCHANGED <<refcount, items>>
         \/ /\ b \in Blocks /\ refcount' = [refcount EXCEPT ![b] = @ - 1]
            /\ \/ /\ refcount[b] # 1
                  /\ work' = [work EXCEPT ![o] = Tail(@)]
                  /\ UNCHANGED items
               \/ /\ refcount[b] = 1
                  /\ work' = [work EXCEPT ![o] =
                                ElementReleases(b, Head(@).of) \o <<FreeBlock(ref)>> \o Tail(@)]
                  /\ items' = [items EXCEPT ![b] = <<>>]
  /\ UNCHANGED <<allocated, data, hosted, owned>>

Dealloc(o) ==
  /\ work[o] # <<>> /\ Head(work[o]).op = "free"
  /\ allocated' = allocated \ {Head(work[o]).ref.at}
  /\ data' = [data EXCEPT ![Head(work[o]).ref.at] = <<>>]
  /\ work' = [work EXCEPT ![o] = Tail(@)]
  /\ UNCHANGED <<refcount, items, hosted, owned>>

(* A holder lets go of a value: the host of a closure it stores, compiled  *)
(* Roc code of a result or of its copy of an argument.                     *)
DropValue(o) ==
  /\ ~hosted.running \/ o = "peer"
  /\ work[o] = <<>> /\ owned[o] # <<>>
  /\ work' = [work EXCEPT ![o] = ReleasesOf(Head(owned[o]))]
  /\ owned' = [owned EXCEPT ![o] = Tail(@)]
  /\ UNCHANGED <<refcount, allocated, items, data, hosted>>

(* incref of a value, along the same plan: the peer gets a copy of it. *)
CopyValue ==
  /\ ~hosted.running /\ owned["task"] # <<>> /\ owned["peer"] = <<>>
  /\ LET value == Head(owned["task"])
         copied == ReleasesOf(value)
     IN  /\ refcount' = [b \in Blocks |-> refcount[b]
                           + Cardinality({i \in DOMAIN copied : copied[i].ref.at = b})]
         /\ owned' = [owned EXCEPT !["peer"] = <<value>>]
  /\ UNCHANGED <<allocated, items, data, hosted, work>>

-----------------------------------------------------------------------------
(* A call's arguments: what compiled Roc code may pass.                    *)

FreeBlocks == Blocks \ allocated
FreshBlock(n) == CHOOSE b \in FreeBlocks : Cardinality({c \in FreeBlocks : c <= b}) = n

(* Ways to put the references `leaves`, those of `heap` in counted blocks: *)
(* each in a block of its own or two of a kind in the same one.            *)
Placings(leaves, heap) ==
  {p \in [heap -> 1..Cardinality(heap)] :
     /\ heap # {} => \E i \in heap : p[i] = 1
     /\ \A i, j \in heap : /\ i < j => p[i] <= p[j]
                           /\ p[i] = p[j] => leaves[i] = leaves[j]}

(* A byte list: all of its allocation, with room after it, or a slice. *)
Layouts == {[holds |-> <<"old">>, slice |-> FALSE, from |-> 0],
            [holds |-> <<"old", "unused">>, slice |-> FALSE, from |-> 0],
            [holds |-> <<"other", "old">>, slice |-> TRUE, from |-> 1]}
Whole == CHOOSE l \in Layouts : Len(l.holds) = 1

(* What a new list holds: nothing, or one element of some shape. *)
Elements(leaves, heap) ==
  {<<>>} \cup UNION {{<<s>> : s \in leaves[i].of} : i \in heap}

RefTo(leaf, at, layout) ==
  CASE leaf.leaf = "plain" -> NoRef
    [] leaf.leaf = "bytes" /\ at \in Blocks -> Ref(at, layout.slice, layout.from, <<"old">>)
    [] leaf.leaf = "bytes" /\ at = Static -> Ref(at, FALSE, 0, <<"literal">>)
    [] OTHER -> Ref(at, FALSE, 0, <<>>)

Refs(leaves, place, rest, layout) ==
  [i \in DOMAIN leaves |->
     RefTo(leaves[i], IF i \in DOMAIN place THEN FreshBlock(place[i]) ELSE rest, layout)]

(* The blocks, counts and contents that go with them; `copies` more        *)
(* references are made to each. An element's references follow the list's. *)
Allocated(leaves, place, element, layout, copies) ==
  LET n == Cardinality({place[i] : i \in DOMAIN place})
      held == IF element = <<>> THEN <<>> ELSE Head(element).holds
      inside == {FreshBlock(n + k) : k \in DOMAIN held}
      of(b) == {i \in DOMAIN place : FreshBlock(place[i]) = b}
      outside == {b \in Blocks : of(b) # {}}
      kinds(b) == {leaves[i].leaf : i \in of(b)}
                    \cup {held[k].leaf : k \in {k \in DOMAIN held : FreshBlock(n + k) = b}}
  IN  /\ n + Len(held) <= Cardinality(FreeBlocks)
      /\ allocated' = allocated \cup outside \cup inside
      /\ refcount' = [b \in Blocks |->
           IF b \in outside THEN (copies + 1) * Cardinality(of(b))
           ELSE IF b \in inside THEN 1 ELSE refcount[b]]
      /\ data' = [b \in Blocks \cup {Static} |->
           IF b # Static /\ kinds(b) = {"bytes"} THEN layout.holds ELSE data[b]]
      /\ items' = [b \in Blocks |->
           IF kinds(b) = {"list"} /\ element # <<>>
           THEN <<Value(Head(element).path,
                        [k \in DOMAIN held |-> RefTo(held[k], FreshBlock(n + k), Whole)], {})>>
           ELSE items[b]]

NoLeaf == [leaf |-> "plain", of |-> {}]
ArgLeaf(type) == LET s == CHOOSE s \in type : TRUE
                 IN  IF s.holds = <<>> THEN NoLeaf ELSE Head(s.holds)
Performs(does, ops) == \E k \in DOMAIN does : does[k].op \in ops

(* Compiled Roc code calls a hosted function. A box and a closure are      *)
(* always allocated; the rest is inline, static or in counted blocks, of   *)
(* which another holder may have copies. A closure to be given back is one *)
(* the host has stored.                                                    *)
Begin(f, path) ==
  /\ hosted = NoCall /\ allocated = {} /\ owned = [o \in Owners |-> <<>>]
  /\ LET stores == IF Performs(path.does, {"take", "share"}) THEN <<RocErasedCallable>> ELSE <<>>
         leaves == [i \in DOMAIN (f.takes \o stores) |-> ArgLeaf((f.takes \o stores)[i])]
         counted == {i \in DOMAIN leaves : leaves[i].leaf # "plain"}
         always == {i \in counted : leaves[i].leaf \in {"box", "callable"}}
         n == Len(f.takes)
     IN  \E heap \in {h \in SUBSET counted :
                        /\ always \subseteq h
                        /\ h = always \/ Cardinality(h) <= MaxHeap
                        /\ Cardinality({i \in h : leaves[i].leaf = "list"}) <= 1},
            rest \in {Inline, Static}, copies \in {0, 1},
            layout \in IF Performs(path.does, {"fill"}) THEN Layouts ELSE {Whole} :
         \E place \in Placings(leaves, heap), element \in Elements(leaves, heap) :
           /\ Allocated(leaves, place, element, layout, copies)
           /\ LET refs == Refs(leaves, place, rest, layout)
                  copy(i) == <<Value(<<>>, <<refs[i]>>, (f.takes \o stores)[i])>>
              IN  /\ hosted' = [does |-> path.does, gives |-> path.gives, decref |-> f.decref,
                              given |-> SubSeq(refs, 1, n), args |-> SubSeq(refs, 1, n),
                              result |-> <<>>, stored |-> SubSeq(refs, n + 1, Len(refs)),
                              running |-> TRUE]
                  /\ owned' = [owned EXCEPT !["peer"] =
                       FlattenSeq([i \in DOMAIN refs |->
                                     IF copies = 1 /\ i \in heap THEN copy(i) ELSE <<>>])]
  /\ UNCHANGED work

-----------------------------------------------------------------------------
(* The steps of the call.                                                  *)

AtStep(op) ==
  /\ hosted.running /\ work["task"] = <<>> /\ hosted.does # <<>> /\ Head(hosted.does).op = op
Here == Head(hosted.does)
TheArg == CHOOSE i \in Here.args : TRUE
Later == [hosted EXCEPT !.does = Tail(@)]

UseArgs ==
  /\ AtStep("use") /\ hosted' = Later
  /\ UNCHANGED <<refcount, allocated, items, data, owned, work>>

(* decref, or the list's own decref_list_of_... with its element plan. *)
DropArg ==
  /\ AtStep("drop")
  /\ work' = [work EXCEPT !["task"] =
       <<ReleaseRef(hosted.args[TheArg],
                    UNION {Head(s.holds).of : s \in Here.as})>>]
  /\ hosted' = [Later EXCEPT !.args[TheArg] = NoRef]
  /\ UNCHANGED <<refcount, allocated, items, data, owned>>

(* The closure moves into the new task, the task's result, the channel. *)
KeepArg ==
  /\ AtStep("keep")
  /\ owned' = [owned EXCEPT !["peer"] =
                 Append(@, Value(<<>>, <<hosted.args[TheArg]>>, RocErasedCallable))]
  /\ hosted' = [Later EXCEPT !.args[TheArg] = NoRef]
  /\ UNCHANGED <<refcount, allocated, items, data, work>>

(* A queued closure is moved out; a task's result is shared with it. *)
GiveStored ==
  /\ \/ /\ AtStep("take") /\ UNCHANGED <<refcount, owned>>
     \/ /\ AtStep("share")
        /\ refcount' = [refcount EXCEPT ![Head(hosted.stored).at] = @ + 1]
        /\ owned' = [owned EXCEPT !["peer"] =
                       Append(@, Value(<<>>, hosted.stored, RocErasedCallable))]
  /\ hosted' = [Later EXCEPT !.result = hosted.stored, !.stored = <<>>]
  /\ UNCHANGED <<allocated, items, data, work>>

(* Mutant: is_unique, which also accepts static data. *)
is_unique(b) == b = Static \/ (b \in Blocks /\ refcount[b] \in {0, 1})

has_one_ref(b) == b \in Blocks /\ refcount[b] = 1

(* fill_list: `new` was received, at most `max` bytes were asked for. *)
FillList(new, max) ==
  LET list == hosted.args[TheArg]
      b == list.at
      says == IF Here.keep THEN list.says \o new ELSE new
      kept == IF Here.keep THEN Len(list.says) ELSE 0
      needed == kept + Len(new)
      fits == b # Inline /\ ~list.slice /\ Len(data[b]) >= needed
      capacity == Max({needed, kept + max} \cup IF Here.keep THEN {2 * kept} ELSE {})
      gives(ref) == hosted' = [Later EXCEPT !.args[TheArg] = NoRef, !.result = <<ref>>]
      drops == work' = [work EXCEPT !["task"] = <<ReleaseRef(list, {})>>]
  IN  /\ AtStep("fill")
      /\ \/ /\ fits /\ has_one_ref(b)
            /\ data' = [data EXCEPT ![b] = [k \in DOMAIN @ |->
                          IF k \in kept + 1..needed THEN new[k - kept] ELSE @[k]]]
            /\ gives(Ref(b, FALSE, 0, says))
            /\ UNCHANGED <<refcount, allocated, work>>
         \/ /\ ~(fits /\ has_one_ref(b)) /\ capacity = 0
            /\ gives(NoRef) /\ drops
            /\ UNCHANGED <<refcount, allocated, data>>
         \/ /\ ~(fits /\ has_one_ref(b)) /\ capacity > 0
            /\ LET fresh == FreshBlock(1)
               IN  /\ allocated' = allocated \cup {fresh}
                   /\ refcount' = [refcount EXCEPT ![fresh] = 1]
                   /\ data' = [data EXCEPT ![fresh] =
                        [k \in 1..capacity |-> IF k <= needed THEN says[k] ELSE "unused"]]
                   /\ gives(Ref(fresh, FALSE, 0, says)) /\ drops
      /\ UNCHANGED <<items, owned>>

(* The result is the task's: what was filled, taken or shared, or new. *)
ReturnResult ==
  /\ hosted.running /\ hosted.does = <<>> /\ work["task"] = <<>> /\ hosted' = NoCall
  /\ \E s \in hosted.gives :
       \/ /\ hosted.result # <<>>
          /\ owned' = [owned EXCEPT !["task"] = <<Value(s.path, hosted.result, hosted.decref)>>]
          /\ UNCHANGED <<refcount, allocated, items, data>>
       \/ /\ hosted.result = <<>>
          /\ LET boxes == {i \in DOMAIN s.holds : s.holds[i].leaf = "box"}
             IN  \E heap \in {boxes, DOMAIN s.holds} : \E element \in Elements(s.holds, heap) :
                   LET own == [i \in heap |-> i]
                   IN  /\ Allocated(s.holds, own, element, Whole, 0)
                       /\ owned' = [owned EXCEPT !["task"] =
                            <<Value(s.path, Refs(s.holds, own, Inline, Whole), hosted.decref)>>]
  /\ UNCHANGED work

RefsNext ==
  \/ \E f \in HostedFunctions : \E path \in f.paths : Begin(f, path)
  \/ UseArgs \/ DropArg \/ KeepArg \/ GiveStored \/ ReturnResult
  \/ \E new \in {<<>>, <<"new">>}, max \in {0, 1} : Len(new) <= max /\ FillList(new, max)
  \/ \E o \in Owners : ReleaseStep(o) \/ Dealloc(o) \/ DropValue(o)
  \/ CopyValue
RefsSpec == RefsInit /\ [][RefsNext]_refVars

-----------------------------------------------------------------------------
(* Every reference some thread holds, or some list's element holds. *)
HeldBy(o) == FlattenSeq([k \in DOMAIN owned[o] |-> owned[o][k].refs])
Releasing(o) == [k \in DOMAIN work[o] |-> IF work[o][k].op = "release" THEN work[o][k].ref ELSE NoRef]
Inside == FlattenSeq([b \in Blocks |-> FlattenSeq([k \in DOMAIN items[b] |-> items[b][k].refs])])
AllRefs == hosted.args \o hosted.stored \o hosted.result \o HeldBy("task") \o HeldBy("peer")
             \o Releasing("task") \o Releasing("peer") \o Inside

(* A block's count is the number of references to it, from the first       *)
(* allocation to the last release, whatever a hosted function did with its *)
(* arguments and however two threads' releases interleave: none is leaked, *)
(* none is freed twice or while it is referred to.                         *)
EveryReferenceCounted ==
  LET refs == AllRefs
  IN \A b \in Blocks :
    LET n == Cardinality({k \in DOMAIN refs : refs[k].at = b})
    IN  IF b \notin allocated THEN n = 0
        ELSE /\ n = refcount[b]
             /\ n = 0 => \E o \in Owners : \E k \in DOMAIN work[o] :
                           work[o][k] = FreeBlock(work[o][k].ref) /\ work[o][k].ref.at = b

(* Whenever a hosted function reads an argument (the text, the bytes, the  *)
(* resource a handle names), the argument's memory is still allocated.     *)
ArgumentsOutliveUse ==
  AtStep("use") => \A i \in Here.args :
                     hosted.given[i].at \in Blocks => hosted.given[i].at \in allocated

(* Whoever holds a byte list finds in it what was there when they got it:  *)
(* fill_list writes in place only where no one else, and no literal of the *)
(* program, can see it.                                                    *)
ListsKeepTheirBytes ==
  \A ref \in ToSet(AllRefs) :
    ref.says # <<>> =>
      SubSeq(data[ref.at], ref.from + 1, ref.from + Len(ref.says)) = ref.says
=============================================================================

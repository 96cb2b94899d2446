------------------------------- MODULE Hive -------------------------------
(***************************************************************************)
(* std::hive (backport/cpp26/hive.hpp): a container of blocks whose        *)
(* elements never move, with a jump-counting skipfield over the slots and  *)
(* the free list of dead runs threaded through the dead slots themselves.  *)
(*                                                                         *)
(* mem is the storage: the hives, their control objects and the blocks.    *)
(* Every member function is an operator from a storage to the storage it   *)
(* leaves.  Any call of it that may throw (an allocation, the construction *)
(* of an element, a comparison) is one tick of mem.fault: the tick that    *)
(* reaches zero throws, mem.thrown is set, and the code's handlers run.    *)
(*                                                                         *)
(* contents holds the values a traversal sees, for the contract.           *)
(*                                                                         *)
(* The links of a doubly linked list of blocks are the sequence of its     *)
(* blocks.  skip and slots are functions on 0 .. high_water - 1, the part  *)
(* that may be read: a read outside it stops the model checker.            *)
(***************************************************************************)
EXTENDS Integers, Sequences, FiniteSets, SequencesExt, BagsExt

CONSTANTS Hives,       \* the containers
          Values,      \* values of elements, totally ordered numbers
          Allocators,  \* allocators that compare unequal to each other
          SlotNpos,    \* largest slot_index_type, 2^16 - 1 in the code
          MaxSize,     \* max_size() of the allocators
          MaxSlots,    \* bound of the model: slots the heap may hold
          Programs     \* bound of the model: what the client program uses

ASSUME HiveAssumption ==
  /\ SlotNpos \in Nat \ {0} /\ MaxSize \in Nat \ {0} /\ MaxSlots \in Nat
  /\ Values \subseteq Nat /\ Hives # {}
  /\ Programs \subseteq [hives : SUBSET Hives, values : SUBSET Values, slots : 1..MaxSlots,
                         allocators : SUBSET Allocators, mins : SUBSET Nat, faults : SUBSET Nat,
                         upkeep : BOOLEAN]

VARIABLES prog,      \* the program: its hives, values, heap, limits and faults
          mem, contents
vars == <<prog, mem, contents>>

npos == -1
Moved == 0        \* what a move leaves behind
Garbage == [previous |-> 0, next |-> 0]   \* bytes of a failed construction
Rebuilt == "rebuilt"
Names == Hives \cup {Rebuilt}
Controls == 1..(Cardinality(Hives) + 1)
Blocks == 1..MaxSlots
None == "none"

U16(n) == n % (SlotNpos + 1)
to_slot_index(i) == IF i = npos THEN SlotNpos ELSE U16(i)
to_wide_index(i) == IF i = SlotNpos THEN npos ELSE i
Least(a, b) == IF a < b THEN a ELSE b
Most(a, b) == IF a < b THEN b ELSE a
Put(f, i, x) == [j \in DOMAIN f \cup {i} |-> IF j = i THEN x ELSE f[j]]
Upto(f, n) == [j \in 0..(n - 1) |-> f[j]]

hard_max == Least(MaxSize, SlotNpos)
is_within_hard_limits(l) == 1 <= l.min /\ l.min <= l.max /\ l.max <= hard_max
default_limits == [min |-> Least(8, hard_max), max |-> Least(4096, hard_max)]
within(l, cap) == l.min <= cap /\ cap <= l.max

-----------------------------------------------------------------------------
(* Calls that may throw *)
Tick(w) == [w EXCEPT !.fault = IF @ = 0 THEN 0 ELSE @ - 1, !.thrown = (w.fault = 1)]
Throw(w) == [w EXCEPT !.thrown = TRUE]
touch_end(w, h) == [w EXCEPT !.hive[h].epoch = @ + 1]

Ctl(w, h) == w.ctl[w.hive[h].ctl]
HasControl(w, h) == w.hive[h].ctl # 0
size(w, h) == IF HasControl(w, h) THEN Ctl(w, h).size ELSE 0
capacity(w, h) == IF HasControl(w, h) THEN Ctl(w, h).capacity ELSE 0

allocate_control(w, h) ==
  LET c == CHOOSE c \in Controls : w.ctl[c] = <<>>
      t == Tick(w)
  IN IF t.thrown THEN t
     ELSE [t EXCEPT !.hive[h].ctl = c,
                    !.ctl[c] = [owner |-> h, active |-> <<>>, reserved |-> <<>>,
                                available |-> <<>>, size |-> 0, capacity |-> 0, order |-> 0]]

deallocate_control(w, h) ==
  [w EXCEPT !.ctl[w.hive[h].ctl] = <<>>, !.hive[h].ctl = 0]

(* The block, its slots and its skipfield; when one of these allocations   *)
(* fails the earlier ones are given back.                                  *)
Allocated(w) == {b \in Blocks : w.block[b] # <<>>}
NewBlock(w) == Min(Blocks \ Allocated(w))
SlotsInUse(w) == MapThenSumSet(LAMBDA b : w.block[b].cap, Allocated(w))
allocate_block(w, c, cap) ==
  LET t == Tick(w)
  IN IF t.thrown THEN t
     ELSE IF SlotsInUse(w) + cap > prog.slots THEN Throw(w)
     ELSE [t EXCEPT !.block[NewBlock(w)] =
             [control |-> c, alloc |-> w.hive[w.ctl[c].owner].alloc, cap |-> cap, live |-> 0,
              high |-> 0, free |-> npos, order |-> 0, skip |-> <<>>, slots |-> <<>>]]

(* Storage goes back to the allocator its owner holds now. *)
deallocate_block(w, b) ==
  LET k == w.block[b]
  IN [w EXCEPT !.block[b] = <<>>, !.misfit = @ \/ k.alloc # w.hive[w.ctl[k.control].owner].alloc]
DeallocateAll(w, s) == FoldLeft(deallocate_block, w, s)

reset_vacant_block(k) ==
  [k EXCEPT !.live = 0, !.high = 0, !.free = npos, !.skip = <<>>, !.slots = <<>>]

active_append(w, c, b) ==
  [w EXCEPT !.ctl[c].active = Append(@, b), !.ctl[c].order = @ + 1,
            !.block[b].order = w.ctl[c].order]

available_add(w, c, b) == [w EXCEPT !.ctl[c].available = <<b>> \o @]
available_remove(w, c, b) == [w EXCEPT !.ctl[c].available = RemoveFirst(@, b)]
in_available(w, c, b) == b \in ToSet(w.ctl[c].available)

link_reserved(w, c, b) ==
  [w EXCEPT !.ctl[c].reserved = <<b>> \o @, !.ctl[c].capacity = @ + w.block[b].cap]

-----------------------------------------------------------------------------
(* The free list of a block: the first slot of every dead run holds links. *)
Links(p, n) == [previous |-> p, next |-> n]

unlink_free_run(k, links) ==
  LET k1 == IF links.previous = SlotNpos THEN [k EXCEPT !.free = to_wide_index(links.next)]
            ELSE [k EXCEPT !.slots[links.previous].next = links.next]
  IN IF links.next = SlotNpos THEN k1
     ELSE [k1 EXCEPT !.slots[links.next].previous = links.previous]

move_free_run(k, i, links) ==
  LET k0 == [k EXCEPT !.slots[i] = links]
      k1 == IF links.previous = SlotNpos THEN [k0 EXCEPT !.free = i]
            ELSE [k0 EXCEPT !.slots[links.previous].next = to_slot_index(i)]
  IN IF links.next = SlotNpos THEN k1
     ELSE [k1 EXCEPT !.slots[links.next].previous = to_slot_index(i)]

push_free_run(k, i) == move_free_run(k, i, Links(SlotNpos, to_slot_index(k.free)))

-----------------------------------------------------------------------------
(* Iterators *)
At(b, i) == [blk |-> b, idx |-> i, owner |-> None, epoch |-> 0]
End(w, h) == [blk |-> 0, idx |-> npos, owner |-> h, epoch |-> w.hive[h].epoch]
Begin(w, h) ==
  IF HasControl(w, h) /\ Ctl(w, h).active # <<>>
  THEN LET b == Head(Ctl(w, h).active) IN At(b, w.block[b].skip[0])
  ELSE End(w, h)

(* The active list a block is linked in, and its place there. *)
ListOf(w, b) == LET c == CHOOSE c \in Controls : w.ctl[c] # <<>> /\ b \in ToSet(w.ctl[c].active)
                IN w.ctl[c].active
PlaceIn(s, b) == CHOOSE i \in DOMAIN s : s[i] = b

Increment(w, it) ==
  LET k == w.block[it.blk]
      s == ListOf(w, it.blk)
      p == PlaceIn(s, it.blk)
  IN IF it.idx + 1 < k.high THEN At(it.blk, it.idx + 1 + k.skip[it.idx + 1])
     ELSE IF p < Len(s) THEN At(s[p + 1], w.block[s[p + 1]].skip[0])
     ELSE End(w, w.ctl[k.control].owner)

Decrement(w, it) ==
  LET Back(b) == At(b, w.block[b].high - 1)
      s == IF it.blk = 0 THEN Ctl(w, it.owner).active ELSE ListOf(w, it.blk)
  IN IF it.blk = 0 THEN Back(Last(s))
     ELSE IF it.idx # 0 /\ w.block[it.blk].skip[it.idx - 1] <= it.idx - 1
          THEN At(it.blk, it.idx - 1 - w.block[it.blk].skip[it.idx - 1])
          ELSE Back(s[PlaceIn(s, it.blk) - 1])

(* it1 < it2, for iterators of one hive. *)
Less(w, it1, it2) ==
  IF it1.blk # 0 /\ it2.blk # 0
  THEN IF it1.blk = it2.blk THEN it1.idx < it2.idx ELSE w.block[it1.blk].order < w.block[it2.blk].order
  ELSE IF it1.blk # 0 \/ it2.blk # 0 THEN it1.blk # 0
  ELSE it1.epoch < it2.epoch

(* for (it = begin(); it != end(); ++it), cut off after the last slot. *)
Walk(w, h) ==
  LET it[n \in 1..(size(w, h) + 1)] ==
        IF n = 1 THEN Begin(w, h)
        ELSE IF it[n - 1].blk = 0 THEN it[n - 1] ELSE Increment(w, it[n - 1])
  IN it
Positions(w, h) == SelectSeq(Walk(w, h), LAMBDA it : it.blk # 0)
ValueAt(w, it) == w.block[it.blk].slots[it.idx]
Contents(w, h) == LET p == Positions(w, h) IN [i \in DOMAIN p |-> ValueAt(w, p[i])]

-----------------------------------------------------------------------------
(* emplace: into the first available block, ... *)
LostLinks(k, i, links) == k
KeptLinks(k, i, links) == [k EXCEPT !.slots[i] = links]
EmplaceAvailable(w, h, c, b, v) ==
  LET k == w.block[b]
      reuse == k.free # npos
      i == IF reuse THEN k.free ELSE k.high
      run == IF reuse THEN k.skip[i] ELSE 0
      links == IF reuse THEN k.slots[i] ELSE Links(SlotNpos, SlotNpos)
      t == Tick(w)
      k1 == [k EXCEPT !.slots = Put(@, i, v), !.skip = Put(@, i, 0), !.live = @ + 1]
      k2 == IF ~reuse THEN [k1 EXCEPT !.high = @ + 1]
            ELSE IF run = 1 THEN unlink_free_run(k1, links)
            ELSE move_free_run([k1 EXCEPT !.skip[i + 1] = U16(run - 1),
                                          !.skip[i + run - 1] = U16(run - 1)], i + 1, links)
      w1 == [t EXCEPT !.block[b] = k2, !.ctl[c].size = @ + 1, !.objects = @ + 1]
  IN IF t.thrown
     THEN IF reuse THEN [t EXCEPT !.block[b] = KeptLinks([k EXCEPT !.slots[i] = Garbage], i, links)]
          ELSE t
     ELSE touch_end(IF k2.high = k2.cap /\ k2.free = npos THEN available_remove(w1, c, b) ELSE w1, h)

(* ... else into the first reserved block, ... *)
FirstElement(w, h, c, b, v) ==
  LET w1 == active_append([w EXCEPT !.block[b].skip = Put(<<>>, 0, 0), !.block[b].slots = Put(<<>>, 0, v),
                                    !.block[b].high = 1, !.block[b].live = 1, !.ctl[c].size = @ + 1,
                                    !.objects = @ + 1], c, b)
  IN touch_end(IF w.block[b].cap # 1 THEN available_add(w1, c, b) ELSE w1, h)

EmplaceReserved(w, h, c, b, v) ==
  LET t == Tick(w)
  IN IF t.thrown THEN t ELSE FirstElement([t EXCEPT !.ctl[c].reserved = Tail(@)], h, c, b, v)

(* ... else into a block of its own, as large as all the others together. *)
block_max(w, h) == Least(w.hive[h].limits.max, SlotNpos)
GrownCapacity(lim, cur, bmax) == Least(Least(Most(lim.min, cur), bmax), MaxSize - cur)

WithControl(w, h) == IF HasControl(w, h) THEN w ELSE allocate_control(w, h)
(* The handlers of allocate_block and construct: a new control goes too. *)
Undo(w, before, h) == IF HasControl(before, h) \/ ~HasControl(w, h) THEN w ELSE deallocate_control(w, h)

GiveBack(w, b, before, h) == Undo(deallocate_block(w, b), before, h)

EmplaceGrow(w, h, v) ==
  LET lim == w.hive[h].limits
      cur == capacity(w, h)
      bmax == block_max(w, h)
      w1 == WithControl(w, h)
      c == w1.hive[h].ctl
      b == NewBlock(w1)
      w2 == IF w1.thrown THEN w1 ELSE allocate_block(w1, c, GrownCapacity(lim, cur, bmax))
      w3 == IF w2.thrown THEN w2 ELSE Tick(w2)
  IN IF bmax < lim.min \/ cur > MaxSize \/ lim.min > MaxSize - cur THEN Throw(w)
     ELSE IF w2.thrown THEN Undo(w2, w, h)
     ELSE IF w3.thrown THEN GiveBack(w3, b, w, h)
     ELSE FirstElement([w3 EXCEPT !.ctl[c].capacity = @ + w3.block[b].cap], h, c, b, v)

emplace(w, h, v) ==
  LET c == w.hive[h].ctl
  IN IF c # 0 /\ w.ctl[c].available # <<>> THEN EmplaceAvailable(w, h, c, Head(w.ctl[c].available), v)
     ELSE IF c # 0 /\ w.ctl[c].reserved # <<>> THEN EmplaceReserved(w, h, c, Head(w.ctl[c].reserved), v)
     ELSE EmplaceGrow(w, h, v)

(* append_input, append_range, append_default, append_copies *)
append(w, h, s) == FoldLeft(LAMBDA a, v : IF a.thrown THEN a ELSE emplace(a, h, v), w, s)

(* append_moves and append_move_to: the source keeps moved-from elements.  *)
append_moves(w, h, src) ==
  FoldLeft(LAMBDA a, it : LET e == IF a.thrown THEN a ELSE emplace(a, h, ValueAt(a, it))
                          IN IF e.thrown THEN e ELSE [e EXCEPT !.block[it.blk].slots[it.idx] = Moved],
           w, Positions(w, src))

-----------------------------------------------------------------------------
(* erase of one element *)
EraseTail(k, i) ==
  LET start == IF i # 0 /\ k.skip[i - 1] # 0 THEN i - k.skip[i - 1] ELSE i
      k1 == IF start # i THEN unlink_free_run(k, k.slots[start]) ELSE k
  IN [k1 EXCEPT !.high = start, !.skip = Upto(@, start), !.slots = Upto(@, start)]

DestroysBack(k, i) == push_free_run([k EXCEPT !.skip[i] = 1, !.slots[k.high - 1] = Moved], i)
EraseInside(k, i) ==
  LET left == IF i = 0 THEN 0 ELSE k.skip[i - 1]
      right == k.skip[i + 1]
      len == U16(left + right + 1)
  IN IF left = 0 /\ right = 0 THEN push_free_run([k EXCEPT !.skip[i] = 1], i)
     ELSE IF right = 0 THEN [k EXCEPT !.skip[i - left] = len, !.skip[i] = len]
     ELSE IF left = 0
     THEN move_free_run([k EXCEPT !.skip[i] = len, !.skip[i + right] = len], i, k.slots[i + 1])
     ELSE unlink_free_run([k EXCEPT !.skip[i - left] = len, !.skip[i + right] = len, !.skip[i] = 1],
                          k.slots[i + 1])

Vacate(w, c, b) ==
  LET w1 == available_remove(w, c, b)
  IN [w1 EXCEPT !.ctl[c].active = RemoveFirst(@, b), !.ctl[c].reserved = <<b>> \o @,
                !.block[b] = reset_vacant_block(@)]

erase(w, h, it) ==
  LET c == w.hive[h].ctl
      b == it.blk
      succ == Increment(w, it)
      k == [w.block[b] EXCEPT !.live = @ - 1, !.slots[it.idx] = Garbage]
      w1 == [w EXCEPT !.block[b] = IF it.idx = k.high - 1 THEN EraseTail(k, it.idx)
                                                         ELSE EraseInside(k, it.idx),
                      !.ctl[c].size = @ - 1, !.objects = @ - 1]
      w2 == IF k.live = 0 THEN Vacate(w1, c, b)
            ELSE IF in_available(w1, c, b) THEN w1 ELSE available_add(w1, c, b)
      w3 == IF succ.blk = 0 THEN touch_end(w2, h) ELSE w2
  IN [mem |-> w3, it |-> IF succ.blk = 0 THEN End(w3, h) ELSE succ]

(* The loops over erase.  Each takes at most one turn per element.         *)
Turns(w, h) == [n \in 1..size(w, h) |-> n]

erase_range(w, h, first, last) ==
  LET More(it) == IF last.blk = 0 THEN it.blk # 0 ELSE it # last
  IN FoldLeft(LAMBDA a, n : IF More(a.it) THEN erase(a.mem, h, a.it) ELSE a,
              [mem |-> w, it |-> first], Turns(w, h)).mem

erase_if(w, h, v) ==
  FoldLeft(LAMBDA a, n : IF a.it = End(a.mem, h) THEN a
                         ELSE IF ValueAt(a.mem, a.it) = v THEN erase(a.mem, h, a.it)
                         ELSE [a EXCEPT !.it = Increment(a.mem, @)],
           [mem |-> w, it |-> Begin(w, h)], Turns(w, h)).mem

unique(w, h) ==
  LET Turn(a, n) ==
        IF a.cur = End(a.mem, h) THEN a
        ELSE IF ValueAt(a.mem, a.cur) = ValueAt(a.mem, a.prev)
        THEN LET e == erase(a.mem, h, a.cur) IN [a EXCEPT !.mem = e.mem, !.cur = e.it]
        ELSE [a EXCEPT !.prev = a.cur, !.cur = Increment(a.mem, a.cur)]
      first == Begin(w, h)
  IN IF size(w, h) < 2 THEN w
     ELSE FoldLeft(Turn, [mem |-> w, prev |-> first, cur |-> Increment(w, first)], Turns(w, h)).mem

-----------------------------------------------------------------------------
(* sort: a heap sort of the values at the positions of one traversal; a    *)
(* comparison may throw.                                                   *)
Swapped(s, i, j) == [s EXCEPT ![i] = s[j], ![j] = s[i]]

(* the larger child; both exist when left + 1 < count *)
LeftChild(s, left, count) == left
LargestChild(s, left, count) == IF left + 1 < count /\ s[left] < s[left + 1] THEN left + 1 ELSE left

sift_down(a0, first, count) ==
  LET Turn(a, n) ==
        LET left == 2 * a.i + 1
            largest == LargestChild(a.s, left, count)
            t == IF left + 1 < count THEN Tick(a) ELSE a
            u == IF t.thrown THEN t ELSE Tick(t)
        IN IF a.done \/ a.thrown THEN a
           ELSE IF left >= count THEN [a EXCEPT !.done = TRUE]
           ELSE IF u.thrown THEN u
           ELSE IF ~(a.s[a.i] < a.s[largest]) THEN [u EXCEPT !.done = TRUE]
           ELSE [u EXCEPT !.s = Swapped(@, a.i, largest), !.i = largest]
  IN FoldLeft(Turn, [a0 EXCEPT !.i = first, !.done = FALSE], [n \in 1..count |-> n])

heap_sort(s, n, fault) ==
  LET Build(a, i) == IF a.thrown THEN a ELSE sift_down(a, n \div 2 - i, n)
      Take(a, j) == IF a.thrown THEN a
                    ELSE sift_down([a EXCEPT !.s = Swapped(@, 0, n - j)], 0, n - j)
      heap == FoldLeft(Build, [s |-> s, i |-> 0, done |-> FALSE, fault |-> fault, thrown |-> FALSE],
                       [i \in 1..(n \div 2) |-> i])
  IN FoldLeft(Take, heap, [j \in 1..(n - 1) |-> j])

sort(w, h) ==
  LET p == Positions(w, h)
      t == Tick(w)    \* positions.reserve
      n == Len(p)
      r == heap_sort([i \in 0..(n - 1) |-> ValueAt(w, p[i + 1])], n, t.fault)
      Store(a, i) == [a EXCEPT !.block[p[i].blk].slots[p[i].idx] = r.s[i - 1]]
  IN IF n < 2 THEN w ELSE IF t.thrown THEN t
     ELSE [FoldLeft(Store, w, [i \in 1..n |-> i]) EXCEPT !.thrown = r.thrown, !.fault = r.fault]

-----------------------------------------------------------------------------
(* destroy_live_elements jumps over the skipfield; objects counts them.    *)
Visited(k) ==
  LET at[n \in 0..k.high] == IF n = 0 THEN IF k.high = 0 THEN 0 ELSE k.skip[0]
                             ELSE LET j == at[n - 1] + 1
                                  IN IF j < k.high THEN j + k.skip[j] ELSE j
  IN {at[n] : n \in 0..k.high} \cap 0..(k.high - 1)

DestroyElements(w, s) ==
  [w EXCEPT !.objects = FoldLeft(LAMBDA a, b : a - Cardinality(Visited(w.block[b])), @, s)]

clear_without_end_invalidation(w, h) ==
  IF ~HasControl(w, h) THEN w
  ELSE LET c == w.hive[h].ctl
           s == w.ctl[c].active
       IN [DestroyElements(w, s) EXCEPT
             !.block = [b \in Blocks |-> IF b \in ToSet(s) THEN reset_vacant_block(@[b]) ELSE @[b]],
             !.ctl[c].reserved = Reverse(s) \o @, !.ctl[c].active = <<>>,
             !.ctl[c].available = <<>>, !.ctl[c].size = 0]

clear(w, h) == touch_end(clear_without_end_invalidation(w, h), h)

release_storage(w, h) ==
  IF ~HasControl(w, h) THEN w
  ELSE deallocate_control(DeallocateAll(DestroyElements(w, Ctl(w, h).active),
                                        Ctl(w, h).active \o Ctl(w, h).reserved), h)

steal_from(w, h, src) ==
  LET c == w.hive[src].ctl
      w1 == [w EXCEPT !.hive[h].ctl = c, !.hive[src].ctl = 0, !.hive[h].limits = w.hive[src].limits]
  IN IF c = 0 THEN w1 ELSE [w1 EXCEPT !.ctl[c].owner = h]

touch_both(w, h, src) == touch_end(touch_end(w, h), src)

-----------------------------------------------------------------------------
(* Capacity *)
CeilDiv(n, d) == n \div d + (IF n % d # 0 THEN 1 ELSE 0)
plan_capacity(cur, requested, lim, bmax) ==
  LET missing == requested - cur
      blocks == CeilDiv(missing, bmax)
      ok == /\ requested <= MaxSize /\ cur <= MaxSize /\ bmax >= lim.min
            /\ blocks <= (MaxSize - cur) \div lim.min
  IN [ok |-> ok, blocks |-> blocks, added |-> Most(missing, blocks * lim.min)]

reserve_blocks(w, h, plan) ==
  LET lim == w.hive[h].limits
      Step(a, n) ==
        LET left == plan.blocks - n    \* blocks still to come after this one
            cap == Least(block_max(w, h), a.added - left * lim.min)
            w1 == WithControl(a.mem, h)
            c == w1.hive[h].ctl
            b == NewBlock(w1)
            w2 == IF w1.thrown THEN w1 ELSE allocate_block(w1, c, cap)
        IN IF a.mem.thrown THEN a
           ELSE IF w2.thrown THEN [a EXCEPT !.mem = Undo(w2, a.mem, h)]
           ELSE [mem |-> link_reserved(w2, c, b), added |-> a.added - cap]
  IN FoldLeft(Step, [mem |-> w, added |-> plan.added], [n \in 1..plan.blocks |-> n]).mem

reserve(w, h, n) ==
  LET plan == plan_capacity(capacity(w, h), n, w.hive[h].limits, block_max(w, h))
  IN IF n <= capacity(w, h) THEN w
     ELSE IF plan.ok THEN reserve_blocks(w, h, plan) ELSE Throw(w)

DropReserved(w, c) ==
  LET b == Head(w.ctl[c].reserved)
  IN deallocate_block([w EXCEPT !.ctl[c].reserved = Tail(@), !.ctl[c].capacity = @ - w.block[b].cap], b)

(* trim_capacity(n); trim_capacity() drops every reserved block. *)
trim_capacity(w, h, n) ==
  LET c == w.hive[h].ctl
      Step(a, i) == IF a.ctl[c].capacity - a.block[Head(a.ctl[c].reserved)].cap >= n
                    THEN DropReserved(a, c) ELSE a
  IN IF c = 0 THEN w
     ELSE IF n >= w.ctl[c].capacity THEN w ELSE FoldLeft(Step, w, w.ctl[c].reserved)
trim_all(w, h) ==
  LET c == w.hive[h].ctl
  IN IF c = 0 THEN w ELSE FoldLeft(LAMBDA a, i : DropReserved(a, c), w, w.ctl[c].reserved)

-----------------------------------------------------------------------------
(* Whole containers *)
swap(w, h, g, pocs) ==
  LET a == w.hive[h]
      b == w.hive[g]
      w1 == [w EXCEPT !.hive[h] = [b EXCEPT !.epoch = a.epoch, !.alloc = IF pocs THEN @ ELSE a.alloc],
                      !.hive[g] = [a EXCEPT !.epoch = b.epoch, !.alloc = IF pocs THEN @ ELSE b.alloc]]
      Own(x, n) == IF HasControl(x, n) THEN [x EXCEPT !.ctl[x.hive[n].ctl].owner = n] ELSE x
  IN IF h = g THEN w ELSE touch_both(Own(Own(w1, h), g), h, g)

Fresh(lim, alloc) == [alive |-> TRUE, ctl |-> 0, limits |-> lim, alloc |-> alloc, epoch |-> 0]
Gone == [Fresh(default_limits, "none") EXCEPT !.alive = FALSE]
destroy(w, h) == [release_storage(w, h) EXCEPT !.hive[h] = Gone]

(* The rebuilding tail of shrink_to_fit and reshape: move every element    *)
(* into a new hive whose blocks are allocated already, and swap.           *)
rebuild(w, h) ==
  LET m == IF w.thrown THEN w ELSE append_moves(w, Rebuilt, h)
  IN destroy(IF m.thrown THEN m ELSE swap(m, h, Rebuilt, FALSE), Rebuilt)

shrink_to_fit(w, h) ==
  LET t == trim_all(w, h)
      plan == plan_capacity(0, size(t, h), t.hive[h].limits, block_max(t, h))
      r == [t EXCEPT !.hive[Rebuilt] = Fresh(t.hive[h].limits, t.hive[h].alloc)]
  IN IF capacity(t, h) = size(t, h) \/ size(t, h) = 0 THEN t
     ELSE IF ~plan.ok \/ plan.added >= capacity(t, h) THEN t
     ELSE rebuild(reserve_blocks(r, Rebuilt, plan), h)

(* Reserved blocks outside the limits are dropped in place. *)
DropOutside(w, h, lim) ==
  LET c == w.hive[h].ctl
      out == SelectSeq(w.ctl[c].reserved, LAMBDA b : ~within(lim, w.block[b].cap))
      Drop(a, b) == deallocate_block([a EXCEPT !.ctl[c].reserved = RemoveFirst(@, b),
                                               !.ctl[c].capacity = @ - w.block[b].cap], b)
  IN FoldLeft(Drop, w, out)

reshape(w, h, lim) ==
  IF ~is_within_hard_limits(lim) THEN Throw(w)
  ELSE IF ~HasControl(w, h) THEN [w EXCEPT !.hive[h].limits = lim]
  ELSE IF \E b \in ToSet(Ctl(w, h).active) : ~within(lim, w.block[b].cap)
  THEN rebuild(reserve([w EXCEPT !.hive[Rebuilt] = Fresh(lim, w.hive[h].alloc)], Rebuilt, size(w, h)), h)
  ELSE [DropOutside(w, h, lim) EXCEPT !.hive[h].limits = lim]

(* The commit of splice: relink the active blocks behind the destination's *)
Adopt(w, d, sc) ==
  LET Move(a, b) ==
        LET a1 == [a EXCEPT !.block[b].control = d, !.block[b].order = a.ctl[d].order,
                            !.ctl[d].order = @ + 1]
        IN IF in_available(w, sc, b) THEN available_add(a1, d, b) ELSE a1
      s == w.ctl[sc].active
      cap == FoldLeft(LAMBDA n, b : n + w.block[b].cap, 0, s)
  IN [FoldLeft(Move, w, s) EXCEPT
        !.ctl[d].active = @ \o s, !.ctl[d].size = @ + w.ctl[sc].size, !.ctl[d].capacity = @ + cap,
        !.ctl[sc].active = <<>>, !.ctl[sc].available = <<>>, !.ctl[sc].size = 0,
        !.ctl[sc].capacity = @ - cap]

splice(w, h, src) ==
  LET sc == w.hive[src].ctl
      d == WithControl(w, h)
  IN IF h = src THEN w
     ELSE IF sc = 0 THEN touch_both(w, h, src)
     ELSE IF w.ctl[sc].active = <<>> THEN touch_both(w, h, src)
     ELSE IF \E b \in ToSet(w.ctl[sc].active) : ~within(w.hive[h].limits, w.block[b].cap) THEN Throw(w)
     ELSE IF ~HasControl(w, h) /\ w.ctl[sc].reserved = <<>>
     THEN touch_both([w EXCEPT !.hive[h].ctl = sc, !.hive[src].ctl = 0, !.ctl[sc].owner = h], h, src)
     ELSE IF d.thrown THEN d
     ELSE touch_both(Adopt(d, d.hive[h].ctl, sc), h, src)

(* assign, and the assignments that keep the end iterator valid.           *)
KeepEnd(w, before, h) == [w EXCEPT !.hive[h].epoch = before.hive[h].epoch]
assign(w, h, s) == KeepEnd(append(clear_without_end_invalidation(w, h), h, s), w, h)

copy_assign(w, h, src, pocca) ==
  LET w1 == IF pocca THEN [release_storage(w, h) EXCEPT !.hive[h].alloc = w.hive[src].alloc]
            ELSE clear_without_end_invalidation(w, h)
  IN IF h = src THEN w ELSE KeepEnd(append(w1, h, Contents(w, src)), w, h)

EqualAllocators(w, h, src) == w.hive[h].alloc = w.hive[src].alloc

move_assign(w, h, src, pocma) ==
  LET r == release_storage(w, h)
      m == append_moves(clear_without_end_invalidation(w, h), h, src)
  IN IF h = src THEN w
     ELSE IF pocma \/ EqualAllocators(w, h, src)
     THEN touch_both(steal_from([r EXCEPT !.hive[h].alloc = w.hive[src].alloc], h, src), h, src)
     ELSE KeepEnd(IF m.thrown THEN m ELSE clear(m, src), w, h)

(* The constructors; one that throws runs the destructor of what it built. *)
Built(w, h) == IF w.thrown THEN destroy(w, h) ELSE w
construct(w, h, lim, alloc, s) ==
  IF ~is_within_hard_limits(lim) THEN Throw(w)
  ELSE Built(append([w EXCEPT !.hive[h] = Fresh(lim, alloc)], h, s), h)
copy_construct(w, h, src, alloc) == construct(w, h, w.hive[src].limits, alloc, Contents(w, src))
move_construct(w, h, src, alloc) ==
  LET w1 == [w EXCEPT !.hive[h] = Fresh(default_limits, alloc)]
      m == append_moves(w1, h, src)
  IN IF EqualAllocators(w1, h, src) THEN touch_both(steal_from(w1, h, src), h, src)
     ELSE Built(IF m.thrown THEN m ELSE clear(m, src), h)

-----------------------------------------------------------------------------
(* get_iterator: block b has its slots at an address of its own.           *)
SlotSize == 2
Base(b) == b * hard_max * SlotSize
Address(it) == Base(it.blk) + it.idx * SlotSize

Candidate(w, b, target) ==
  LET i == (target - Base(b)) \div SlotSize
  IN /\ target >= Base(b) /\ (target - Base(b)) % SlotSize = 0
     /\ i < w.block[b].high /\ w.block[b].skip[i] = 0 /\ Address(At(b, i)) = target

get_iterator(w, h, target) ==
  LET found == SelectSeq(Ctl(w, h).active, LAMBDA b : Candidate(w, b, target))
  IN IF found = <<>> THEN End(w, h) ELSE At(Head(found), (target - Base(Head(found))) \div SlotSize)

-----------------------------------------------------------------------------
(* __test_invariants *)
RunStarts(k) == {i \in 0..(k.high - 1) : k.skip[i] # 0 /\ (i = 0 \/ k.skip[i - 1] = 0)}
RunLength(k, i) == Min({j \in i..k.high : j = k.high \/ k.skip[j] = 0}) - i
FreeList(k) ==
  LET node[n \in 1..Cardinality(RunStarts(k))] ==
        IF n = 1 THEN k.free ELSE to_wide_index(k.slots[node[n - 1]].next)
  IN node

ValidRuns(k) ==
  /\ k.skip[k.high - 1] = 0
  /\ \A i \in RunStarts(k) : /\ k.skip[i] = RunLength(k, i)
                             /\ k.skip[i + RunLength(k, i) - 1] = RunLength(k, i)
  /\ k.live = Cardinality({i \in 0..(k.high - 1) : k.skip[i] = 0})

(* The free list holds every run once, and its links are reciprocal. *)
ValidFreeList(k) ==
  LET n == Cardinality(RunStarts(k))
      f == FreeList(k)
  IN IF n = 0 THEN k.free = npos
     ELSE /\ f[1] \in RunStarts(k) /\ k.slots[f[1]].previous = SlotNpos
          /\ \A i \in 2..n : f[i] \in RunStarts(k) /\ k.slots[f[i]].previous = f[i - 1]
          /\ \A i, j \in 1..n : f[i] = f[j] => i = j
          /\ k.slots[f[n]].next = SlotNpos

HasRoom(k) == k.free # npos \/ k.high < k.cap

ValidControl(w, h, c) ==
  LET k == w.ctl[c]
      blocks == k.active \o k.reserved
  IN /\ k.owner = h /\ IsInjective(blocks)
     /\ k.capacity = FoldLeft(LAMBDA n, b : n + w.block[b].cap, 0, blocks)
     /\ k.size = FoldLeft(LAMBDA n, b : n + w.block[b].live, 0, k.active)
     /\ \A b \in ToSet(blocks) : w.block[b].control = c /\ w.block[b].cap \in 1..SlotNpos
     /\ \A b \in ToSet(k.active) : /\ w.block[b].live > 0 /\ w.block[b].high \in 1..w.block[b].cap
                                   /\ ValidRuns(w.block[b]) /\ ValidFreeList(w.block[b])
     /\ \A i \in 2..Len(k.active) : w.block[k.active[i - 1]].order < w.block[k.active[i]].order
     /\ \A b \in ToSet(k.active) : w.block[b].order < k.order
     /\ \A b \in ToSet(k.reserved) : w.block[b] = reset_vacant_block(w.block[b])
     /\ IsInjective(k.available)
     /\ ToSet(k.available) = {b \in ToSet(k.active) : HasRoom(w.block[b])}

-----------------------------------------------------------------------------
(* A call: it starts with some fault, and what it leaves is kept up to the *)
(* epoch of end iterators and the numbering of blocks, which nobody holds  *)
(* across calls and which only order the blocks of one control.            *)
Limits == {[min |-> m, max |-> 2 * m] : m \in prog.mins}
Inputs == {<<>>} \cup {<<v>> : v \in prog.values} \cup {<<1, v>> : v \in prog.values}
Alive == {h \in prog.hives : mem.hive[h].alive}

Rank(w, c, n) == IF w.ctl[c] = <<>> THEN n ELSE Cardinality({b \in ToSet(w.ctl[c].active) : w.block[b].order < n})
Settled(w) ==
  [w EXCEPT
    !.fault = 0, !.thrown = FALSE,
    !.hive = [h \in Names |-> [@[h] EXCEPT !.epoch = 0]],
    !.ctl = [c \in Controls |-> IF @[c] = <<>> THEN <<>> ELSE [@[c] EXCEPT !.order = Rank(w, c, @)]],
    !.block = [b \in Blocks |-> IF @[b] = <<>> THEN <<>>
                                ELSE [@[b] EXCEPT !.order = Rank(w, w.block[b].control, @)]]]

Leaves(w, moved) == /\ mem' = [Settled(w) EXCEPT !.moved = moved]
                    /\ contents' = [h \in Hives |-> Contents(w, h)]
                    /\ UNCHANGED prog
Keeps(w) == Leaves(w, "nothing")
Moves(w) == Leaves(w, IF w.thrown THEN "a part" ELSE "all")
Faulty(f) == [mem EXCEPT !.fault = f]

Init == /\ prog \in Programs
        /\ contents = [h \in Hives |-> <<>>]
        /\ mem = [hive |-> [h \in Names |-> Gone], ctl |-> [c \in Controls |-> <<>>],
                  block |-> [b \in Blocks |-> <<>>], objects |-> 0, misfit |-> FALSE,
                  moved |-> "nothing", fault |-> 0, thrown |-> FALSE]

Construct(h, f) == /\ ~mem.hive[h].alive
                   /\ \E l \in Limits, a \in prog.allocators, s \in Inputs : Moves(construct(Faulty(f), h, l, a, s))
CopyConstruct(h, src, f) == /\ ~mem.hive[h].alive /\ src \in Alive
                            /\ \E a \in prog.allocators : Moves(copy_construct(Faulty(f), h, src, a))
MoveConstruct(h, src, f) == /\ ~mem.hive[h].alive /\ src \in Alive
                            /\ \E a \in prog.allocators : Moves(move_construct(Faulty(f), h, src, a))
Destroy(h) == h \in Alive /\ Keeps(destroy(mem, h))

Insert(h, f) == h \in Alive /\ \E v \in prog.values : Keeps(emplace(Faulty(f), h, v))
Assign(h, f) == h \in Alive /\ \E s \in Inputs : Moves(assign(Faulty(f), h, s))
Erase(h) == h \in Alive /\ \E i \in DOMAIN Positions(mem, h) :
              Keeps(erase(mem, h, Positions(mem, h)[i]).mem)
EraseRange(h) == h \in Alive /\ \E i \in DOMAIN Walk(mem, h) : \E j \in i..Len(Walk(mem, h)) :
                   Keeps(erase_range(mem, h, Walk(mem, h)[i], Walk(mem, h)[j]))
EraseIf(h) == h \in Alive /\ \E v \in prog.values : Keeps(erase_if(mem, h, v))
Unique(h) == h \in Alive /\ Keeps(unique(mem, h))
Sort(h, f) == h \in Alive /\ Moves(sort(Faulty(f), h))
Clear(h) == h \in Alive /\ Keeps(clear(mem, h))

Reserve(h, f) == h \in Alive /\ \E n \in 1..(MaxSize + 1) : Keeps(reserve(Faulty(f), h, n))
ShrinkToFit(h, f) == h \in Alive /\ Moves(shrink_to_fit(Faulty(f), h))
TrimCapacity(h) == h \in Alive /\ \/ Keeps(trim_all(mem, h))
                                  \/ \E n \in 1..MaxSize : Keeps(trim_capacity(mem, h, n))
Reshape(h, f) == h \in Alive /\ \E l \in Limits : Moves(reshape(Faulty(f), h, l))

Swap(h, g) == /\ h \in Alive /\ g \in Alive
              /\ \E pocs \in BOOLEAN : /\ pocs \/ EqualAllocators(mem, h, g)
                                       /\ Keeps(swap(mem, h, g, pocs))
Splice(h, src, f) == /\ h \in Alive /\ src \in Alive /\ EqualAllocators(mem, h, src)
                     /\ Keeps(splice(Faulty(f), h, src))
CopyAssign(h, src, f) == /\ h \in Alive /\ src \in Alive
                         /\ \E pocca \in BOOLEAN : Moves(copy_assign(Faulty(f), h, src, pocca))
MoveAssign(h, src, f) == /\ h \in Alive /\ src \in Alive
                         /\ \E pocma \in BOOLEAN : Moves(move_assign(Faulty(f), h, src, pocma))

Upkeep(h) == prog.upkeep /\ (TrimCapacity(h) \/ EraseRange(h) \/ EraseIf(h) \/ Unique(h))
Restructure(h, f) == prog.upkeep /\ (Sort(h, f) \/ Reserve(h, f) \/ ShrinkToFit(h, f) \/ Reshape(h, f))

Next ==
  \/ \E h \in prog.hives : Destroy(h) \/ Erase(h) \/ Clear(h) \/ Upkeep(h)
  \/ \E h \in prog.hives, f \in prog.faults :
       Construct(h, f) \/ Insert(h, f) \/ Assign(h, f) \/ Restructure(h, f)
  \/ \E h, g \in prog.hives : h # g /\ Swap(h, g)
  \/ \E h, g \in prog.hives, f \in prog.faults :
       /\ h # g
       /\ CopyConstruct(h, g, f) \/ MoveConstruct(h, g, f) \/ Splice(h, g, f)
          \/ CopyAssign(h, g, f) \/ MoveAssign(h, g, f)

Spec == Init /\ [][Next]_vars

-----------------------------------------------------------------------------
OfHives(F(_)) == UNION {ToSet(F(h)) : h \in {g \in Hives : HasControl(mem, g)}}
BlocksOf(h) == Ctl(mem, h).active \o Ctl(mem, h).reserved

(* The skipfield, the free lists, the lists of blocks and the counters     *)
(* agree in every hive after any sequence of calls, thrown or not; every   *)
(* block respects the limits of its hive and came from its allocator.      *)
Structure ==
  \A h \in Hives : HasControl(mem, h) =>
    /\ ValidControl(mem, h, mem.hive[h].ctl)
    /\ \A b \in ToSet(BlocksOf(h)) : /\ within(mem.hive[h].limits, mem.block[b].cap)
                                     /\ mem.block[b].alloc = mem.hive[h].alloc

(* Nothing leaks and nothing is freed twice: the allocated controls and    *)
(* blocks are those a hive reaches, the living elements those it counts,   *)
(* and storage went back to the allocator it came from.                    *)
NothingLeaks ==
  /\ {c \in Controls : mem.ctl[c] # <<>>} = {mem.hive[h].ctl : h \in Hives} \ {0}
  /\ Allocated(mem) = OfHives(BlocksOf)
  /\ mem.objects = MapThenSumSet(LAMBDA h : size(mem, h), Hives)
  /\ ~mem.misfit /\ mem.hive[Rebuilt] = Gone

LiveSlots(w, h) == {<<b, i>> \in ToSet(Ctl(w, h).active) \X (0..(SlotNpos - 1)) :
                      i < w.block[b].high /\ w.block[b].skip[i] = 0}

(* ++ from begin() visits every live slot once and arrives at this hive's  *)
(* end(); < orders the iterators that way; -- from end() comes back the    *)
(* same way; get_iterator turns the address of every element into its      *)
(* iterator.                                                               *)
IterationExact ==
  \A h \in Hives : HasControl(mem, h) =>
    LET p == Positions(mem, h)
    IN /\ {<<p[i].blk, p[i].idx>> : i \in DOMAIN p} = LiveSlots(mem, h) /\ Len(p) = size(mem, h)
       /\ Walk(mem, h)[Len(p) + 1] = End(mem, h)
       /\ \A i, j \in DOMAIN Walk(mem, h) : Less(mem, Walk(mem, h)[i], Walk(mem, h)[j]) <=> i < j
       /\ \A i \in DOMAIN p : /\ Decrement(mem, Walk(mem, h)[i + 1]) = p[i]
                              /\ get_iterator(mem, h, Address(p[i])) = p[i]

AllLive(w) == UNION {LiveSlots(w, h) : h \in {g \in Hives : HasControl(w, g)}}

(* Elements do not move: across inserting, erasing, splicing, swapping,    *)
(* reserving and trimming, a slot that stays live keeps its value, and     *)
(* slots only appear or only disappear.                                    *)
Stable ==
  [][mem'.moved = "nothing" =>
       /\ AllLive(mem) \subseteq AllLive(mem') \/ AllLive(mem') \subseteq AllLive(mem)
       /\ \A a \in AllLive(mem) \cap AllLive(mem') :
            mem'.block[a[1]].slots[a[2]] = mem.block[a[1]].slots[a[2]]]_vars

Contract == INSTANCE HiveContract WITH
  MaxInput <- 2, threw <- mem.moved = "a part"

(* The blocks implement a container of values: every call, thrown or not,  *)
(* is a step of the contract.                                              *)
ImplementsContract == Contract!Spec
=============================================================================

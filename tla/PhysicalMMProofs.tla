-------------------------- MODULE PhysicalMMProofs --------------------------
(***************************************************************************)
(* Proofs about PhysicalMM, for every bitmap size, kernel layout, memory   *)
(* map and set of inputs that satisfy its assumptions.                     *)
(***************************************************************************)
EXTENDS PhysicalMM, TLAPS

\* The inductive invariant of every operation of the interface: a frame is
\* accounted for only because no one holds a frame that is not usable, or
\* one that was registered while it was not held.
BookInv == TypeOK /\ Accounting /\ HandedOut

\* With the operations the kernel calls, the flag is sound as well.
FullInv == BookInv /\ FlagSound

-----------------------------------------------------------------------------
(* What the operators on the bitmap compute.                               *)

\* A frame the scan stops at is an available frame the scan covers.
LEMMA LocatedIsReachable ==
    ASSUME NEW bm, NEW p, Located(bm, p)
    PROVE  p \in Pages /\ 8 * FirstByte <= p /\ bm[p] = PAGE_AVAILABLE
<1>1. PICK i \in FirstByte .. (BITMAP_SIZE - 1), k \in 0 .. 7 :
          get_msb_index(bm, i, k) /\ p = 8 * i + k
  BY DEF Located
<1>2. BITMAP_SIZE \in Nat /\ FirstByte \in Nat
  BY LayoutAssumption DEF FirstByte, Pages
<1> QED
  BY <1>1, <1>2 DEF get_msb_index, Pages

\* Nothing is located exactly when no frame the scan covers is available.
LEMMA NothingLocatedMeaning ==
    ASSUME NEW bm
    PROVE  NothingLocated(bm)
             <=> \A p \in Pages : 8 * FirstByte <= p => bm[p] # PAGE_AVAILABLE
<1>0. BITMAP_SIZE \in Nat /\ FirstByte \in Nat
  BY LayoutAssumption DEF FirstByte, Pages
<1>1. ASSUME NothingLocated(bm), NEW p \in Pages, 8 * FirstByte <= p
      PROVE  bm[p] # PAGE_AVAILABLE
  <2>1. p \div 8 \in FirstByte .. (BITMAP_SIZE - 1) /\ p % 8 \in 0 .. 7
        /\ p = 8 * (p \div 8) + (p % 8)
    BY <1>0, <1>1 DEF Pages
  <2> QED
    BY <1>1, <2>1 DEF NothingLocated, NonZero
<1>2. ASSUME \A p \in Pages : 8 * FirstByte <= p => bm[p] # PAGE_AVAILABLE,
             NEW i \in FirstByte .. (BITMAP_SIZE - 1), NEW k \in 0 .. 7
      PROVE  bm[8 * i + k] # PAGE_AVAILABLE
  <2>1. 8 * i + k \in Pages /\ 8 * FirstByte <= 8 * i + k
    BY <1>0 DEF Pages
  <2> QED
    BY <1>2, <2>1
<1> QED
  BY <1>1, <1>2 DEF NothingLocated, NonZero

\* The bitmap after boot marks the usable frames and no other.
LEMMA BootBitmap ==
    ASSUME NEW found \in SUBSET Pages
    PROVE  /\ phy_memory_manager_init(found)
                \in [Pages -> {PAGE_UNAVAILABLE, PAGE_AVAILABLE}]
           /\ \A p \in Pages :
                phy_memory_manager_init(found)[p] = PAGE_AVAILABLE
                  <=> /\ p \in found /\ LOW_END <= p
                      /\ ~(KERNEL_START <= p /\ p < KERNEL_END)
<1>1. Pages \subseteq Nat /\ KERNEL_START \in Nat /\ KERNEL_END \in Nat
      /\ LOW_END \in Nat /\ KERNEL_START <= KERNEL_END /\ 0 <= LOW_END
  BY LayoutAssumption DEF Pages
<1> QED
  BY <1>1 DEF phy_memory_manager_init, change_pages_state, Address,
              PAGE_AVAILABLE, PAGE_UNAVAILABLE

-----------------------------------------------------------------------------
(* Initial states and one step per operation.                              *)

LEMMA InitBook ==
    Init => FullInv
<1> SUFFICES ASSUME Init PROVE FullInv
  OBVIOUS
<1>1. ram \in SUBSET Pages
  BY InputsAssumption DEF Init
<1>2. 0 \in Pages
  BY LayoutAssumption DEF Pages
<1>3. TypeOK
  BY <1>1, <1>2, BootBitmap DEF Init, TypeOK, NULL, SUCCESS
<1>4. Accounting
  BY <1>1, BootBitmap DEF Init, Accounting, Usable
<1>5. HandedOut /\ FlagSound
  BY DEF Init, HandedOut, FlagSound
<1> QED
  BY <1>3, <1>4, <1>5 DEF FullInv, BookInv

LEMMA AllocateBook ==
    ASSUME BookInv, allocate_physical_page
    PROVE  BookInv'
<1> USE DEF BookInv
<1>1. PICK p \in Pages :
        /\ Located(bitmap, p)
        /\ bitmap' = [bitmap EXCEPT ![p] = PAGE_UNAVAILABLE]
        /\ held' = held \cup {p}
        /\ answer' = p
  BY DEF allocate_physical_page, change_page_state, Address
<1>2. 8 * FirstByte <= p /\ bitmap[p] = PAGE_AVAILABLE
  BY <1>1, LocatedIsReachable
<1>3. UNCHANGED <<no_page_available, ram, reserved, early>>
  BY DEF allocate_physical_page
<1>4. p \in Usable /\ p \notin held /\ (p \in reserved => p \in early)
  BY <1>2 DEF Accounting
<1>5. TypeOK'
  BY <1>1, <1>3 DEF TypeOK, PAGE_AVAILABLE, PAGE_UNAVAILABLE, SUCCESS
<1>6. Accounting'
  BY <1>1, <1>3 DEF TypeOK, Accounting, Usable, PAGE_AVAILABLE, PAGE_UNAVAILABLE
<1>7. HandedOut'
  BY <1>1, <1>2, <1>3, <1>4 DEF HandedOut, Usable
<1> QED
  BY <1>5, <1>6, <1>7

LEMMA RefuseBook ==
    ASSUME BookInv, allocate_physical_page_null
    PROVE  BookInv'
<1>1. 0 \in Pages
  BY LayoutAssumption DEF Pages
<1> QED
  BY <1>1 DEF BookInv, allocate_physical_page_null, TypeOK, Accounting,
              HandedOut, Usable, NULL, SUCCESS

LEMMA FreeBook ==
    ASSUME BookInv, NEW a \in [page : held, low : LowBits],
           free_physical_page(a)
    PROVE  BookInv'
<1> USE DEF BookInv
<1>1. a.page \in held /\ a.page \in Pages /\ a.page \in Usable
      /\ (a.page \in reserved => a.page \in early)
  BY DEF TypeOK, HandedOut
<1>2. UNCHANGED <<ram, reserved, early, answer>>
  BY DEF free_physical_page
<1>3. CASE a.low # 0
  <2>1. UNCHANGED <<bitmap, no_page_available, held>>
    BY <1>3 DEF free_physical_page, change_page_state, SUCCESS,
                INVALID_ARGUMENT, TypeOK
  <2> QED
    BY <1>2, <2>1 DEF TypeOK, Accounting, HandedOut, Usable, SUCCESS
<1>4. CASE a.low = 0
  <2>1. /\ bitmap' = [bitmap EXCEPT ![a.page] = PAGE_AVAILABLE]
        /\ no_page_available' = FALSE
        /\ held' = held \ {a.page}
    BY <1>4 DEF free_physical_page, change_page_state, SUCCESS
  <2>2. TypeOK'
    BY <1>2, <2>1 DEF TypeOK, PAGE_AVAILABLE
  <2>3. Accounting'
    BY <1>1, <1>2, <2>1 DEF TypeOK, Accounting, Usable, PAGE_AVAILABLE
  <2>4. HandedOut'
    BY <1>2, <2>1 DEF HandedOut, Usable
  <2> QED
    BY <2>2, <2>3, <2>4
<1> QED
  BY <1>3, <1>4

LEMMA RegisterBook ==
    ASSUME BookInv, NEW begin \in Bounds, NEW end \in Bounds,
           register_physical_pages(begin, end)
    PROVE  BookInv'
<1> USE DEF BookInv
<1>1. UNCHANGED <<no_page_available, ram, held, answer>>
  BY DEF register_physical_pages
<1>3. CASE begin.low # 0 \/ end.low # 0 \/ end.page < begin.page
  <2>1. UNCHANGED <<bitmap, reserved, early>>
    BY <1>3 DEF register_physical_pages, change_pages_state, SUCCESS,
                INVALID_ARGUMENT
  <2> QED
    BY <1>1, <2>1 DEF TypeOK, Accounting, HandedOut, Usable, SUCCESS
<1>4. CASE ~(begin.low # 0 \/ end.low # 0 \/ end.page < begin.page)
  <2>1. /\ bitmap' = [p \in Pages |-> IF p \in Region(begin, end)
                                      THEN PAGE_UNAVAILABLE ELSE bitmap[p]]
        /\ reserved' = reserved \cup Region(begin, end)
        /\ early' = (early \ Region(begin, end)) \cup (Region(begin, end) \cap held)
    BY <1>4 DEF register_physical_pages, change_pages_state, SUCCESS, Region
  <2>2. TypeOK'
    BY <1>1, <2>1 DEF TypeOK, Region, PAGE_UNAVAILABLE, SUCCESS
  <2>3. Accounting'
    BY <1>1, <2>1 DEF TypeOK, Accounting, Usable, PAGE_AVAILABLE, PAGE_UNAVAILABLE
  <2>4. HandedOut'
    BY <1>1, <2>1 DEF HandedOut, Usable
  <2> QED
    BY <2>2, <2>3, <2>4
<1> QED
  BY <1>3, <1>4

LEMMA UnregisterBook ==
    ASSUME BookInv, NEW begin \in Bounds, NEW end \in Bounds,
           unregister_physical_pages(begin, end)
    PROVE  BookInv'
<1> USE DEF BookInv
<1>1. UNCHANGED <<no_page_available, ram, held, answer>>
  BY DEF unregister_physical_pages
<1>2. Region(begin, end) \subseteq (reserved \cap Usable) \ held
  BY DEF unregister_physical_pages
<1>3. CASE begin.low # 0 \/ end.low # 0 \/ end.page < begin.page
  <2>1. UNCHANGED <<bitmap, reserved, early>>
    BY <1>3 DEF unregister_physical_pages, change_pages_state, SUCCESS,
                INVALID_ARGUMENT
  <2> QED
    BY <1>1, <2>1 DEF TypeOK, Accounting, HandedOut, Usable, SUCCESS
<1>4. CASE ~(begin.low # 0 \/ end.low # 0 \/ end.page < begin.page)
  <2>1. /\ bitmap' = [p \in Pages |-> IF p \in Region(begin, end)
                                      THEN PAGE_AVAILABLE ELSE bitmap[p]]
        /\ reserved' = reserved \ Region(begin, end)
        /\ early' = early \ Region(begin, end)
    BY <1>4 DEF unregister_physical_pages, change_pages_state, SUCCESS, Region
  <2>2. TypeOK'
    BY <1>1, <2>1 DEF TypeOK, PAGE_AVAILABLE, SUCCESS
  <2>3. Accounting'
    BY <1>1, <1>2, <2>1 DEF TypeOK, Accounting, HandedOut, Usable,
                            PAGE_AVAILABLE, PAGE_UNAVAILABLE
  <2>4. HandedOut'
    BY <1>1, <1>2, <2>1 DEF HandedOut, Usable
  <2> QED
    BY <2>2, <2>3, <2>4
<1> QED
  BY <1>3, <1>4

-----------------------------------------------------------------------------
(* The invariants of the specifications.                                   *)

LEMMA NextBook ==
    BookInv /\ [NextAll]_vars => BookInv'
<1> SUFFICES ASSUME BookInv, [NextAll]_vars PROVE BookInv'
  OBVIOUS
<1>1. CASE allocate_physical_page
  BY <1>1, AllocateBook
<1>2. CASE allocate_physical_page_null
  BY <1>2, RefuseBook
<1>3. CASE \E a \in [page : held, low : LowBits] : free_physical_page(a)
  BY <1>3, FreeBook
<1>4. CASE \E begin, end \in Bounds : register_physical_pages(begin, end)
  BY <1>4, RegisterBook
<1>5. CASE \E begin, end \in Bounds : unregister_physical_pages(begin, end)
  BY <1>5, UnregisterBook
<1>6. CASE UNCHANGED vars
  BY <1>6 DEF vars, BookInv, TypeOK, Accounting, HandedOut, Usable
<1> QED
  BY <1>1, <1>2, <1>3, <1>4, <1>5, <1>6 DEF NextAll, Next

\* A scan of a bitmap with fewer bits set finds nothing where a scan of the
\* other found nothing.
LEMMA ClearingKeepsNothing ==
    ASSUME NEW bm, NEW bn, NothingLocated(bm),
           \A p \in Pages : bn[p] = PAGE_AVAILABLE => bm[p] = PAGE_AVAILABLE
    PROVE  NothingLocated(bn)
BY NothingLocatedMeaning

LEMMA NextFlag ==
    FullInv /\ [Next]_vars => FlagSound'
<1> SUFFICES ASSUME FullInv, [Next]_vars PROVE FlagSound'
  OBVIOUS
<1>0. FlagSound /\ TypeOK
  BY DEF FullInv, BookInv
<1>1. CASE allocate_physical_page
  BY <1>1 DEF allocate_physical_page, FlagSound
<1>2. CASE allocate_physical_page_null
  BY <1>0, <1>2 DEF allocate_physical_page_null, FlagSound
<1>3. ASSUME NEW a \in [page : held, low : LowBits], free_physical_page(a)
      PROVE  FlagSound'
  <2>1. CASE a.low # 0
    <3>1. UNCHANGED <<bitmap, no_page_available>>
      BY <1>3, <2>1 DEF free_physical_page, change_page_state, SUCCESS,
                        INVALID_ARGUMENT
    <3> QED
      BY <1>0, <3>1 DEF FlagSound, NothingLocated, NonZero
  <2>2. CASE a.low = 0
    <3>1. no_page_available' = FALSE
      BY <1>3, <2>2 DEF free_physical_page, change_page_state, SUCCESS
    <3> QED
      BY <3>1 DEF FlagSound
  <2> QED
    BY <2>1, <2>2
<1>4. ASSUME NEW begin \in Bounds, NEW end \in Bounds,
             register_physical_pages(begin, end)
      PROVE  FlagSound'
  <2>1. no_page_available' = no_page_available
    BY <1>4 DEF register_physical_pages
  <2>2. \A p \in Pages : bitmap'[p] = PAGE_AVAILABLE => bitmap[p] = PAGE_AVAILABLE
    BY <1>4 DEF register_physical_pages, change_pages_state, PAGE_AVAILABLE,
                PAGE_UNAVAILABLE
  <2>3. NothingLocated(bitmap) => NothingLocated(bitmap')
    BY <2>2, ClearingKeepsNothing
  <2> QED
    BY <1>0, <2>1, <2>3 DEF FlagSound, NothingLocated, NonZero
<1>5. CASE UNCHANGED vars
  BY <1>0, <1>5 DEF vars, FlagSound, NothingLocated, NonZero
<1> QED
  BY <1>1, <1>2, <1>3, <1>4, <1>5 DEF Next

LEMMA BookAlways == SpecAll => []BookInv
<1>1. Init => BookInv
  BY InitBook DEF FullInv
<1>2. BookInv /\ [NextAll]_vars => BookInv'
  BY NextBook
<1> QED
  BY <1>1, <1>2, PTL DEF SpecAll

\* The bitmap keeps one bit for every frame, and the books of held and
\* registered frames stay among the frames, whatever sequence of calls is
\* made, unregistering included.
THEOREM TypeSafe == SpecAll => []TypeOK
<1>1. BookInv => TypeOK
  BY DEF BookInv
<1> QED
  BY <1>1, BookAlways, PTL

\* Exact accounting: a bit is set just for the usable frames that no one
\* holds and that no registration withdrew.
THEOREM BookSafe == SpecAll => []Accounting
<1>1. BookInv => Accounting
  BY DEF BookInv
<1> QED
  BY <1>1, BookAlways, PTL

\* No caller of allocate_physical_page ever holds a frame of low memory or of
\* the kernel, and one of a registered region only if it was handed out
\* before the region was registered.
THEOREM HandedOutSafe == SpecAll => []HandedOut
<1>1. BookInv => HandedOut
  BY DEF BookInv
<1> QED
  BY <1>1, BookAlways, PTL

LEMMA SpecFull == Spec => []FullInv
<1>1. Init => FullInv
  BY InitBook
<1>2. FullInv /\ [Next]_vars => FullInv'
  <2> SUFFICES ASSUME FullInv, [Next]_vars PROVE FullInv'
    OBVIOUS
  <2>1. BookInv'
    BY NextBook DEF FullInv, NextAll
  <2>2. FlagSound'
    BY NextFlag
  <2> QED
    BY <2>1, <2>2 DEF FullInv
<1> QED
  BY <1>1, <1>2, PTL DEF Spec

\* The cached flag never hides an available frame from the operations the
\* kernel calls.
THEOREM FlagSafe == Spec => []FlagSound
<1>1. FullInv => FlagSound
  BY DEF FullInv
<1> QED
  BY <1>1, SpecFull, PTL

-----------------------------------------------------------------------------
(* The refinement.                                                         *)

LEMMA RefineInit ==
    Init => Allocator!PInit
<1> SUFFICES ASSUME Init PROVE Allocator!PInit
  OBVIOUS
<1>1. Accounting
  BY InitBook DEF FullInv, BookInv
<1>2. bitmap[0] # PAGE_AVAILABLE
  BY <1>1, LayoutAssumption DEF Accounting, Usable, Pages
<1> QED
  BY <1>2 DEF Init, Allocator!PInit, Reachable, NULL

LEMMA RefineNext ==
    FullInv /\ [Next]_vars => [Allocator!PNext]_(Allocator!pvars)
<1> SUFFICES ASSUME FullInv, [Next]_vars
             PROVE  [Allocator!PNext]_(Allocator!pvars)
  OBVIOUS
<1>0. TypeOK /\ Accounting /\ HandedOut /\ FlagSound
  BY DEF FullInv, BookInv
<1>n. 0 \notin held /\ bitmap[0] # PAGE_AVAILABLE
  BY <1>0, LayoutAssumption DEF HandedOut, Accounting, Usable, Pages
<1>1. CASE allocate_physical_page
  <2>1. PICK p \in Pages :
        /\ Located(bitmap, p)
        /\ bitmap' = [bitmap EXCEPT ![p] = PAGE_UNAVAILABLE]
        /\ held' = held \cup {p}
        /\ answer' = p
    BY <1>1 DEF allocate_physical_page, change_page_state, Address
  <2>2. 8 * FirstByte <= p /\ bitmap[p] = PAGE_AVAILABLE
    BY <2>1, LocatedIsReachable
  <2>3. p \in Pages \ {NULL} /\ p \in Reachable
    BY <1>n, <2>2 DEF Reachable, NULL
  <2>4. Reachable' = Reachable \ {p}
    BY <1>0, <2>1 DEF TypeOK, Reachable, PAGE_AVAILABLE, PAGE_UNAVAILABLE
  <2> QED
    BY <2>1, <2>3, <2>4 DEF Allocator!PNext, Allocator!Grant
<1>2. CASE allocate_physical_page_null
  <2>1. NothingLocated(bitmap)
    BY <1>0, <1>2 DEF allocate_physical_page_null, FlagSound
  <2>2. Reachable = {}
    BY <2>1, NothingLocatedMeaning DEF Reachable
  <2>3. Reachable' = Reachable /\ held' = held /\ answer' = NULL
    BY <1>2 DEF allocate_physical_page_null, Reachable
  <2> QED
    BY <2>2, <2>3 DEF Allocator!PNext, Allocator!Refuse
<1>3. ASSUME NEW a \in [page : held, low : LowBits], free_physical_page(a)
      PROVE  [Allocator!PNext]_(Allocator!pvars)
  <2>1. CASE a.low # 0
    <3>1. UNCHANGED <<bitmap, held, answer>>
      BY <1>3, <2>1 DEF free_physical_page, change_page_state, SUCCESS,
                        INVALID_ARGUMENT
    <3> QED
      BY <3>1 DEF Allocator!pvars, Reachable
  <2>2. CASE a.low = 0
    <3>1. /\ bitmap' = [bitmap EXCEPT ![a.page] = PAGE_AVAILABLE]
          /\ held' = held \ {a.page}
          /\ answer' = answer
      BY <1>3, <2>2 DEF free_physical_page, change_page_state, SUCCESS
    <3>2. a.page \in held /\ a.page \in Pages \ {NULL} /\ 8 * FirstByte <= a.page
      BY <1>0, <1>n DEF TypeOK, HandedOut, NULL
    <3>3. Reachable' = Reachable \cup {a.page}
      BY <1>0, <3>1, <3>2 DEF TypeOK, Reachable, PAGE_AVAILABLE, PAGE_UNAVAILABLE
    <3> QED
      BY <3>1, <3>2, <3>3 DEF Allocator!PNext, Allocator!Return
  <2> QED
    BY <2>1, <2>2
<1>4. ASSUME NEW begin \in Bounds, NEW end \in Bounds,
             register_physical_pages(begin, end)
      PROVE  [Allocator!PNext]_(Allocator!pvars)
  <2>1. \A p \in Pages : bitmap'[p] = PAGE_AVAILABLE => bitmap[p] = PAGE_AVAILABLE
    BY <1>4 DEF register_physical_pages, change_pages_state, PAGE_AVAILABLE,
                PAGE_UNAVAILABLE
  <2>2. Reachable' \subseteq Reachable
    BY <2>1 DEF Reachable
  <2>3. UNCHANGED <<held, answer>>
    BY <1>4 DEF register_physical_pages
  <2> QED
    BY <2>2, <2>3 DEF Allocator!PNext, Allocator!Withdraw
<1>5. CASE UNCHANGED vars
  BY <1>5 DEF vars, Allocator!pvars, Reachable
<1> QED
  BY <1>1, <1>2, <1>3, <1>4, <1>5 DEF Next

\* The bitmap scan with its flag implements the abstract page allocator: a
\* frame is granted only while it is free and refused only when none is.
THEOREM Refinement == Spec => ImplementsAllocator
<1>1. Init => Allocator!PInit
  BY RefineInit
<1>2. FullInv /\ [Next]_vars => [Allocator!PNext]_(Allocator!pvars)
  BY RefineNext
<1> QED
  BY <1>1, <1>2, SpecFull, PTL DEF Spec, ImplementsAllocator, Allocator!PSpec
=============================================================================

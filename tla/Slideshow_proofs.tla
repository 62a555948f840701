-------------------------- MODULE Slideshow_proofs --------------------------
(***************************************************************************)
(* The layers of the slideshow, for any playlists, kinds of photos, events *)
(* and number of callbacks under way.                                      *)
(***************************************************************************)
EXTENDS Slideshow, TLAPS

Empty == layer = [l \in Layer |-> "none"]

(* What a swap of the layers that is still to come relies on: the layer on *)
(* standby is visible already, and there is no other swap.                 *)
Swapping == opaque[Standby] = TRUE

(* Between swaps one layer is visible; before the first photo, none is.    *)
Settled ==
  /\ Empty => opaque[Standby] = FALSE
  /\ ~Empty => opaque[activeLayer] = TRUE /\ opaque[Standby] = FALSE

(* As long as no two swaps have overlapped.                                *)
Stacked ==
  ~crossed =>
    \/ ~transitioning /\ shows = 0 /\ Settled
    \/ transitioning /\ shows = 0 /\ Swapping /\ ~Empty
    \/ ~transitioning /\ shows = 1 /\ Swapping /\ ~Empty

IInv == TypeOK /\ Stacked

-----------------------------------------------------------------------------
(* A playlist that is not empty has Count entries.                         *)
LEMMA Lists ==
  ASSUME NEW list \in Playlist \cup {<<>>}
  PROVE  /\ Len(list) \in {0, Count}
         /\ list # <<>> => list \in [1..Count -> Kind] /\ Len(list) = Count
<1>1. CASE list = <<>>
  BY <1>1
<1>2. CASE list \in [1..Count -> Kind]
  <2>1. Count \in Nat /\ Count > 1
    BY SlideshowAssumption
  <2>2. list \in Seq(Kind) /\ Len(list) = Count
    BY <1>2, <2>1
  <2> QED
    BY <1>2, <2>1, <2>2
<1> QED
  BY <1>1, <1>2 DEF Playlist

(* An entry within the playlist is a kind of photo.                        *)
LEMMA Entries ==
  ASSUME NEW list \in [1..Count -> Kind], NEW i \in 0..(Count - 1)
  PROVE  At(list, i) \in {"image", "video"}
<1>1. i + 1 \in 1..Count
  BY SlideshowAssumption
<1>2. list[i + 1] \in Kind
  BY <1>1
<1> QED
  BY <1>2, SlideshowAssumption DEF At

(* The index after the last one is the first.                              *)
LEMMA NextIndex ==
  ASSUME NEW i \in 0..(Count - 1)
  PROVE  (i + 1) % Count \in 0..(Count - 1)
BY SlideshowAssumption

(* The two layers.                                                         *)
LEMMA Layers ==
  ASSUME activeLayer \in Layer
  PROVE  /\ Standby \in Layer /\ Standby # activeLayer
         /\ \A l \in Layer : l # activeLayer => l = Standby
         /\ Other(Standby) = activeLayer
BY DEF Standby, Other, Layer

(* The bound on the requests under way is kept.                            *)
LEMMA Requesting ==
  ASSUME NEW n \in 0..MaxPending
  PROVE  Requested(n) \in 0..MaxPending
BY SlideshowAssumption DEF Requested

-----------------------------------------------------------------------------
(* advance() keeps the types of what it changes.                           *)
LEMMA AdvanceTypes ==
  ASSUME TypeOK, NEW lay \in [Layer -> Element], NEW due \in BOOLEAN,
         Advance(lay, due)
  PROVE  /\ index' \in 0..(Count - 1) /\ activeLayer' \in Layer
         /\ transitioning' \in BOOLEAN /\ timer' \in BOOLEAN
         /\ crossed' \in BOOLEAN /\ refreshes' \in 0..MaxPending
         /\ layer' \in [Layer -> Element] /\ opaque' \in [Layer -> BOOLEAN]
<1> USE DEF TypeOK
<1>1. CASE Blocked
  BY <1>1 DEF Advance
<1>2. CASE ~Blocked
  <2> DEFINE next == (index + 1) % Len(ordered)
             shown == [opaque EXCEPT ![Standby] = TRUE]
  <2>1. Len(ordered) = Count /\ ordered \in [1..Count -> Kind]
    <3>1. Len(ordered) \in {0, Count} /\ Len(ordered) > 1
      BY <1>2, Lists DEF Blocked
    <3>2. ordered # <<>>
      BY <3>1
    <3> QED
      BY <3>2, Lists
  <2>2. next \in 0..(Count - 1)
    BY <2>1, NextIndex
  <2>3. At(ordered, next) \in Element
    BY <2>1, <2>2, Entries DEF Element
  <2>4. index' = next /\ layer' = [lay EXCEPT ![Standby] = At(ordered, next)]
    BY <1>2 DEF Advance
  <2>5. refreshes' \in 0..MaxPending
    BY <1>2, Requesting DEF Advance
  <2>6. crossed' \in BOOLEAN
    <3>1. crossed' = (shows > 0)
      BY <1>2, Zenon DEF Advance
    <3> QED
      BY <3>1
  <2>7. shown \in [Layer -> BOOLEAN] /\ Standby \in Layer
    BY Layers
  <2>8. CASE transitioning' = TRUE /\ opaque' = shown /\ timer' = due
             /\ UNCHANGED activeLayer
    BY <2>2, <2>3, <2>4, <2>5, <2>6, <2>7, <2>8
  <2>9. CASE SwapLayers(shown) /\ ResetTimer(ordered, next) /\ UNCHANGED transitioning
    <3>1. activeLayer' \in Layer /\ opaque' \in [Layer -> BOOLEAN]
      BY <2>7, <2>9 DEF SwapLayers
    <3>2. timer' \in BOOLEAN
      BY <2>9 DEF ResetTimer
    <3> QED
      BY <2>2, <2>3, <2>4, <2>5, <2>6, <2>9, <3>1, <3>2
  <2> QED
    BY <1>2, <2>8, <2>9 DEF Advance
<1> QED
  BY <1>1, <1>2

(* Every step keeps the types.                                             *)
LEMMA TypeNext == TypeOK /\ [Next]_vars => TypeOK'
<1> SUFFICES ASSUME TypeOK, [Next]_vars PROVE TypeOK'
  OBVIOUS
<1> USE DEF TypeOK
<1>0. /\ 0 \in 0..MaxPending /\ 0 \in 0..(Count - 1)
      /\ \A n \in 0..MaxPending : n > 0 => n - 1 \in 0..MaxPending
      /\ \A n \in 0..MaxPending : n < MaxPending => n + 1 \in 0..MaxPending
  BY SlideshowAssumption
<1>1. ASSUME NEW list \in Playlist, InitReply(list) PROVE TypeOK'
  <2>1. CASE list = <<>>
    BY <1>0, <1>1, <2>1 DEF InitReply, pendingVars
  <2>2. CASE list # <<>>
    <3>1. At(list, 0) \in Element
      BY <1>0, <2>2, Lists, Entries DEF Element
    <3>2. layer' \in [Layer -> Element] /\ opaque' \in [Layer -> BOOLEAN]
      BY <1>1, <2>2, <3>1 DEF InitReply, Layer
    <3>3. timer' \in BOOLEAN /\ crossed' \in BOOLEAN
      BY <1>1, <2>2 DEF InitReply, ResetTimer
    <3> QED
      BY <1>0, <1>1, <3>2, <3>3 DEF InitReply, pendingVars
  <2> QED
    BY <2>1, <2>2
<1>2. ASSUME NEW lay \in [Layer -> Element], NEW due \in BOOLEAN,
             Advance(lay, due), UNCHANGED <<ready, ordered, changes, shows>>,
             caps' \in 0..MaxPending
      PROVE  TypeOK'
  BY <1>2, AdvanceTypes
<1>3. CASE TimerFires
  BY <1>2, <1>3 DEF TimerFires
<1>4. CASE CapFires
  BY <1>0, <1>2, <1>4 DEF CapFires, Due
<1>5. ASSUME NEW l \in Layer,
             ImageFails(l) \/ ImageSkipped(l) \/ VideoStarts(l) \/ VideoOver(l)
      PROVE  TypeOK'
  <2>1. CASE ImageFails(l)
    BY <2>1 DEF ImageFails, playVars, pendingVars, Element
  <2>2. CASE ImageSkipped(l)
    BY <1>2, <2>2 DEF ImageSkipped, Element
  <2>3. CASE VideoStarts(l)
    BY <1>0, <2>3 DEF VideoStarts, playVars, Element
  <2>4. CASE VideoOver(l)
    BY <1>2, <2>4 DEF VideoOver, Element
  <2> QED
    BY <1>5, <2>1, <2>2, <2>3, <2>4
<1>6. CASE TransitionEnds
  BY <1>6, Layers DEF TransitionEnds, SwapLayers, ResetTimer, playVars, pendingVars
<1>7. ASSUME NEW list \in Playlist, RefreshReply(list) PROVE TypeOK'
  BY <1>0, <1>7 DEF RefreshReply, Due, layerVars
<1>8. ASSUME NEW list \in Playlist, ChangeReply(list) PROVE TypeOK'
  BY <1>0, <1>8 DEF ChangeReply, Due, layerVars
<1>9. CASE PhotoChange
  BY <1>0, <1>9 DEF PhotoChange, playVars, layerVars
<1>10. ASSUME NEW kind \in Kind, Show(kind) PROVE TypeOK'
  <2>1. kind \in Element /\ Standby \in Layer
    BY SlideshowAssumption, Layers DEF Element
  <2> QED
    BY <1>0, <1>10, <2>1 DEF Show, playVars
<1>11. CASE ShowEnds
  BY <1>0, <1>11, Layers DEF ShowEnds, Due, SwapLayers, ResetTimer, playVars
<1>12. CASE UNCHANGED vars
  BY <1>12 DEF vars, playVars, layerVars, pendingVars
<1> QED
  BY <1>1, <1>3, <1>4, <1>5, <1>6, <1>7, <1>8, <1>9, <1>10, <1>11, <1>12
  DEF Next, InitSome

-----------------------------------------------------------------------------
(* A swap shows the layer that was standing by, alone.                     *)
LEMMA Swapped ==
  ASSUME TypeOK, NEW o \in [Layer -> BOOLEAN], o[Standby] = TRUE, SwapLayers(o)
  PROVE  opaque'[activeLayer'] = TRUE /\ (opaque[Standby])' = FALSE
<1>1. activeLayer' = Standby /\ opaque' = [o EXCEPT ![activeLayer] = FALSE]
  BY DEF SwapLayers
<1>2. Standby # activeLayer /\ Standby' = activeLayer /\ activeLayer \in Layer
  BY <1>1, Layers DEF TypeOK, Standby
<1> QED
  BY <1>1, <1>2, Layers DEF TypeOK

(* What is in a layer stays until something else is put there.             *)
LEMMA Filled ==
  ASSUME NEW lay \in [Layer -> Element], NEW l \in Layer,
         NEW e \in Element, e # "none"
  PROVE  [lay EXCEPT ![l] = e] # [m \in Layer |-> "none"]
<1>1. [lay EXCEPT ![l] = e][l] = e
  OBVIOUS
<1>2. [m \in Layer |-> "none"][l] = "none"
  OBVIOUS
<1> QED
  BY <1>1, <1>2

(* advance() keeps the layers stacked: it notes a swap that overlaps.      *)
LEMMA AdvanceStacks ==
  ASSUME TypeOK, Stacked, NEW lay \in [Layer -> Element], NEW due \in BOOLEAN,
         lay = [l \in Layer |-> "none"] <=> Empty, Advance(lay, due), shows' = shows
  PROVE  Stacked'
<1>1. CASE Blocked
  <2>1. UNCHANGED <<transitioning, activeLayer, opaque, crossed, shows>>
    BY <1>1 DEF Advance
  <2>2. layer' = lay
    BY <1>1 DEF Advance
  <2>3. Empty' <=> Empty
    BY <2>2 DEF Empty
  <2>4. Standby' = Standby
    BY <2>1 DEF Standby
  <2> QED
    BY <2>1, <2>3, <2>4 DEF Stacked, Settled, Swapping
<1>2. CASE ~Blocked
  <2> DEFINE next == (index + 1) % Len(ordered)
             shown == [opaque EXCEPT ![Standby] = TRUE]
  <2>1. Len(ordered) = Count /\ ordered \in [1..Count -> Kind]
    <3>1. Len(ordered) \in {0, Count} /\ Len(ordered) > 1
      BY <1>2, Lists DEF Blocked, TypeOK
    <3>2. ordered # <<>>
      BY <3>1
    <3> QED
      BY <3>2, Lists DEF TypeOK
  <2>2. At(ordered, next) \in {"image", "video"}
    BY <2>1, NextIndex, Entries DEF TypeOK
  <2>3. Standby \in Layer /\ shown \in [Layer -> BOOLEAN] /\ shown[Standby] = TRUE
    BY Layers DEF TypeOK
  <2>4. ~Empty'
    <3>1. layer' = [lay EXCEPT ![Standby] = At(ordered, next)]
      BY <1>2 DEF Advance
    <3>2. At(ordered, next) \in Element /\ At(ordered, next) # "none"
      BY <2>2 DEF Element
    <3>3. layer' # [l \in Layer |-> "none"]
      BY <2>3, <3>1, <3>2, Filled
    <3> QED
      BY <3>3 DEF Empty
  <2>5. crossed' = (shows > 0) /\ ~transitioning
    BY <1>2, Zenon DEF Advance, Blocked
  <2>6. CASE shows > 0
    BY <2>5, <2>6 DEF Stacked
  <2>7. CASE ~(shows > 0)
    <3>1. shows' = 0
      BY <2>7 DEF TypeOK
    <3>2. CASE transitioning' = TRUE /\ opaque' = shown /\ UNCHANGED activeLayer
      BY <2>3, <2>4, <3>1, <3>2 DEF Stacked, Swapping, Standby
    <3>3. CASE SwapLayers(shown) /\ UNCHANGED transitioning
      <4>1. opaque'[activeLayer'] = TRUE /\ (opaque[Standby])' = FALSE
        BY <2>3, <3>3, Swapped
      <4>2. ~transitioning'
        BY <2>5, <3>3
      <4> QED
        BY <2>4, <3>1, <4>1, <4>2 DEF Stacked, Settled
    <3> QED
      BY <1>2, <3>2, <3>3 DEF Advance
  <2> QED
    BY <2>6, <2>7
<1> QED
  BY <1>1, <1>2

(* Every step keeps the layers stacked.                                    *)
LEMMA StackedNext == TypeOK /\ Stacked /\ [Next]_vars => Stacked'
<1> SUFFICES ASSUME TypeOK, Stacked, [Next]_vars PROVE Stacked'
  OBVIOUS
<1>1. ASSUME UNCHANGED <<transitioning, activeLayer, opaque, crossed, shows>>,
             Empty' <=> Empty
      PROVE  Stacked'
  BY <1>1 DEF Stacked, Settled, Swapping, Standby
<1>2. ASSUME NEW l \in Layer, layer[l] # "none", NEW e \in Element, e # "none"
      PROVE  [layer EXCEPT ![l] = e] # [m \in Layer |-> "none"] /\ ~Empty
  BY <1>2, Filled DEF TypeOK, Empty
<1>3. ASSUME NEW list \in Playlist, InitReply(list) PROVE Stacked'
  <2>1. CASE list = <<>>
    BY <1>1, <1>3, <2>1 DEF InitReply, pendingVars, Empty
  <2>2. CASE list # <<>>
    <3>1. At(list, 0) \in {"image", "video"}
      BY <2>2, Lists, Entries, SlideshowAssumption
    <3>2. layer' = [layer EXCEPT !["A"] = At(list, 0)]
          /\ opaque' = [opaque EXCEPT !["A"] = TRUE]
          /\ UNCHANGED <<activeLayer, transitioning, shows>>
      BY <1>3, <2>2 DEF InitReply, pendingVars
    <3>3. ~Empty'
      BY <3>1, <3>2, Filled DEF TypeOK, Empty, Layer, Element
    <3>4. crossed' = (crossed \/ shows > 0 \/ transitioning \/ activeLayer # "A")
      BY <1>3, <2>2, Zenon DEF InitReply
    <3>5. CASE crossed \/ shows > 0 \/ transitioning \/ activeLayer # "A"
      BY <3>4, <3>5 DEF Stacked
    <3>6. CASE ~crossed /\ ~(shows > 0) /\ ~transitioning /\ activeLayer = "A"
      <4>1. shows = 0 /\ Settled /\ Standby = "B" /\ Standby' = "B"
        BY <3>2, <3>6 DEF TypeOK, Stacked, Standby, Other
      <4>2. opaque[Standby] = FALSE
        BY <4>1 DEF Settled
      <4>3. opaque'["A"] = TRUE /\ opaque'["B"] = FALSE
        BY <3>2, <4>1, <4>2 DEF TypeOK, Layer
      <4> QED
        BY <3>2, <3>3, <3>6, <4>1, <4>3 DEF Stacked, Settled
    <3> QED
      BY <3>5, <3>6
  <2> QED
    BY <2>1, <2>2
<1>4. CASE TimerFires
  BY <1>4, AdvanceStacks DEF TimerFires, TypeOK, Empty
<1>5. CASE CapFires
  BY <1>5, AdvanceStacks DEF CapFires, TypeOK, Empty
<1>6. ASSUME NEW l \in Layer,
             ImageFails(l) \/ ImageSkipped(l) \/ VideoStarts(l) \/ VideoOver(l)
      PROVE  Stacked'
  <2>1. layer \in [Layer -> Element] /\ timer \in BOOLEAN
    BY DEF TypeOK
  <2>2. CASE ImageFails(l)
    BY <1>1, <1>2, <2>2 DEF ImageFails, pendingVars, Empty, Element
  <2>3. CASE ImageSkipped(l)
    <3>1. [layer EXCEPT ![l] = "settled"] # [m \in Layer |-> "none"] /\ ~Empty
      BY <1>2, <2>3 DEF ImageSkipped, Element
    <3>2. [layer EXCEPT ![l] = "settled"] \in [Layer -> Element]
      BY <2>1 DEF Element
    <3> QED
      BY <2>1, <2>3, <3>1, <3>2, AdvanceStacks DEF ImageSkipped
  <2>4. CASE VideoStarts(l)
    BY <1>1, <1>2, <2>4 DEF VideoStarts, Empty, Element
  <2>5. CASE VideoOver(l)
    <3>1. [layer EXCEPT ![l] = "over"] # [m \in Layer |-> "none"] /\ ~Empty
      BY <1>2, <2>5 DEF VideoOver, Element
    <3>2. [layer EXCEPT ![l] = "over"] \in [Layer -> Element]
      BY <2>1 DEF Element
    <3> QED
      BY <2>1, <2>5, <3>1, <3>2, AdvanceStacks DEF VideoOver
  <2> QED
    BY <1>6, <2>2, <2>3, <2>4, <2>5
<1>7. CASE TransitionEnds
  <2>1. SwapLayers(opaque) /\ transitioning /\ ~transitioning'
        /\ UNCHANGED <<layer, crossed, shows>>
    BY <1>7 DEF TransitionEnds, pendingVars
  <2>2. CASE crossed
    BY <2>1, <2>2 DEF Stacked
  <2>3. CASE ~crossed
    <3>1. shows = 0 /\ Swapping /\ ~Empty
      BY <2>1, <2>3 DEF Stacked
    <3>2. opaque'[activeLayer'] = TRUE /\ (opaque[Standby])' = FALSE
      BY <2>1, <3>1, Swapped DEF TypeOK, Swapping
    <3> QED
      BY <2>1, <3>1, <3>2 DEF Stacked, Settled, Empty
  <2> QED
    BY <2>2, <2>3
<1>8. ASSUME NEW list \in Playlist, RefreshReply(list) \/ ChangeReply(list)
      PROVE  Stacked'
  BY <1>1, <1>8 DEF RefreshReply, ChangeReply, layerVars, Empty
<1>9. CASE PhotoChange
  BY <1>1, <1>9 DEF PhotoChange, layerVars, Empty
<1>10. ASSUME NEW kind \in Kind, Show(kind) PROVE Stacked'
  <2>1. kind \in Element /\ kind # "none" /\ Standby \in Layer
    BY SlideshowAssumption, Layers DEF Element, TypeOK
  <2>2. ~Empty'
    BY <1>10, <2>1, Filled DEF Show, Empty, TypeOK
  <2>3. opaque'[Standby] = TRUE /\ Standby' = Standby
    BY <1>10, <2>1 DEF Show, TypeOK, Standby
  <2>4. crossed' = (shows > 0) /\ shows' = shows + 1 /\ ~transitioning'
    BY <1>10, Zenon DEF Show
  <2>5. CASE shows > 0
    BY <2>4, <2>5 DEF Stacked
  <2>6. CASE ~(shows > 0)
    <3>1. shows' = 1
      BY <2>4, <2>6 DEF TypeOK
    <3> QED
      BY <2>2, <2>3, <2>4, <3>1 DEF Stacked, Swapping
  <2> QED
    BY <2>5, <2>6
<1>11. CASE ShowEnds
  <2>1. SwapLayers(opaque) /\ shows > 0 /\ shows' = shows - 1
        /\ UNCHANGED <<layer, transitioning>>
    BY <1>11 DEF ShowEnds, Due
  <2>2. crossed' = (crossed \/ shows > 1 \/ transitioning)
    BY <1>11, Zenon DEF ShowEnds
  <2>3. CASE crossed \/ shows > 1 \/ transitioning
    BY <2>2, <2>3 DEF Stacked
  <2>4. CASE ~crossed /\ ~(shows > 1) /\ ~transitioning
    <3>1. shows = 1 /\ shows' = 0 /\ Swapping /\ ~Empty
      BY <2>1, <2>4 DEF Stacked, TypeOK
    <3>2. opaque'[activeLayer'] = TRUE /\ (opaque[Standby])' = FALSE
      BY <2>1, <3>1, Swapped DEF TypeOK, Swapping
    <3> QED
      BY <2>1, <2>4, <3>1, <3>2 DEF Stacked, Settled, Empty
  <2> QED
    BY <2>3, <2>4
<1>12. CASE UNCHANGED vars
  BY <1>1, <1>12 DEF vars, layerVars, pendingVars, Empty
<1> QED
  BY <1>3, <1>4, <1>5, <1>6, <1>7, <1>8, <1>9, <1>10, <1>11, <1>12
  DEF Next, InitSome

-----------------------------------------------------------------------------
(* The inductive invariant holds in every reachable state.                 *)
THEOREM Invariance == Spec => []IInv
<1>1. Init => IInv
  <2> SUFFICES ASSUME Init PROVE IInv
    OBVIOUS
  <2>1. TypeOK
    <3>1. 0 \in 0..(Count - 1) /\ 0 \in 0..MaxPending
      BY SlideshowAssumption
    <3>2. /\ layer \in [Layer -> Element] /\ opaque \in [Layer -> BOOLEAN]
          /\ activeLayer \in Layer
      BY DEF Init, Layer, Element
    <3>3. ready \in BOOLEAN /\ transitioning \in BOOLEAN /\ timer \in BOOLEAN
          /\ crossed \in BOOLEAN
      BY DEF Init
    <3>4. ordered \in Playlist \cup {<<>>} /\ index \in 0..(Count - 1)
      BY <3>1 DEF Init
    <3>5. {refreshes, changes, caps, shows} \subseteq 0..MaxPending
      BY <3>1 DEF Init
    <3> QED
      BY <3>2, <3>3, <3>4, <3>5 DEF TypeOK
  <2>2. Stacked
    BY DEF Init, Stacked, Settled, Standby, Other, Layer, Empty
  <2> QED
    BY <2>1, <2>2 DEF IInv
<1>2. IInv /\ [Next]_vars => IInv'
  BY TypeNext, StackedNext DEF IInv
<1> QED
  BY <1>1, <1>2, PTL DEF Spec

(* Type correctness of the slideshow; the index stays within a playlist of *)
(* any length.                                                             *)
THEOREM TypeCorrect == Spec => []TypeOK
<1>1. IInv => TypeOK
  BY DEF IInv
<1> QED
  BY <1>1, Invariance, PTL

(* Between swaps the active layer, and it alone, is visible, for any       *)
(* playlists and any number of fetches, cap timers and shows under way.    *)
THEOREM OneLayerShown == Spec => []ActiveOnTop
<1>1. IInv => ActiveOnTop
  BY DEF IInv, Stacked, Settled, Empty, ActiveOnTop, Quiet
<1> QED
  BY <1>1, Invariance, PTL
=============================================================================

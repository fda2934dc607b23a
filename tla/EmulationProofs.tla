---------------------------- MODULE EmulationProofs ----------------------------
(***************************************************************************)
(* Proofs about Vt102Modes, for any number of displays and any modes that  *)
(* are bits of the emulation, and about WindowTitles, for any values and   *)
(* any time.                                                               *)
(***************************************************************************)
EXTENDS AlternateScreen, WindowTitles, TLAPS

(* The values of the emulation's state, as the operators on it take them.  *)
AnyModes == EmulationModes \cup {"AppKeyPad"}
Emulation == [current : Screens, modes : SUBSET AnyModes, saved : SUBSET AnyModes,
              screen : [Screens -> ScreenState],
              size : [columns : Nat \ {0}, lines : Nat \ {0}], charset : [Screens -> Charset],
              tracking : BOOLEAN, bracketed : BOOLEAN, focus : BOOLEAN,
              display : UNION {[D -> Display] : D \in SUBSET Displays}, primary : BOOLEAN]

(* What InStep says of such a value, and the translations.                 *)
Follows(e) == \A d \in DOMAIN e.display : e.display[d] =
                [screen |-> e.current, tracking |-> e.tracking, bracketed |-> e.bracketed]
InUse(e) == /\ e.current = 1 <=> "AppScreen" \in e.modes
            /\ e.primary <=> e.current = 0
Wants(e) == /\ e.bracketed <=> "BracketedPaste" \in e.modes
            /\ e.tracking => e.modes \cap MouseModes # {}
Agree(e) == /\ "Cursor" \in e.screen[0].modes <=> "Cursor" \in e.screen[1].modes
            /\ "NewLine" \in e.screen[0].modes <=> "NewLine" \in e.screen[1].modes
            /\ "NewLine" \in e.modes <=> "NewLine" \in e.screen[0].modes
Translates(c) == ~(c.graphic /\ c.pound) /\ ~(c.savedGraphic /\ c.savedPound)
Sound(e) == /\ e \in Emulation
            /\ Follows(e) /\ InUse(e) /\ Wants(e) /\ Agree(e)
            /\ \A s \in Screens : Translates(e.charset[s])

(* The state keeps its types and its parts in step.                        *)
IInv == ModesTypeOK /\ OneTranslation /\ InStep

LEMMA SoundState == IInv <=> Sound(State) /\ savedModes \subseteq EmulationModes
<1>1. ASSUME IInv PROVE Sound(State) /\ savedModes \subseteq EmulationModes
  <2>1. savedModes \in SUBSET AnyModes /\ savedModes \subseteq EmulationModes
    BY <1>1 DEF IInv, ModesTypeOK, AnyModes
  <2>2. display \in UNION {[D -> Display] : D \in SUBSET Displays}
    BY <1>1 DEF IInv, ModesTypeOK
  <2>3. State \in Emulation
    BY <1>1, <2>1, <2>2 DEF IInv, ModesTypeOK, AnyModes, State, Emulation
  <2>4. ASSUME NEW d \in DOMAIN display
        PROVE  display[d] = [screen |-> current, tracking |-> tracking, bracketed |-> bracketed]
    <3>1. display[d] \in Display
      BY <1>1 DEF IInv, ModesTypeOK
    <3> QED
      BY <1>1, <3>1 DEF IInv, InStep, OneScreenInUse, DisplaysFollow, Display
  <2>5. Follows(State)
    BY <2>4 DEF Follows, State
  <2>6. InUse(State) /\ Wants(State) /\ Agree(State)
    BY <1>1 DEF IInv, InStep, OneScreenInUse, DisplaysFollow, ScreensAgree, SharedModes,
                InUse, Wants, Agree, State
  <2> QED
    BY <1>1, <2>1, <2>3, <2>5, <2>6 DEF IInv, OneTranslation, Translates, Sound, State
<1>2. ASSUME Sound(State), savedModes \subseteq EmulationModes PROVE IInv
  <2>1. State \in Emulation
    BY <1>2 DEF Sound
  <2>2. /\ current \in Screens /\ modes \in SUBSET AnyModes /\ screen \in [Screens -> ScreenState]
        /\ size \in [columns : Nat \ {0}, lines : Nat \ {0}]
        /\ charset \in [Screens -> Charset] /\ tracking \in BOOLEAN /\ bracketed \in BOOLEAN
        /\ reportFocus \in BOOLEAN /\ primary \in BOOLEAN
        /\ display \in UNION {[D -> Display] : D \in SUBSET Displays}
    BY <2>1 DEF State, Emulation
  <2>3. ModesTypeOK
    BY <1>2, <2>2 DEF ModesTypeOK, AnyModes
  <2>4. \A d \in DOMAIN display :
          display[d] = [screen |-> current, tracking |-> tracking, bracketed |-> bracketed]
    BY <1>2 DEF Sound, Follows, State
  <2>5. InStep
    BY <1>2, <2>4 DEF InStep, OneScreenInUse, DisplaysFollow, ScreensAgree, SharedModes,
                      Sound, InUse, Wants, Agree, State
  <2> QED
    BY <1>2, <2>3, <2>5 DEF IInv, OneTranslation, Sound, Translates, State
<1> QED
  BY <1>1, <1>2
(* A signal reaches every display, and changes nothing else.               *)
Kept(x, e) == /\ x.modes = e.modes /\ x.saved = e.saved /\ x.screen = e.screen
              /\ x.charset = e.charset

LEMMA Tracked ==
  ASSUME NEW e, e \in Emulation, Follows(e), NEW on \in BOOLEAN
  PROVE  LET x == RequestTracking(e, on)
         IN  /\ x \in Emulation /\ Follows(x) /\ Kept(x, e) /\ x.tracking = on
             /\ x.current = e.current /\ x.primary = e.primary /\ x.bracketed = e.bracketed
<1> DEFINE D == DOMAIN e.display
           new == [d \in D |-> [e.display[d] EXCEPT !.tracking = on]]
           x == [e EXCEPT !.tracking = on, !.display = new]
<1>1. D \in SUBSET Displays /\ e.display \in [D -> Display]
  BY DEF Emulation
<1>2. new \in [D -> Display]
  BY <1>1 DEF Display
<1>3. new \in UNION {[X -> Display] : X \in SUBSET Displays}
  BY <1>1, <1>2
<1>4. RequestTracking(e, on) = x
  BY DEF RequestTracking, Attached
<1>5. x \in Emulation
  BY <1>3 DEF Emulation
<1>6. x.display = new /\ Kept(x, e) /\ x.tracking = on /\ x.current = e.current
      /\ x.primary = e.primary /\ x.bracketed = e.bracketed
  BY DEF Emulation, Kept
<1>7. ASSUME NEW d \in D
      PROVE  new[d] = [screen |-> e.current, tracking |-> on, bracketed |-> e.bracketed]
  BY DEF Follows
<1>8. Follows(x)
  BY <1>6, <1>7 DEF Follows
<1> QED
  BY <1>4, <1>5, <1>6, <1>8

LEMMA Bracketing ==
  ASSUME NEW e, e \in Emulation, Follows(e), NEW on \in BOOLEAN
  PROVE  LET x == ChangeBracketed(e, on)
         IN  /\ x \in Emulation /\ Follows(x) /\ Kept(x, e) /\ x.bracketed = on
             /\ x.current = e.current /\ x.primary = e.primary /\ x.tracking = e.tracking
<1> DEFINE D == DOMAIN e.display
           new == [d \in D |-> [e.display[d] EXCEPT !.bracketed = on]]
           x == [e EXCEPT !.bracketed = on, !.display = new]
<1>1. D \in SUBSET Displays /\ e.display \in [D -> Display]
  BY DEF Emulation
<1>2. new \in [D -> Display]
  BY <1>1 DEF Display
<1>3. new \in UNION {[X -> Display] : X \in SUBSET Displays}
  BY <1>1, <1>2
<1>4. ChangeBracketed(e, on) = x
  BY DEF ChangeBracketed, Attached
<1>5. x \in Emulation
  BY <1>3 DEF Emulation
<1>6. x.display = new /\ Kept(x, e) /\ x.bracketed = on /\ x.current = e.current
      /\ x.primary = e.primary /\ x.tracking = e.tracking
  BY DEF Emulation, Kept
<1>7. ASSUME NEW d \in D
      PROVE  new[d] = [screen |-> e.current, tracking |-> e.tracking, bracketed |-> on]
  BY DEF Follows
<1>8. Follows(x)
  BY <1>6, <1>7 DEF Follows
<1> QED
  BY <1>4, <1>5, <1>6, <1>8

(* A change of screens takes the displays and the session along.           *)
LEMMA Changes ==
  ASSUME NEW e, e \in Emulation, Follows(e), e.primary <=> e.current = 0, NEW s \in Screens
  PROVE  LET x == SetScreen(e, s)
         IN  /\ x \in Emulation /\ Follows(x) /\ Kept(x, e)
             /\ x.current = s /\ (x.primary <=> s = 0)
             /\ x.tracking = e.tracking /\ x.bracketed = e.bracketed
<1> DEFINE D == DOMAIN e.display
           new == [d \in D |-> [e.display[d] EXCEPT !.screen = s]]
           x == [e EXCEPT !.current = s, !.primary = (s = 0), !.display = new]
<1>1. D \in SUBSET Displays /\ e.display \in [D -> Display]
  BY DEF Emulation
<1>2. new \in [D -> Display]
  BY <1>1 DEF Display
<1>3. new \in UNION {[X -> Display] : X \in SUBSET Displays}
  BY <1>1, <1>2
<1>4. SetScreen(e, s) = IF s = e.current THEN e ELSE x
  BY DEF SetScreen, Attached
<1>5. x \in Emulation
  BY <1>3 DEF Emulation
<1>6. x.display = new /\ Kept(x, e) /\ x.current = s /\ x.primary = (s = 0)
      /\ x.tracking = e.tracking /\ x.bracketed = e.bracketed
  BY DEF Emulation, Kept
<1>7. ASSUME NEW d \in D
      PROVE  new[d] = [screen |-> s, tracking |-> e.tracking, bracketed |-> e.bracketed]
  BY DEF Follows
<1>8. Follows(x)
  BY <1>6, <1>7 DEF Follows
<1>9. CASE s = e.current
  BY <1>4, <1>9 DEF Kept
<1> QED
  BY <1>4, <1>5, <1>6, <1>8, <1>9

(* A new size and the modes of the screens are no business of the others.  *)
Untouched(x, e) == /\ x.modes = e.modes /\ x.saved = e.saved /\ x.charset = e.charset
                   /\ x.tracking = e.tracking /\ x.bracketed = e.bracketed
                   /\ x.current = e.current /\ x.display = e.display /\ x.primary = e.primary

(* What a size does to the screens: the cursors move, nothing else does.   *)
Alike(new, old) == \A s \in Screens : /\ new[s].modes = old[s].modes
                                       /\ new[s].savedCursor = old[s].savedCursor

LEMMA NearestPlace ==
  ASSUME NEW p \in Places, NEW sz \in [columns : Nat \ {0}, lines : Nat \ {0}]
  PROVE  Nearest(p, sz) \in Places
BY DEF Nearest, Least, Places

LEMMA Resized ==
  ASSUME NEW e, e \in Emulation, NEW sz \in [columns : Nat \ {0}, lines : Nat \ {0}]
  PROVE  LET x == SetImageSize(e, sz)
         IN  x \in Emulation /\ Untouched(x, e) /\ Alike(x.screen, e.screen)
<1> DEFINE new == [s \in Screens |-> [e.screen[s] EXCEPT !.cursor = Nearest(@, sz)]]
           x == [e EXCEPT !.size = sz, !.screen = new]
<1>1. ASSUME NEW s \in Screens
      PROVE  /\ new[s] \in ScreenState /\ new[s].modes = e.screen[s].modes
             /\ new[s].savedCursor = e.screen[s].savedCursor
  <2>1. e.screen[s] \in ScreenState
    BY DEF Emulation
  <2>2. Nearest(e.screen[s].cursor, sz) \in Places
    BY <2>1, NearestPlace DEF ScreenState
  <2> QED
    BY <2>1, <2>2 DEF ScreenState
<1>2. new \in [Screens -> ScreenState] /\ Alike(new, e.screen)
  BY <1>1 DEF Alike
<1>3. SetImageSize(e, sz) = IF sz = e.size THEN e ELSE x
  BY DEF SetImageSize
<1> HIDE DEF new
<1>4. x \in Emulation /\ Untouched(x, e) /\ x.screen = new
  BY <1>2 DEF Emulation, Untouched
<1>5. Untouched(e, e) /\ Alike(e.screen, e.screen)
  BY DEF Untouched, Alike
<1> HIDE DEF x
<1> QED
  BY <1>2, <1>3, <1>4, <1>5

LEMMA Sized ==
  ASSUME NEW e, e \in Emulation, NEW n \in Nat \ {0}
  PROVE  LET x == SetColumns(e, n)
         IN  x \in Emulation /\ Untouched(x, e) /\ Alike(x.screen, e.screen)
<1> DEFINE sz == [columns |-> n, lines |-> e.size.lines]
           sized == SetImageSize(e, sz)
           new == [sized.screen EXCEPT ![e.current] = [@ EXCEPT !.cursor = Home]]
<1>1. sz \in [columns : Nat \ {0}, lines : Nat \ {0}]
  BY DEF Emulation
<1>2. SetColumns(e, n) = [sized EXCEPT !.screen = new]
  BY DEF SetColumns
<1> HIDE DEF sz
<1>3. sized \in Emulation /\ Untouched(sized, e) /\ Alike(sized.screen, e.screen)
  BY <1>1, Resized
<1> HIDE DEF sized
<1>4. sized.screen \in [Screens -> ScreenState] /\ e.current \in Screens
  BY <1>3 DEF Emulation
<1>5. new \in [Screens -> ScreenState] /\ Alike(new, e.screen)
  BY <1>3, <1>4 DEF ScreenState, Places, Home, Alike
<1> HIDE DEF new
<1>6. [sized EXCEPT !.screen = new] \in Emulation /\ Untouched([sized EXCEPT !.screen = new], e)
      /\ [sized EXCEPT !.screen = new].screen = new
  BY <1>3, <1>5 DEF Emulation, Untouched
<1> QED
  BY <1>2, <1>5, <1>6

LEMMA Shared ==
  ASSUME NEW e, e \in Emulation, NEW m \in SharedModes, NEW on \in BOOLEAN
  PROVE  LET x == OnScreens(e, m, on)
         IN  /\ x \in Emulation /\ Untouched(x, e)
             /\ \A s \in Screens : x.screen[s].modes = Bit(e.screen[s].modes, m, on)
<1> DEFINE new == [s \in Screens |-> [e.screen[s] EXCEPT !.modes = Bit(@, m, on)]]
<1>1. e.screen \in [Screens -> ScreenState]
  BY DEF Emulation
<1>2. ASSUME NEW s \in Screens
      PROVE  /\ new[s] \in ScreenState
             /\ new[s].modes = Bit(e.screen[s].modes, m, on)
  <2>1. Bit(e.screen[s].modes, m, on) \in SUBSET (LocalModes \cup SharedModes)
    BY <1>1 DEF Bit, ScreenState
  <2> QED
    BY <1>1, <2>1 DEF ScreenState
<1>3. OnScreens(e, m, on) = [e EXCEPT !.screen = new]
  BY DEF OnScreens
<1>4. new \in [Screens -> ScreenState]
  BY <1>2
<1>5. [e EXCEPT !.screen = new] \in Emulation /\ Untouched([e EXCEPT !.screen = new], e)
      /\ [e EXCEPT !.screen = new].screen = new
  BY <1>4 DEF Emulation, Untouched
<1> QED
  BY <1>2, <1>3, <1>5

(* Agree and Translates say nothing of what an Untouched state keeps.      *)
LEMMA Carries ==
  ASSUME NEW e, NEW x, Sound(e), x \in Emulation, Untouched(x, e), Agree(x)
  PROVE  Sound(x)
BY DEF Sound, Untouched, Follows, InUse, Wants

(* A mode whose bit has changed, from `e' to `x', is applied.              *)
LEMMA ApplySound ==
  ASSUME NEW e, Sound(e), NEW m, NEW on \in BOOLEAN,
         NEW x, x \in Emulation, x.saved = e.saved, x.screen = e.screen, x.charset = e.charset,
         x.modes = Bit(e.modes, m, on),
         x.current = e.current, x.tracking = e.tracking, x.bracketed = e.bracketed,
         x.display = e.display, x.primary = e.primary
  PROVE  LET y == Apply(x, m, on) IN Sound(y) /\ y.modes = x.modes /\ y.saved = e.saved
<1> DEFINE y == Apply(x, m, on)
<1>e. e \in Emulation /\ Follows(e) /\ InUse(e) /\ Wants(e) /\ Agree(e)
      /\ \A s \in Screens : Translates(e.charset[s])
  BY DEF Sound
<1>f. Follows(x) /\ (x.primary <=> x.current = 0)
  BY <1>e DEF Follows, InUse
<1>1. CASE m \in MouseModes
  <2>1. y = RequestTracking(x, on)
    BY <1>1 DEF Apply, MouseModes, SharedModes
  <2>2. m \notin {"AppScreen", "BracketedPaste", "NewLine"}
    BY <1>1 DEF MouseModes
  <2> QED
    BY <1>e, <1>f, <1>1, <2>1, <2>2, Tracked DEF Sound, Kept, InUse, Wants, Agree, Bit
<1>2. CASE m = "BracketedPaste"
  <2>1. y = ChangeBracketed(x, on)
    BY <1>2 DEF Apply, MouseModes, SharedModes
  <2> QED
    BY <1>e, <1>f, <1>2, <2>1, Bracketing DEF Sound, Kept, InUse, Wants, Agree, MouseModes, Bit
<1>3. CASE m = "AppScreen"
  <2>1. y = SetScreen(x, IF on THEN 1 ELSE 0)
    BY <1>3 DEF Apply, MouseModes, SharedModes
  <2>2. (IF on THEN 1 ELSE 0) \in Screens
    BY DEF Screens
  <2> QED
    BY <1>e, <1>f, <1>3, <2>1, <2>2, Changes
       DEF Sound, Kept, InUse, Wants, Agree, MouseModes, Bit
<1>4. CASE m \in SharedModes
  <2>1. y = OnScreens(x, m, on)
    BY <1>4 DEF Apply, MouseModes, SharedModes
  <2> DEFINE z == OnScreens(x, m, on)
  <2>a. z \in Emulation /\ Untouched(z, x)
        /\ \A s \in Screens : z.screen[s].modes = Bit(x.screen[s].modes, m, on)
    BY <1>4, Shared
  <2> HIDE DEF z
  <2>b. 0 \in Screens /\ 1 \in Screens /\ m \in {"Cursor", "NewLine"}
    BY <1>4 DEF Screens, SharedModes
  <2>c. z.modes = x.modes /\ \A s \in Screens, n \in {"Cursor", "NewLine"} :
          n \in z.screen[s].modes <=> IF n = m THEN on ELSE n \in e.screen[s].modes
    BY <2>a DEF Untouched, Bit
  <2>d. \A n \in {"Cursor", "NewLine"} : n \in x.modes <=> IF n = m THEN on ELSE n \in e.modes
    BY DEF Bit
  <2>2. Agree(z)
    BY <1>e, <2>b, <2>c, <2>d DEF Agree
  <2> QED
    <3>1. Follows(z)
      BY <1>f, <2>a DEF Follows, Untouched
    <3>2. InUse(z) /\ Wants(z)
      BY <1>e, <2>a, <2>b DEF Untouched, InUse, Wants, MouseModes, Bit
    <3>3. Sound(z) /\ z.modes = x.modes /\ z.saved = e.saved
      BY <1>e, <2>a, <2>2, <3>1, <3>2 DEF Sound, Untouched
    <3> QED
      BY <2>1, <3>3 DEF z
<1>o. ASSUME m \notin MouseModes \cup SharedModes \cup {"BracketedPaste", "AppScreen"}
      PROVE  Sound(x)
  BY <1>e, <1>f, <1>o DEF Sound, InUse, Wants, Agree, SharedModes, Bit
<1>5. CASE m = "Columns132"
  <2> DEFINE n == IF on THEN Wide ELSE Narrow
             z == SetColumns(x, n)
  <2>1. y = IF "Allow132" \in x.modes THEN z ELSE x
    BY <1>5 DEF Apply, MouseModes, SharedModes
  <2>2. Sound(x)
    BY <1>5, <1>o DEF MouseModes, SharedModes
  <2>n. n \in Nat \ {0}
    BY SizesAssumption
  <2> HIDE DEF n
  <2>z. z \in Emulation /\ Untouched(z, x) /\ Alike(z.screen, x.screen)
    BY <2>n, Sized
  <2> HIDE DEF z
  <2>3. Agree(z)
    BY <2>2, <2>z DEF Sound, Agree, Untouched, Screens, Alike
  <2>4. Sound(z) /\ Untouched(z, x)
    BY <2>2, <2>3, <2>z, Carries
  <2> QED
    BY <2>1, <2>2, <2>4 DEF Untouched
<1>6. CASE m \notin MouseModes \cup SharedModes \cup {"Columns132", "BracketedPaste", "AppScreen"}
  <2>1. y = x
    BY <1>6 DEF Apply
  <2> QED
    BY <1>6, <1>o, <2>1
<1> QED
  BY <1>1, <1>2, <1>3, <1>4, <1>5, <1>6

LEMMA ResetModeSound ==
  ASSUME NEW e, Sound(e), NEW m
  PROVE  LET x == ResetMode(e, m)
         IN  Sound(x) /\ x.saved = e.saved /\ x.modes = e.modes \ {m}
<1> DEFINE off == FALSE
           reset == [e EXCEPT !.modes = Bit(@, m, off)]
<1>e. e \in Emulation /\ off \in BOOLEAN /\ ~off
  BY DEF Sound
<1>0. ResetMode(e, m) = Apply(reset, m, off)
  BY DEF ResetMode
<1> HIDE DEF off
<1>1. Bit(e.modes, m, off) \in SUBSET AnyModes /\ Bit(e.modes, m, off) = e.modes \ {m}
  BY <1>e DEF Bit, Emulation
<1>2. /\ reset \in Emulation /\ reset.modes = Bit(e.modes, m, off) /\ reset.current = e.current
      /\ reset.tracking = e.tracking /\ reset.bracketed = e.bracketed
      /\ reset.display = e.display /\ reset.primary = e.primary
      /\ reset.saved = e.saved /\ reset.screen = e.screen /\ reset.charset = e.charset
  BY <1>e, <1>1 DEF Emulation
<1> HIDE DEF reset
<1>4. Sound(Apply(reset, m, off)) /\ Apply(reset, m, off).modes = reset.modes
      /\ Apply(reset, m, off).saved = e.saved
  BY <1>e, <1>2, ApplySound
<1> QED
  BY <1>0, <1>1, <1>2, <1>4

LEMMA SetModeSound ==
  ASSUME NEW e, Sound(e), NEW m \in AnyModes
  PROVE  Sound(SetMode(e, m)) /\ SetMode(e, m).saved = e.saved
         /\ (m # "Columns132" => SetMode(e, m).modes = e.modes \cup {m})
<1> DEFINE up == TRUE
           off == FALSE
           set == [e EXCEPT !.modes = Bit(@, m, up)]
           not == [e EXCEPT !.modes = Bit(@, m, off)]
<1>e. e \in Emulation /\ up \in BOOLEAN /\ off \in BOOLEAN
  BY DEF Sound
<1>0. up /\ ~off
  OBVIOUS
<1>4. SetMode(e, m) = IF m = "Columns132" /\ "Allow132" \notin e.modes
                      THEN not ELSE Apply(set, m, up)
  BY DEF SetMode
<1>5. ResetMode(e, m) = Apply(not, m, off)
  BY DEF ResetMode
<1> HIDE DEF up, off
<1>1. /\ Bit(e.modes, m, up) \in SUBSET AnyModes /\ Bit(e.modes, m, up) = e.modes \cup {m}
      /\ Bit(e.modes, m, off) \in SUBSET AnyModes
      /\ "Allow132" \notin e.modes => "Allow132" \notin Bit(e.modes, m, off)
  BY <1>0, <1>e DEF Bit, Emulation
<1>2. /\ set \in Emulation /\ set.modes = Bit(e.modes, m, up) /\ set.current = e.current
      /\ set.tracking = e.tracking /\ set.bracketed = e.bracketed
      /\ set.display = e.display /\ set.primary = e.primary
      /\ set.saved = e.saved /\ set.screen = e.screen /\ set.charset = e.charset
  BY <1>e, <1>1 DEF Emulation
<1>3. not.modes = Bit(e.modes, m, off)
  BY <1>e DEF Emulation
<1> HIDE DEF set, not
<1>6. CASE m = "Columns132" /\ "Allow132" \notin e.modes
  <2>1. Apply(not, m, off) = not
    BY <1>1, <1>3, <1>6 DEF Apply, MouseModes, SharedModes
  <2> QED
    BY <1>4, <1>5, <1>6, <2>1, ResetModeSound
<1>7. CASE ~(m = "Columns132" /\ "Allow132" \notin e.modes)
  <2>1. Sound(Apply(set, m, up)) /\ Apply(set, m, up).modes = set.modes
        /\ Apply(set, m, up).saved = e.saved
    BY <1>e, <1>2, ApplySound
  <2> QED
    BY <1>1, <1>2, <1>4, <1>7, <2>1
<1> QED
  BY <1>6, <1>7

SavedFrom(saved, e, m) == saved \subseteq e.saved \cup ({m} \cap e.modes)

LEMMA Remembered ==
  ASSUME NEW e, Sound(e), NEW m, NEW on \in BOOLEAN, on <=> m \in e.modes
  PROVE  LET x == Remember(e, m, on) IN Sound(x) /\ x.modes = e.modes /\ SavedFrom(x.saved, e, m)
<1> DEFINE x == Remember(e, m, on)
           kept == Bit(e.saved, m, on)
<1>1. e \in Emulation
  BY DEF Sound
<1>2. kept \in SUBSET AnyModes /\ SavedFrom(kept, e, m)
  BY <1>1 DEF Bit, Emulation, SavedFrom
<1>3. x = [e EXCEPT !.saved = kept]
  BY DEF Remember
<1> HIDE DEF kept
<1>4. x \in Emulation /\ x.saved = kept
  BY <1>1, <1>2, <1>3 DEF Emulation
<1>5. /\ x.modes = e.modes /\ x.current = e.current /\ x.screen = e.screen
      /\ x.charset = e.charset /\ x.tracking = e.tracking /\ x.bracketed = e.bracketed
      /\ x.display = e.display /\ x.primary = e.primary
  BY <1>1, <1>3 DEF Emulation
<1>6. Sound(x)
  BY <1>4, <1>5 DEF Sound, Follows, InUse, Wants, Agree
<1> QED
  BY <1>2, <1>4, <1>5, <1>6

LEMMA SaveSound ==
  ASSUME NEW e, Sound(e), NEW m
  PROVE  LET x == SaveMode(e, m) IN Sound(x) /\ x.modes = e.modes /\ SavedFrom(x.saved, e, m)
<1> DEFINE on == m \in e.modes
<1>1. SaveMode(e, m) = Remember(e, m, on)
  BY DEF SaveMode
<1>2. on \in BOOLEAN /\ (on <=> m \in e.modes)
  OBVIOUS
<1> HIDE DEF on
<1> QED
  BY <1>1, <1>2, Remembered

(* Changes of the character sets, and of the screens' cursors and saved    *)
(* cursors, are seen by no other part.                                     *)
LEMMA CharsetSound ==
  ASSUME NEW e, Sound(e), NEW s \in Screens, NEW c \in Charset, Translates(c)
  PROVE  LET x == [e EXCEPT !.charset[s] = c]
         IN  /\ Sound(x) /\ x.current = e.current /\ x.saved = e.saved
             /\ x.charset[s] = c /\ x.screen = e.screen /\ x.modes = e.modes
<1> DEFINE new == [e.charset EXCEPT ![s] = c]
           x == [e EXCEPT !.charset = new]
<1>1. e \in Emulation /\ e.charset \in [Screens -> Charset]
      /\ \A t \in Screens : Translates(e.charset[t])
  BY DEF Sound, Emulation
<1>2. new \in [Screens -> Charset] /\ new[s] = c /\ \A t \in Screens : Translates(new[t])
  BY <1>1
<1>3. [e EXCEPT !.charset[s] = c] = x
  OBVIOUS
<1>4. x \in Emulation /\ x.charset = new
  BY <1>1, <1>2 DEF Emulation
<1>5. /\ x.modes = e.modes /\ x.current = e.current /\ x.screen = e.screen
      /\ x.saved = e.saved /\ x.tracking = e.tracking /\ x.bracketed = e.bracketed
      /\ x.display = e.display /\ x.primary = e.primary
  BY <1>1 DEF Emulation
<1> HIDE DEF x, new
<1>6. Sound(x)
  BY <1>2, <1>4, <1>5 DEF Sound, Follows, InUse, Wants, Agree
<1> QED
  BY <1>2, <1>3, <1>4, <1>5, <1>6

LEMMA UseSound ==
  ASSUME NEW e, Sound(e), NEW n \in 0 .. 3
  PROVE  LET x == UseCharset(e, n) IN Sound(x) /\ x.current = e.current /\ x.saved = e.saved
<1> DEFINE s == e.current
           old == e.charset[s]
           c == [old EXCEPT !.cu = n, !.graphic = (old.set[n] = "0"), !.pound = (old.set[n] = "A")]
<1>1. s \in Screens /\ old \in Charset /\ Translates(old)
  BY DEF Sound, Emulation
<1>2. c \in Charset /\ Translates(c)
  BY <1>1 DEF Charset, Translates
<1>3. UseCharset(e, n) = [e EXCEPT !.charset[s] = c]
  BY DEF UseCharset
<1> HIDE DEF c
<1> QED
  BY <1>1, <1>2, <1>3, CharsetSound

LEMMA PutSound ==
  ASSUME NEW e, Sound(e), NEW s \in Screens, NEW n \in 0 .. 3, NEW cs \in Sets
  PROVE  LET x == [e EXCEPT !.charset[s].set[n] = cs]
         IN  Sound(x) /\ x.current = e.current /\ x.saved = e.saved
<1> DEFINE old == e.charset[s]
           c == [old EXCEPT !.set = [@ EXCEPT ![n] = cs]]
<1>1. old \in Charset /\ Translates(old)
  BY DEF Sound, Emulation
<1>2. c \in Charset /\ Translates(c)
  BY <1>1 DEF Charset, Translates
<1>3. [e EXCEPT !.charset[s].set[n] = cs] = [e EXCEPT !.charset[s] = c]
  OBVIOUS
<1> HIDE DEF c
<1> QED
  BY <1>2, <1>3, CharsetSound

LEMMA DesignateSound ==
  ASSUME NEW e, Sound(e), NEW n \in 0 .. 3, NEW cs \in Sets
  PROVE  LET x == SetCharset(e, n, cs)
             y == SetAndUseCharset(e, n, cs)
         IN  Sound(x) /\ x.saved = e.saved /\ Sound(y) /\ y.saved = e.saved
<1> DEFINE a == [e EXCEPT !.charset[0].set[n] = cs]
           first == UseCharset(a, e.charset[0].cu)
           second == [first EXCEPT !.charset[1].set[n] = cs]
           b == [e EXCEPT !.charset[e.current].set[n] = cs]
<1>1. 0 \in Screens /\ 1 \in Screens /\ e.current \in Screens /\ e.charset[0].cu \in 0 .. 3
  BY DEF Sound, Emulation, Charset, Screens
<1>2. Sound(a) /\ a.saved = e.saved /\ Sound(b) /\ b.saved = e.saved
  BY <1>1, PutSound
<1>3. Sound(first) /\ first.saved = e.saved
  <2> HIDE DEF a
  <2> QED
    BY <1>1, <1>2, UseSound
<1>4. Sound(second) /\ second.saved = e.saved
  <2> HIDE DEF first
  <2> QED
    BY <1>1, <1>3, PutSound
<1>5. SetCharset(e, n, cs) = UseCharset(second, second.charset[1].cu)
  BY DEF SetCharset
<1>6. SetAndUseCharset(e, n, cs) = UseCharset(b, n)
  BY DEF SetAndUseCharset
<1> HIDE DEF second, b
<1>7. second.charset[1].cu \in 0 .. 3
  BY <1>4, <1>1 DEF Sound, Emulation, Charset
<1> QED
  BY <1>2, <1>4, <1>5, <1>6, <1>7, UseSound

(* So are the cursors, which the screens keep with their modes.            *)
With(e, s, c, sc) == [e EXCEPT !.charset[s] = c, !.screen[s] = sc]

LEMMA ScreenSound ==
  ASSUME NEW e, Sound(e), NEW s \in Screens, NEW c \in Charset, Translates(c),
         NEW sc \in ScreenState,
         \A m \in SharedModes : m \in sc.modes <=> m \in e.screen[s].modes
  PROVE  Sound(With(e, s, c, sc)) /\ With(e, s, c, sc).saved = e.saved
<1> DEFINE sets == [e.charset EXCEPT ![s] = c]
           new == [e.screen EXCEPT ![s] = sc]
           x == [e EXCEPT !.charset = sets, !.screen = new]
<1>1. e \in Emulation /\ e.charset \in [Screens -> Charset] /\ e.screen \in [Screens -> ScreenState]
      /\ \A t \in Screens : Translates(e.charset[t])
  BY DEF Sound, Emulation
<1>2. sets \in [Screens -> Charset] /\ \A t \in Screens : Translates(sets[t])
  BY <1>1
<1>3. new \in [Screens -> ScreenState]
      /\ \A t \in Screens, m \in SharedModes : m \in new[t].modes <=> m \in e.screen[t].modes
  BY <1>1
<1>4. With(e, s, c, sc) = x
  BY DEF With
<1>5. x \in Emulation /\ x.charset = sets /\ x.screen = new
  BY <1>1, <1>2, <1>3 DEF Emulation
<1>6. /\ x.modes = e.modes /\ x.current = e.current /\ x.saved = e.saved
      /\ x.tracking = e.tracking /\ x.bracketed = e.bracketed
      /\ x.display = e.display /\ x.primary = e.primary
  BY <1>1 DEF Emulation
<1> HIDE DEF x, new, sets
<1>7. Agree(x)
  BY <1>3, <1>5, <1>6 DEF Sound, Agree, Screens, SharedModes
<1>8. Sound(x)
  BY <1>2, <1>5, <1>6, <1>7 DEF Sound, Follows, InUse, Wants
<1> QED
  BY <1>4, <1>6, <1>8

LEMMA CursorSound ==
  ASSUME NEW e, Sound(e)
  PROVE  /\ Sound(SaveCursor(e)) /\ SaveCursor(e).saved = e.saved
         /\ Sound(RestoreCursor(e)) /\ RestoreCursor(e).saved = e.saved
<1> DEFINE s == e.current
           old == e.charset[s]
           saved == [old EXCEPT !.savedGraphic = old.graphic, !.savedPound = old.pound]
           restored == [old EXCEPT !.graphic = old.savedGraphic, !.pound = old.savedPound]
           down == [e.screen[s] EXCEPT !.savedCursor = e.screen[s].cursor]
           near == Nearest(e.screen[s].savedCursor, e.size)
           up == [e.screen[s] EXCEPT !.cursor = near]
<1>1. s \in Screens /\ old \in Charset /\ Translates(old) /\ e.screen[s] \in ScreenState
      /\ e.size \in [columns : Nat \ {0}, lines : Nat \ {0}]
  BY DEF Sound, Emulation
<1>n. near \in Places
  BY <1>1, NearestPlace DEF ScreenState
<1>2. saved \in Charset /\ restored \in Charset /\ Translates(saved) /\ Translates(restored)
  BY <1>1 DEF Charset, Translates
<1>3. down \in ScreenState /\ up \in ScreenState
      /\ down.modes = e.screen[s].modes /\ up.modes = e.screen[s].modes
  <2> HIDE DEF near
  <2> QED
    BY <1>1, <1>n DEF ScreenState
<1>4. SaveCursor(e) = With(e, s, saved, down)
  BY DEF SaveCursor, With
<1>5. RestoreCursor(e) = With(e, s, restored, up)
  BY DEF RestoreCursor, With
<1> HIDE DEF saved, restored, down, up
<1>6. Sound(With(e, s, saved, down))
      /\ With(e, s, saved, down).saved = e.saved
  BY <1>1, <1>2, <1>3, ScreenSound
<1>7. Sound(With(e, s, restored, up))
      /\ With(e, s, restored, up).saved = e.saved
  BY <1>1, <1>2, <1>3, ScreenSound
<1> QED
  BY <1>4, <1>5, <1>6, <1>7

(* What resetModes takes away stays away, and nothing is remembered that   *)
(* was not.                                                                *)
Less(x, e) == x.saved \subseteq e.saved /\ x.modes \subseteq e.modes

LEMMA ForgetSound ==
  ASSUME NEW e, Sound(e), NEW m
  PROVE  Sound(Forget(e, m)) /\ Less(Forget(e, m), e) /\ m \notin Forget(e, m).modes
<1> DEFINE x == ResetMode(e, m)
<1>1. Sound(x) /\ x.saved = e.saved /\ x.modes = e.modes \ {m}
  BY ResetModeSound
<1>2. Forget(e, m) = SaveMode(x, m)
  BY DEF Forget
<1> HIDE DEF x
<1>3. Sound(SaveMode(x, m)) /\ SavedFrom(SaveMode(x, m).saved, x, m)
      /\ SaveMode(x, m).modes = x.modes
  BY <1>1, SaveSound
<1>4. Less(SaveMode(x, m), e) /\ m \notin SaveMode(x, m).modes
  BY <1>1, <1>3 DEF SavedFrom, Less
<1> QED
  BY <1>2, <1>3, <1>4

LEMMA ForgetOn ==
  ASSUME NEW e, NEW x, Sound(x), Less(x, e), NEW m
  PROVE  Sound(Forget(x, m)) /\ Less(Forget(x, m), e)
         /\ Less(Forget(x, m), x) /\ m \notin Forget(x, m).modes
<1>1. Sound(Forget(x, m)) /\ Less(Forget(x, m), x) /\ m \notin Forget(x, m).modes
  BY ForgetSound
<1> QED
  BY <1>1 DEF Less

LEMMA ResetModesSound ==
  ASSUME NEW e, Sound(e)
  PROVE  LET x == ResetModes(e) IN Sound(x) /\ x.saved \subseteq e.saved
                                   /\ x.modes \cap {"NewLine", "AppScreen"} = {}
<1> DEFINE a1 == Forget(e, "Columns132")
           b1 == Forget(a1, "Mouse1000")      b2 == Forget(b1, "Mouse1001")
           c1 == Forget(b2, "Mouse1002")      c2 == Forget(c1, "Mouse1003")
           d1 == Forget(c2, "Mouse1005")      d2 == Forget(d1, "Mouse1006")
           d3 == Forget(d2, "Mouse1015")
           f1 == Forget(d3, "BracketedPaste") f2 == Forget(f1, "AppScreen")
           g1 == Forget(f2, "AppCuKeys")      g2 == Forget(g1, "AppKeyPad")
           h == ResetMode(g2, "NewLine")
<1>1. ResetModes(e) = SetMode(h, "Ansi")
  BY DEF ResetModes
<1>2. Sound(a1) /\ Less(a1, e)
  BY ForgetSound
<1>3. Sound(b2) /\ Less(b2, e)
  <2> HIDE DEF a1
  <2>1. Sound(b1) /\ Less(b1, e)
    BY <1>2, ForgetOn
  <2> HIDE DEF b1
  <2> QED
    BY <2>1, ForgetOn
<1>4. Sound(c2) /\ Less(c2, e)
  <2> HIDE DEF b2
  <2>1. Sound(c1) /\ Less(c1, e)
    BY <1>3, ForgetOn
  <2> HIDE DEF c1
  <2> QED
    BY <2>1, ForgetOn
<1>5. Sound(d3) /\ Less(d3, e)
  <2> HIDE DEF c2
  <2>1. Sound(d1) /\ Less(d1, e)
    BY <1>4, ForgetOn
  <2> HIDE DEF d1
  <2>2. Sound(d2) /\ Less(d2, e)
    BY <2>1, ForgetOn
  <2> HIDE DEF d2
  <2> QED
    BY <2>2, ForgetOn
<1>6. Sound(f2) /\ Less(f2, e) /\ "AppScreen" \notin f2.modes
  <2> HIDE DEF d3
  <2>1. Sound(f1) /\ Less(f1, e)
    BY <1>5, ForgetOn
  <2> HIDE DEF f1
  <2> QED
    BY <2>1, ForgetOn
<1>7. Sound(g2) /\ Less(g2, e) /\ "AppScreen" \notin g2.modes
  <2> HIDE DEF f2
  <2>1. Sound(g1) /\ Less(g1, e) /\ Less(g1, f2)
    BY <1>6, ForgetOn
  <2> HIDE DEF g1
  <2>2. Sound(g2) /\ Less(g2, e) /\ Less(g2, g1)
    BY <2>1, ForgetOn
  <2> QED
    BY <1>6, <2>1, <2>2 DEF Less
<1> HIDE DEF g2
<1>8. Sound(h) /\ h.saved = g2.saved /\ h.modes = g2.modes \ {"NewLine"}
  BY <1>7, ResetModeSound
<1>9. h.modes \cap {"NewLine", "AppScreen"} = {} /\ h.saved \subseteq e.saved
  BY <1>7, <1>8 DEF Less
<1> HIDE DEF h
<1>10. "Ansi" \in AnyModes
  BY DEF AnyModes, EmulationModes
<1>11. Sound(SetMode(h, "Ansi")) /\ SetMode(h, "Ansi").saved = h.saved
       /\ SetMode(h, "Ansi").modes = h.modes \cup {"Ansi"}
  BY <1>8, <1>10, SetModeSound
<1>12. SetMode(h, "Ansi").modes \cap {"NewLine", "AppScreen"} = {}
  BY <1>9, <1>11
<1> QED
  BY <1>1, <1>9, <1>11, <1>12

(* A reset leaves both screens with the same modes.                        *)
LEMMA ResetSound ==
  ASSUME NEW e, Sound(e)
  PROVE  Sound(Reset(e)) /\ Reset(e).saved \subseteq e.saved /\ Reset(e).current = 0
<1> DEFINE r == ResetModes(e)
           sets == [s \in Screens |-> FreshCharset]
           new == [s \in Screens |-> ResetScreen(r.screen[s])]
           x == [r EXCEPT !.charset = sets, !.screen = new]
<1>1. Sound(r) /\ r.saved \subseteq e.saved /\ r.modes \cap {"NewLine", "AppScreen"} = {}
  BY ResetModesSound
<1>2. Reset(e) = x
  BY DEF Reset
<1> HIDE DEF r
<1>3. r \in Emulation
  BY <1>1 DEF Sound
<1>4. sets \in [Screens -> Charset] /\ \A s \in Screens : Translates(sets[s])
  BY DEF FreshCharset, Charset, Translates, Sets
<1>5. ASSUME NEW s \in Screens
      PROVE  new[s] \in ScreenState /\ new[s].modes = {"Wrap", "Cursor"}
  <2>1. r.screen[s] \in ScreenState
    BY <1>3 DEF Emulation
  <2> QED
    BY <2>1 DEF ResetScreen, ScreenState, Places, LocalModes, SharedModes
<1>6. new \in [Screens -> ScreenState]
  BY <1>5
<1>7. new[0].modes = {"Wrap", "Cursor"} /\ new[1].modes = {"Wrap", "Cursor"}
  BY <1>5 DEF Screens
<1> HIDE DEF sets, new
<1>8. x \in Emulation /\ x.charset = sets /\ x.screen = new
  BY <1>3, <1>4, <1>6 DEF Emulation
<1>9. /\ x.modes = r.modes /\ x.current = r.current /\ x.saved = r.saved
      /\ x.tracking = r.tracking /\ x.bracketed = r.bracketed
      /\ x.display = r.display /\ x.primary = r.primary
  BY <1>3 DEF Emulation
<1> HIDE DEF x
<1>10. Agree(x)
  BY <1>1, <1>7, <1>8, <1>9 DEF Agree
<1>11. Sound(x)
  BY <1>1, <1>4, <1>8, <1>9, <1>10 DEF Sound, Follows, InUse, Wants
<1>12. r.current = 0
  <2>1. r.current \in {0, 1} /\ (r.current = 1 <=> "AppScreen" \in r.modes)
    BY <1>1, <1>3 DEF Sound, InUse, Emulation, Screens
  <2> QED
    BY <1>1, <2>1
<1> QED
  BY <1>1, <1>2, <1>9, <1>11, <1>12

(* A sequence that gives the emulation a sound value keeps the invariant.  *)
LEMMA Becoming ==
  ASSUME NEW e, Sound(e), e.saved \subseteq EmulationModes, Become(e)
  PROVE  IInv'
<1>1. e = [current |-> e.current, modes |-> e.modes, saved |-> e.saved, screen |-> e.screen,
           size |-> e.size, charset |-> e.charset, tracking |-> e.tracking, bracketed |-> e.bracketed,
           focus |-> e.focus, display |-> e.display, primary |-> e.primary]
  BY DEF Sound, Emulation
<1>2. State' = e
  BY <1>1 DEF State, Become
<1>3. Sound(State') /\ savedModes' \subseteq EmulationModes
  BY <1>2 DEF Become
<1>4. Sound(State)' /\ (savedModes \subseteq EmulationModes)'
  BY <1>3 DEF Sound, Emulation, Follows, InUse, Wants, Agree
<1>5. (IInv <=> Sound(State) /\ savedModes \subseteq EmulationModes)'
  BY SoundState, PTL
<1> QED
  BY <1>4, <1>5

(* The other actions leave the modes, the character sets, the flags and    *)
(* what the screens share as they are.                                     *)
LEMMA ScreensOnly ==
  ASSUME IInv, screen' \in [Screens -> ScreenState],
         \A s \in Screens, m \in SharedModes : m \in screen'[s].modes <=> m \in screen[s].modes,
         UNCHANGED <<current, modes, savedModes, size, charset, outward>>
  PROVE  IInv'
<1>1. (ModesTypeOK /\ OneTranslation)'
  BY DEF IInv, ModesTypeOK, OneTranslation, outward
<1>2. (OneScreenInUse /\ DisplaysFollow)'
  BY DEF IInv, InStep, OneScreenInUse, DisplaysFollow, outward
<1>3. ScreensAgree'
  BY DEF IInv, InStep, ScreensAgree, SharedModes, Screens
<1> QED
  BY <1>1, <1>2, <1>3 DEF IInv, InStep

LEMMA ViewsOnly ==
  ASSUME IInv, DOMAIN display' \subseteq Displays,
         display' \in [DOMAIN display' -> Display],
         \A d \in DOMAIN display' : display'[d] =
            [screen |-> current, tracking |-> tracking, bracketed |-> bracketed],
         UNCHANGED <<current, modes, savedModes, screen, size, charset, tracking, bracketed,
                     reportFocus, primary>>
  PROVE  IInv'
<1>1. (ModesTypeOK /\ OneTranslation)'
  BY DEF IInv, ModesTypeOK, OneTranslation
<1>2. (OneScreenInUse /\ DisplaysFollow)'
  BY DEF IInv, InStep, OneScreenInUse, DisplaysFollow
<1>3. ScreensAgree'
  BY DEF IInv, InStep, ScreensAgree
<1> QED
  BY <1>1, <1>2, <1>3 DEF IInv, InStep

LEMMA InitSound == Init => IInv
<1> SUFFICES ASSUME Init PROVE IInv
  OBVIOUS
<1>1. \A s \in Screens : screen[s] = [modes |-> {"Wrap", "Cursor"}, saved |-> {"Wrap"},
                                     cursor |-> Home, savedCursor |-> Home]
      /\ charset[s] = FreshCharset
  BY DEF Init
<1>2. ModesTypeOK
  <2>1. screen \in [Screens -> ScreenState]
    BY <1>1 DEF Init, ScreenState, Places, Home, LocalModes, SharedModes
  <2>2. charset \in [Screens -> Charset]
    BY DEF Init, Charset, FreshCharset, Sets
  <2>3. DOMAIN display \subseteq Displays /\ display \in [DOMAIN display -> Display]
    BY DEF Init
  <2> QED
    BY <2>1, <2>2, <2>3, SizesAssumption DEF Init, ModesTypeOK, EmulationModes, Screens
<1>3. OneTranslation
  BY <1>1 DEF OneTranslation, FreshCharset
<1>4. OneScreenInUse /\ DisplaysFollow
  BY DEF Init, OneScreenInUse, DisplaysFollow
<1>5. ScreensAgree
  BY <1>1 DEF Init, ScreensAgree, SharedModes, Screens
<1> QED
  BY <1>2, <1>3, <1>4, <1>5 DEF IInv, InStep

LEMMA SizeOn ==
  ASSUME NEW sz \in [columns : Nat \ {0}, lines : Nat \ {0}], NEW p \in On(sz)
  PROVE  p \in Places
BY DEF On, Places

LEMMA NextSound == IInv /\ [Next]_modeVars => IInv'
<1> SUFFICES ASSUME IInv, [Next]_modeVars PROVE IInv'
  OBVIOUS
<1>s. Sound(State) /\ State.saved \subseteq EmulationModes
  BY SoundState DEF State
<1>m. Settable \subseteq AnyModes /\ Savable \subseteq EmulationModes
      /\ {"AppScreen", "Ansi", "NewLine", "AppKeyPad"} \subseteq AnyModes
  BY DEF Settable, Savable, EmulationModes, AnyModes, MouseModes, SharedModes
<1>1. ASSUME NEW m \in Settable, SetPrivate(m) PROVE IInv'
  BY <1>s, <1>m, <1>1, SetModeSound, Becoming DEF SetPrivate
<1>2. ASSUME NEW m \in Resettable, ResetPrivate(m) \/ ResetAnsiAnd(m) PROVE IInv'
  <2>1. CASE ResetPrivate(m)
    BY <1>s, <2>1, ResetModeSound, Becoming DEF ResetPrivate
  <2>2. CASE ResetAnsiAnd(m)
    <3> DEFINE x == ResetMode(State, "Ansi")
    <3>1. Sound(x) /\ x.saved \subseteq EmulationModes
      BY <1>s, ResetModeSound
    <3>2. Become(ResetMode(x, m))
      BY <2>2 DEF ResetAnsiAnd
    <3> HIDE DEF x
    <3> QED
      BY <3>1, <3>2, ResetModeSound, Becoming
  <2> QED
    BY <1>2, <2>1, <2>2
<1>3. ASSUME NEW m \in Savable, SavePrivate(m) \/ RestorePrivate(m) PROVE IInv'
  <2>1. CASE SavePrivate(m)
    <3>1. Sound(SaveMode(State, m)) /\ SavedFrom(SaveMode(State, m).saved, State, m)
      BY <1>s, SaveSound
    <3>2. SaveMode(State, m).saved \subseteq EmulationModes
      BY <1>s, <1>m, <3>1 DEF SavedFrom
    <3> QED
      BY <2>1, <3>1, <3>2, Becoming DEF SavePrivate
  <2>2. CASE RestorePrivate(m)
    <3>1. Sound(SetMode(State, m)) /\ SetMode(State, m).saved \subseteq EmulationModes
      BY <1>s, <1>m, SetModeSound DEF AnyModes
    <3>2. Sound(ResetMode(State, m)) /\ ResetMode(State, m).saved \subseteq EmulationModes
      BY <1>s, ResetModeSound
    <3>3. Become(SetMode(State, m)) \/ Become(ResetMode(State, m))
      BY <2>2 DEF RestorePrivate, RestoreMode
    <3> QED
      BY <3>1, <3>2, <3>3, Becoming
  <2> QED
    BY <1>3, <2>1, <2>2
<1>4. ASSUME EnterAlternate PROVE IInv'
  <2> DEFINE x == SaveCursor(State)
  <2>1. Sound(x) /\ x.saved \subseteq EmulationModes
    BY <1>s, CursorSound
  <2>2. Become(SetMode(x, "AppScreen"))
    BY <1>4 DEF EnterAlternate
  <2> HIDE DEF x
  <2> QED
    BY <1>m, <2>1, <2>2, SetModeSound, Becoming
<1>5. ASSUME LeaveAlternate PROVE IInv'
  <2> DEFINE x == ResetMode(State, "AppScreen")
  <2>1. Sound(x) /\ x.saved \subseteq EmulationModes
    BY <1>s, ResetModeSound
  <2>2. Become(RestoreCursor(x))
    BY <1>5 DEF LeaveAlternate
  <2> HIDE DEF x
  <2> QED
    BY <2>1, <2>2, CursorSound, Becoming
<1>6. ASSUME StoreCursor \/ BringBackCursor PROVE IInv'
  BY <1>s, <1>6, CursorSound, Becoming DEF StoreCursor, BringBackCursor
<1>7. ASSUME EnterAnsi PROVE IInv'
  BY <1>s, <1>m, <1>7, SetModeSound, Becoming DEF EnterAnsi
<1>8. ASSUME FullReset PROVE IInv'
  <2>1. Sound(Reset(State)) /\ Reset(State).saved \subseteq EmulationModes
    BY <1>s, ResetSound
  <2> QED
    BY <1>8, <2>1, Becoming DEF FullReset
<1>9. ASSUME NEW on \in BOOLEAN, KeyPad(on) \/ NewLine(on) \/ FocusReports(on) PROVE IInv'
  <2>1. ASSUME NEW m \in {"NewLine", "AppKeyPad"},
               Become(SetMode(State, m)) \/ Become(ResetMode(State, m))
        PROVE  IInv'
    <3>1. Sound(SetMode(State, m)) /\ SetMode(State, m).saved \subseteq EmulationModes
      BY <1>s, <1>m, SetModeSound
    <3>2. Sound(ResetMode(State, m)) /\ ResetMode(State, m).saved \subseteq EmulationModes
      BY <1>s, ResetModeSound
    <3> QED
      BY <2>1, <3>1, <3>2, Becoming
  <2>2. CASE FocusReports(on)
    <3> DEFINE x == [State EXCEPT !.focus = on]
    <3>1. State \in Emulation
      BY <1>s DEF Sound
    <3>2. /\ x \in Emulation /\ x.modes = State.modes /\ x.current = State.current
          /\ x.saved = State.saved /\ x.screen = State.screen /\ x.charset = State.charset
          /\ x.tracking = State.tracking /\ x.bracketed = State.bracketed
          /\ x.display = State.display /\ x.primary = State.primary
      BY <3>1 DEF Emulation
    <3>3. Become(x)
      BY <2>2 DEF FocusReports
    <3> HIDE DEF x
    <3>4. Sound(x)
      BY <1>s, <3>2 DEF Sound, Follows, InUse, Wants, Agree
    <3> QED
      BY <1>s, <3>2, <3>3, <3>4, Becoming
  <2>3. CASE KeyPad(on)
    BY <2>1, <2>3 DEF KeyPad
  <2>4. CASE NewLine(on)
    BY <2>1, <2>4 DEF NewLine
  <2> QED
    BY <1>9, <2>2, <2>3, <2>4
<1>z. size \in [columns : Nat \ {0}, lines : Nat \ {0}]
  BY DEF IInv, ModesTypeOK
<1>c. current \in Screens /\ screen \in [Screens -> ScreenState] /\ screen[current] \in ScreenState
  BY DEF IInv, ModesTypeOK
<1>10. ASSUME NEW m \in LocalModes, NEW on \in BOOLEAN, NEW y \in Tops(size), SetLocal(m, on, y)
       PROVE  IInv'
  <2> DEFINE bits == Bit(screen[current].modes, m, on)
             at == IF m = "Origin" THEN [x |-> 0, y |-> IF on THEN y ELSE 0]
                   ELSE screen[current].cursor
             sc == [screen[current] EXCEPT !.modes = bits, !.cursor = at]
  <2>1. bits \in SUBSET (LocalModes \cup SharedModes)
        /\ \A n \in SharedModes : n \in bits <=> n \in screen[current].modes
    BY <1>c DEF Bit, ScreenState, LocalModes, SharedModes
  <2>2. at \in Places
    BY <1>c DEF Places, ScreenState, Tops
  <2>3. screen' = [screen EXCEPT ![current] = sc]
    BY <1>10 DEF SetLocal
  <2> HIDE DEF bits, at
  <2>4. sc \in ScreenState /\ sc.modes = bits
    BY <1>c, <2>1, <2>2 DEF ScreenState
  <2> HIDE DEF sc
  <2>5. screen' \in [Screens -> ScreenState]
        /\ \A s \in Screens, n \in SharedModes : n \in screen'[s].modes <=> n \in screen[s].modes
    BY <1>c, <2>1, <2>3, <2>4
  <2>6. UNCHANGED <<current, modes, savedModes, size, charset, outward>>
    BY <1>10 DEF SetLocal
  <2> QED
    BY <2>5, <2>6, ScreensOnly
<1>11. ASSUME NEW m \in {"Origin", "Wrap"}, SaveLocal(m) \/ RestoreLocal(m) PROVE IInv'
  <2>1. CASE SaveLocal(m)
    <3> DEFINE on == m \in screen[current].modes
               kept == Bit(screen[current].saved, m, on)
               sc == [screen[current] EXCEPT !.saved = kept]
    <3>1. kept \in SUBSET (LocalModes \cup SharedModes)
      BY <1>c DEF Bit, ScreenState, LocalModes
    <3>2. screen' = [screen EXCEPT ![current] = sc]
      BY <2>1 DEF SaveLocal
    <3> HIDE DEF kept
    <3>3. sc \in ScreenState /\ sc.modes = screen[current].modes
      BY <1>c, <3>1 DEF ScreenState
    <3> HIDE DEF sc
    <3>4. screen' \in [Screens -> ScreenState]
          /\ \A s \in Screens, n \in SharedModes : n \in screen'[s].modes <=> n \in screen[s].modes
      BY <1>c, <3>2, <3>3
    <3>5. UNCHANGED <<current, modes, savedModes, size, charset, outward>>
      BY <2>1 DEF SaveLocal
    <3> QED
      BY <3>4, <3>5, ScreensOnly
  <2>2. CASE RestoreLocal(m)
    <3> DEFINE on == m \in screen[current].saved
               bits == Bit(screen[current].modes, m, on)
               sc == [screen[current] EXCEPT !.modes = bits]
    <3>1. bits \in SUBSET (LocalModes \cup SharedModes)
          /\ \A n \in SharedModes : n \in bits <=> n \in screen[current].modes
      BY <1>c DEF Bit, ScreenState, LocalModes, SharedModes
    <3>2. screen' = [screen EXCEPT ![current] = sc]
      BY <2>2 DEF RestoreLocal
    <3> HIDE DEF bits
    <3>3. sc \in ScreenState /\ sc.modes = bits
      BY <1>c, <3>1 DEF ScreenState
    <3> HIDE DEF sc
    <3>4. screen' \in [Screens -> ScreenState]
          /\ \A s \in Screens, n \in SharedModes : n \in screen'[s].modes <=> n \in screen[s].modes
      BY <1>c, <3>1, <3>2, <3>3
    <3>5. UNCHANGED <<current, modes, savedModes, size, charset, outward>>
      BY <2>2 DEF RestoreLocal
    <3> QED
      BY <3>4, <3>5, ScreensOnly
  <2> QED
    BY <1>11, <2>1, <2>2
<1>12. ASSUME NEW p \in On(size), MoveCursor(p) PROVE IInv'
  <2>1. screen' \in [Screens -> ScreenState]
        /\ \A s \in Screens, n \in SharedModes : n \in screen'[s].modes <=> n \in screen[s].modes
    BY <1>c, <1>12, <1>z, SizeOn DEF MoveCursor, ScreenState
  <2> QED
    BY <1>12, <2>1, ScreensOnly DEF MoveCursor
<1>13. ASSUME NEW y \in 0 .. size.lines - 2, SetMargins(y) PROVE IInv'
  <2>1. screen' \in [Screens -> ScreenState]
        /\ \A s \in Screens, n \in SharedModes : n \in screen'[s].modes <=> n \in screen[s].modes
    <3>1. y \in Nat
      BY <1>z
    <3>2. ASSUME NEW s \in Screens
          PROVE  [x |-> 0, y |-> IF "Origin" \in screen[s].modes THEN y ELSE 0] \in Places
      BY <3>1 DEF Places
    <3> QED
      BY <1>c, <1>13, <3>2 DEF SetMargins, ScreenState
  <2> QED
    BY <1>13, <2>1, ScreensOnly DEF SetMargins
<1>14. ASSUME NEW n \in 0 .. 3, Shift(n) PROVE IInv'
  BY <1>s, <1>14, UseSound, Becoming DEF Shift
<1>15. ASSUME NEW n \in 0 .. 3, NEW cs \in Sets, Designate(n, cs) PROVE IInv'
  BY <1>s, <1>15, DesignateSound, Becoming DEF Designate
<1>16. ASSUME NEW cs \in {"0", "B"}, VT52Graphics(cs) PROVE IInv'
  <2>1. 0 \in 0 .. 3 /\ cs \in Sets
    BY DEF Sets
  <2> QED
    BY <1>s, <1>16, <2>1, DesignateSound, Becoming DEF VT52Graphics
<1>d. /\ DOMAIN display \subseteq Displays /\ current \in Screens
      /\ tracking \in BOOLEAN /\ bracketed \in BOOLEAN
      /\ \A d \in DOMAIN display : display[d] =
           [screen |-> current, tracking |-> tracking, bracketed |-> bracketed]
  BY <1>s DEF IInv, ModesTypeOK, Sound, Follows, State
<1>17. ASSUME NEW d \in Displays, AddView(d) \/ RemoveView(d) PROVE IInv'
  <2>1. [screen |-> current, tracking |-> tracking, bracketed |-> bracketed] \in Display
    BY <1>d DEF Display
  <2>2. CASE AddView(d)
    BY <1>d, <2>1, <2>2, ViewsOnly DEF AddView
  <2>3. CASE RemoveView(d)
    BY <1>d, <2>1, <2>3, ViewsOnly DEF RemoveView
  <2> QED
    BY <1>17, <2>2, <2>3
<1>18. CASE UNCHANGED modeVars
  BY <1>c, <1>18, ScreensOnly DEF modeVars, outward
<1>19. ASSUME NEW sz \in Sizes, Resize(sz) PROVE IInv'
  <2> DEFINE x == SetImageSize(State, sz)
  <2>1. State \in Emulation /\ sz \in [columns : Nat \ {0}, lines : Nat \ {0}]
    BY <1>s, SizesAssumption DEF Sound
  <2>2. Become(x)
    BY <1>19 DEF Resize
  <2>3. x \in Emulation /\ Untouched(x, State) /\ Alike(x.screen, State.screen)
    BY <2>1, Resized
  <2> HIDE DEF x
  <2>4. Agree(x)
    BY <1>s, <2>3 DEF Sound, Agree, Untouched, Screens, Alike
  <2>5. Sound(x) /\ x.saved \subseteq EmulationModes
    BY <1>s, <2>3, <2>4, Carries DEF Untouched
  <2> QED
    BY <2>2, <2>5, Becoming
<1> QED
  BY <1>1, <1>2, <1>3, <1>4, <1>5, <1>6, <1>7, <1>8, <1>9, <1>10, <1>11, <1>12, <1>13,
     <1>14, <1>15, <1>16, <1>17, <1>18, <1>19 DEF Next

LEMMA AlwaysSound == ModesSpec => []IInv
BY InitSound, NextSound, PTL DEF ModesSpec

(* The screen in use is the one the alternate-screen mode says, for the    *)
(* session and every display; the displays track the mouse and bracket     *)
(* pastes as the emulation does; both screens have the modes they share:   *)
(* for any number of displays coming and going, and any sequences.         *)
THEOREM CopiesInStep == ModesSpec => []InStep
<1>1. IInv => InStep
  BY DEF IInv
<1> QED
  BY <1>1, AlwaysSound, PTL

(* The modes are typed and no more than one translation of characters is   *)
(* on, saved or in use, on either screen.                                  *)
THEOREM OneTranslationOn == ModesSpec => []ModesInv
<1>1. IInv => ModesInv
  BY DEF IInv, ModesInv
<1> QED
  BY <1>1, AlwaysSound, PTL

-----------------------------------------------------------------------------
(* AlternateScreen: while the second screen is in use, no sequence reaches *)
(* the saved cursor of the first one.                                      *)
SamePlace(x, e) == x.screen[0].savedCursor = e.screen[0].savedCursor

LEMMA ApplyKeepsPlace ==
  ASSUME NEW e, e \in Emulation, NEW m, NEW on \in BOOLEAN
  PROVE  SamePlace(Apply(e, m, on), e)
<1>1. CASE m \in MouseModes
  <2>1. Apply(e, m, on) = RequestTracking(e, on)
    BY <1>1 DEF Apply, MouseModes, SharedModes
  <2> QED
    BY <2>1 DEF RequestTracking, Emulation, SamePlace
<1>2. CASE m = "BracketedPaste"
  <2>1. Apply(e, m, on) = ChangeBracketed(e, on)
    BY <1>2 DEF Apply, MouseModes, SharedModes
  <2> QED
    BY <2>1 DEF ChangeBracketed, Emulation, SamePlace
<1>3. CASE m = "AppScreen"
  <2>1. Apply(e, m, on) = SetScreen(e, IF on THEN 1 ELSE 0)
    BY <1>3 DEF Apply, MouseModes, SharedModes
  <2> QED
    BY <2>1 DEF SetScreen, Emulation, SamePlace
<1>4. CASE m \in SharedModes
  <2>1. Apply(e, m, on) = OnScreens(e, m, on)
    BY <1>4 DEF Apply, MouseModes, SharedModes
  <2>2. e.screen[0] \in ScreenState
    BY DEF Emulation, Screens
  <2> QED
    BY <2>1, <2>2 DEF OnScreens, Emulation, SamePlace, Screens, ScreenState
<1>5. CASE m = "Columns132"
  <2> DEFINE n == IF on THEN Wide ELSE Narrow
             z == SetColumns(e, n)
  <2>1. Apply(e, m, on) = IF "Allow132" \in e.modes THEN z ELSE e
    BY <1>5 DEF Apply, MouseModes, SharedModes
  <2>2. n \in Nat \ {0}
    BY SizesAssumption
  <2> HIDE DEF n
  <2>3. SamePlace(z, e)
    BY <2>2, Sized DEF Alike, SamePlace, Screens
  <2> HIDE DEF z
  <2> QED
    BY <2>1, <2>3 DEF SamePlace
<1>6. CASE m \notin MouseModes \cup SharedModes \cup {"BracketedPaste", "AppScreen", "Columns132"}
  BY <1>6 DEF Apply, SamePlace
<1> QED
  BY <1>1, <1>2, <1>3, <1>4, <1>5, <1>6

LEMMA ModesKeepPlace ==
  ASSUME NEW e, Sound(e), NEW m \in AnyModes
  PROVE  /\ SamePlace(SetMode(e, m), e)
         /\ SamePlace(ResetMode(e, m), e)
         /\ SamePlace(SaveMode(e, m), e) /\ SaveMode(e, m).current = e.current
<1> DEFINE up == TRUE
           off == FALSE
           set == [e EXCEPT !.modes = Bit(@, m, up)]
           not == [e EXCEPT !.modes = Bit(@, m, off)]
<1>1. e \in Emulation /\ up \in BOOLEAN /\ off \in BOOLEAN
  BY DEF Sound
<1>2. SetMode(e, m) = IF m = "Columns132" /\ "Allow132" \notin e.modes
                      THEN not ELSE Apply(set, m, up)
  BY DEF SetMode
<1>3. ResetMode(e, m) = Apply(not, m, off)
  BY DEF ResetMode
<1> HIDE DEF up, off
<1>4. ASSUME NEW on \in BOOLEAN
      PROVE  [e EXCEPT !.modes = Bit(@, m, on)] \in Emulation
             /\ [e EXCEPT !.modes = Bit(@, m, on)].screen = e.screen
  <2>1. Bit(e.modes, m, on) \in SUBSET AnyModes
    BY <1>1 DEF Bit, Emulation
  <2> QED
    BY <1>1, <2>1 DEF Emulation
<1>5. set \in Emulation /\ set.screen = e.screen /\ not \in Emulation /\ not.screen = e.screen
  BY <1>1, <1>4
<1> HIDE DEF set, not
<1>6. SamePlace(Apply(set, m, up), e) /\ SamePlace(Apply(not, m, off), e) /\ SamePlace(not, e)
  BY <1>1, <1>5, ApplyKeepsPlace DEF SamePlace
<1>7. SamePlace(SaveMode(e, m), e) /\ SaveMode(e, m).current = e.current
  BY <1>1 DEF SaveMode, Remember, Emulation, SamePlace
<1> QED
  BY <1>2, <1>3, <1>6, <1>7

LEMMA CursorsKeepPlace ==
  ASSUME NEW e, Sound(e)
  PROVE  /\ SaveCursor(e).current = e.current /\ RestoreCursor(e).current = e.current
         /\ SamePlace(RestoreCursor(e), e)
         /\ e.current = 1 => SamePlace(SaveCursor(e), e)
         /\ e.current = 0 => SaveCursor(e).screen[0].savedCursor = e.screen[0].cursor
         /\ e.current = 0 => RestoreCursor(e).screen[0].cursor
                              = Nearest(e.screen[0].savedCursor, e.size)
<1>1. /\ e \in Emulation /\ e.current \in Screens /\ e.screen \in [Screens -> ScreenState]
      /\ e.charset \in [Screens -> Charset]
  BY DEF Sound, Emulation
<1> DEFINE s == e.current
           down == [e.screen EXCEPT ![s].savedCursor = e.screen[s].cursor]
           near == Nearest(e.screen[s].savedCursor, e.size)
           up == [e.screen EXCEPT ![s].cursor = near]
<1>2. SaveCursor(e).screen = down /\ SaveCursor(e).current = e.current
  BY <1>1 DEF SaveCursor, Emulation
<1>3. RestoreCursor(e).screen = up /\ RestoreCursor(e).current = e.current
  BY <1>1 DEF RestoreCursor, Emulation
<1>4. /\ s = 1 => down[0] = e.screen[0]
      /\ s = 0 => down[0].savedCursor = e.screen[0].cursor
  BY <1>1 DEF Screens, ScreenState
<1>5. /\ up[0].savedCursor = e.screen[0].savedCursor
      /\ s = 0 => up[0].cursor = Nearest(e.screen[0].savedCursor, e.size)
  <2>1. e.screen[0] \in ScreenState
    BY <1>1 DEF Screens
  <2>2. s = 0 => near = Nearest(e.screen[0].savedCursor, e.size)
    OBVIOUS
  <2> HIDE DEF near
  <2> QED
    BY <1>1, <2>1, <2>2 DEF Screens, ScreenState
<1> HIDE DEF down, up
<1> QED
  BY <1>2, <1>3, <1>4, <1>5 DEF SamePlace

LEMMA SetsKeepPlace ==
  ASSUME NEW e, e \in Emulation, NEW n, NEW cs
  PROVE  /\ SamePlace(UseCharset(e, n), e)
         /\ SamePlace(SetCharset(e, n, cs), e)
         /\ SamePlace(SetAndUseCharset(e, n, cs), e)
<1> DEFINE Like(x) == DOMAIN x = DOMAIN e /\ x.screen = e.screen
<1>1. ASSUME NEW x, Like(x), NEW k
      PROVE  Like(UseCharset(x, k))
  <2>1. {"charset", "screen"} \subseteq DOMAIN x
    BY <1>1 DEF Emulation
  <2> QED
    BY <1>1, <2>1 DEF UseCharset
<1>2. ASSUME NEW x, Like(x), NEW s
      PROVE  Like([x EXCEPT !.charset[s].set[n] = cs])
  <2>1. {"charset", "screen"} \subseteq DOMAIN x
    BY <1>2 DEF Emulation
  <2> QED
    BY <1>2, <2>1
<1>3. Like(e) /\ Like(UseCharset(e, n))
  BY <1>1
<1>4. Like(SetAndUseCharset(e, n, cs))
  BY <1>1, <1>2 DEF SetAndUseCharset
<1>5. Like(SetCharset(e, n, cs))
  <2> DEFINE a == [e EXCEPT !.charset[0].set[n] = cs]
             first == UseCharset(a, e.charset[0].cu)
             second == [first EXCEPT !.charset[1].set[n] = cs]
  <2>1. SetCharset(e, n, cs) = UseCharset(second, second.charset[1].cu)
    BY DEF SetCharset
  <2>2. Like(a)
    BY <1>2
  <2> HIDE DEF a
  <2>3. Like(first)
    BY <1>1, <2>2
  <2> HIDE DEF first
  <2>4. Like(second)
    BY <1>2, <2>3
  <2> HIDE DEF second, Like
  <2> QED
    BY <1>1, <2>1, <2>4
<1> QED
  BY <1>3, <1>4, <1>5 DEF SamePlace

(* What holds of a step that ends on the second screen and began there.    *)
PlaceKept == current = 1 /\ current' = 1 => screen'[0].savedCursor = screen[0].savedCursor

LEMMA BecomesKept ==
  ASSUME NEW e, Become(e), e.current = 1 => SamePlace(e, State)
  PROVE  PlaceKept
BY DEF Become, PlaceKept, SamePlace, State

LEMMA StepsKeepPlace ==
  ASSUME IInv, Next
  PROVE  PlaceKept
<1>s. Sound(State) /\ State \in Emulation /\ State.current = current
  BY SoundState DEF State, Sound
<1>t. screen \in [Screens -> ScreenState] /\ current \in Screens
  BY DEF IInv, ModesTypeOK
<1>m. /\ Settable \subseteq AnyModes /\ Savable \subseteq AnyModes /\ Resettable \subseteq AnyModes
      /\ {"AppScreen", "Ansi", "NewLine", "AppKeyPad"} \subseteq AnyModes
  BY DEF Settable, Savable, Resettable, EmulationModes, AnyModes, MouseModes, SharedModes
<1>1. ASSUME NEW m \in Settable, SetPrivate(m) PROVE PlaceKept
  BY <1>s, <1>m, <1>1, ModesKeepPlace, BecomesKept DEF SetPrivate
<1>2. ASSUME NEW m \in Resettable, ResetPrivate(m) \/ ResetAnsiAnd(m) PROVE PlaceKept
  <2>1. CASE ResetPrivate(m)
    BY <1>s, <1>m, <2>1, ModesKeepPlace, BecomesKept DEF ResetPrivate
  <2>2. CASE ResetAnsiAnd(m)
    <3> DEFINE x == ResetMode(State, "Ansi")
    <3>1. Sound(x) /\ SamePlace(x, State)
      BY <1>s, <1>m, ResetModeSound, ModesKeepPlace
    <3>2. Become(ResetMode(x, m))
      BY <2>2 DEF ResetAnsiAnd
    <3> HIDE DEF x
    <3>3. SamePlace(ResetMode(x, m), x)
      BY <1>m, <3>1, ModesKeepPlace
    <3> QED
      BY <3>1, <3>2, <3>3, BecomesKept DEF SamePlace
  <2> QED
    BY <1>2, <2>1, <2>2
<1>3. ASSUME NEW m \in Savable, SavePrivate(m) \/ RestorePrivate(m) PROVE PlaceKept
  <2>1. /\ SamePlace(SaveMode(State, m), State) /\ SamePlace(SetMode(State, m), State)
        /\ SamePlace(ResetMode(State, m), State)
    BY <1>s, <1>m, ModesKeepPlace
  <2>2. \E e \in {SaveMode(State, m), SetMode(State, m), ResetMode(State, m)} : Become(e)
    BY <1>3 DEF SavePrivate, RestorePrivate, RestoreMode
  <2> QED
    BY <2>1, <2>2, BecomesKept
<1>4. CASE EnterAlternate
  <2> DEFINE x == SaveCursor(State)
  <2>1. Sound(x) /\ x.current = current /\ (current = 1 => SamePlace(x, State))
    BY <1>s, CursorSound, CursorsKeepPlace
  <2>2. Become(SetMode(x, "AppScreen"))
    BY <1>4 DEF EnterAlternate
  <2> HIDE DEF x
  <2>3. SamePlace(SetMode(x, "AppScreen"), x)
    BY <1>m, <2>1, ModesKeepPlace
  <2> QED
    BY <2>1, <2>2, <2>3 DEF Become, PlaceKept, SamePlace, State
<1>5. CASE LeaveAlternate
  <2> DEFINE x == ResetMode(State, "AppScreen")
  <2>1. Sound(x) /\ SamePlace(x, State)
    BY <1>s, <1>m, ResetModeSound, ModesKeepPlace
  <2>2. Become(RestoreCursor(x))
    BY <1>5 DEF LeaveAlternate
  <2> HIDE DEF x
  <2>3. SamePlace(RestoreCursor(x), x)
    BY <2>1, CursorsKeepPlace
  <2> QED
    BY <2>1, <2>2, <2>3, BecomesKept DEF SamePlace
<1>6. CASE StoreCursor \/ BringBackCursor
  <2>1. /\ SaveCursor(State).current = 1 => SamePlace(SaveCursor(State), State)
        /\ SamePlace(RestoreCursor(State), State)
    BY <1>s, CursorsKeepPlace
  <2> QED
    BY <1>6, <2>1, BecomesKept DEF StoreCursor, BringBackCursor
<1>7. CASE EnterAnsi
  BY <1>s, <1>m, <1>7, ModesKeepPlace, BecomesKept DEF EnterAnsi
<1>8. CASE FullReset
  <2>1. Reset(State).current = 0
    BY <1>s, ResetSound
  <2> QED
    BY <1>8, <2>1, BecomesKept DEF FullReset
<1>9. ASSUME NEW on \in BOOLEAN, KeyPad(on) \/ NewLine(on) \/ FocusReports(on) PROVE PlaceKept
  <2>1. /\ \A m \in {"NewLine", "AppKeyPad"} :
             SamePlace(SetMode(State, m), State) /\ SamePlace(ResetMode(State, m), State)
        /\ SamePlace([State EXCEPT !.focus = on], State)
    BY <1>s, <1>m, ModesKeepPlace DEF SamePlace, State
  <2>2. CASE KeyPad(on)
    BY <2>1, <2>2, BecomesKept DEF KeyPad
  <2>3. CASE NewLine(on)
    BY <2>1, <2>3, BecomesKept DEF NewLine
  <2>4. CASE FocusReports(on)
    BY <2>1, <2>4, BecomesKept DEF FocusReports
  <2> QED
    BY <1>9, <2>2, <2>3, <2>4
<1>10. ASSUME NEW m \in LocalModes, NEW on \in BOOLEAN, NEW y \in Tops(size), SetLocal(m, on, y)
       PROVE  PlaceKept
  BY <1>t, <1>10 DEF SetLocal, PlaceKept, Screens
<1>11. ASSUME NEW m \in {"Origin", "Wrap"}, SaveLocal(m) \/ RestoreLocal(m) PROVE PlaceKept
  BY <1>t, <1>11 DEF SaveLocal, RestoreLocal, PlaceKept, Screens
<1>12. ASSUME NEW p \in On(size), MoveCursor(p) PROVE PlaceKept
  BY <1>t, <1>12 DEF MoveCursor, PlaceKept, Screens
<1>13. ASSUME NEW y \in 0 .. size.lines - 2, SetMargins(y) PROVE PlaceKept
  BY <1>t, <1>13 DEF SetMargins, PlaceKept, Screens, ScreenState
<1>14. ASSUME NEW n \in 0 .. 3, Shift(n) PROVE PlaceKept
  BY <1>s, <1>14, SetsKeepPlace, BecomesKept DEF Shift
<1>15. ASSUME NEW n \in 0 .. 3, NEW cs \in Sets, Designate(n, cs) PROVE PlaceKept
  BY <1>s, <1>15, SetsKeepPlace, BecomesKept DEF Designate
<1>16. ASSUME NEW cs \in {"0", "B"}, VT52Graphics(cs) PROVE PlaceKept
  BY <1>s, <1>16, SetsKeepPlace, BecomesKept DEF VT52Graphics
<1>17. ASSUME NEW d \in Displays, AddView(d) \/ RemoveView(d) PROVE PlaceKept
  BY <1>17 DEF AddView, RemoveView, PlaceKept
<1>18. ASSUME NEW sz \in Sizes, Resize(sz) PROVE PlaceKept
  <2>1. sz \in [columns : Nat \ {0}, lines : Nat \ {0}]
    BY SizesAssumption
  <2>2. SamePlace(SetImageSize(State, sz), State)
    BY <1>s, <2>1, Resized DEF Alike, SamePlace, Screens
  <2> QED
    BY <1>18, <2>2, BecomesKept DEF Resize
<1> QED
  BY <1>1, <1>2, <1>3, <1>4, <1>5, <1>6, <1>7, <1>8, <1>9, <1>10, <1>11, <1>12, <1>13,
     <1>14, <1>15, <1>16, <1>17, <1>18 DEF Next

(* A place that must come back is the saved cursor of the first screen.    *)
PlaceSaved == left # NoPlace => current = 1 /\ screen[0].savedCursor = left

LEMMA PlaceStaysSaved ==
  ASSUME IInv, PlaceSaved, [AlternateNext]_alternateVars
  PROVE  PlaceSaved'
<1>1. CASE UNCHANGED alternateVars
  BY <1>1 DEF alternateVars, modeVars, PlaceSaved
<1>2. CASE AlternateNext
  <2>1. current \in {0, 1} /\ current' \in {0, 1}
    BY <1>2, NextSound DEF AlternateNext, IInv, ModesTypeOK, Screens
  <2>2. CASE current = 0 /\ current' = 1 /\ EnterAlternate
    <3> DEFINE x == SaveCursor(State)
    <3>1. Sound(x) /\ x.screen[0].savedCursor = screen[0].cursor
      BY <2>2, SoundState, CursorSound, CursorsKeepPlace DEF State
    <3>2. Become(SetMode(x, "AppScreen"))
      BY <2>2 DEF EnterAlternate
    <3> HIDE DEF x
    <3>3. SamePlace(SetMode(x, "AppScreen"), x)
      BY <3>1, ModesKeepPlace DEF AnyModes, EmulationModes
    <3>4. screen'[0].savedCursor = screen[0].cursor
      BY <3>1, <3>2, <3>3 DEF Become, SamePlace
    <3> QED
      BY <1>2, <2>2, <3>4 DEF AlternateNext, NotesPlace, PlaceSaved
  <2>3. CASE current = 1 /\ current' = 1
    BY <1>2, <2>3, StepsKeepPlace DEF AlternateNext, NotesPlace, PlaceSaved, PlaceKept
  <2> QED
    BY <1>2, <2>1, <2>2, <2>3 DEF AlternateNext, NotesPlace, PlaceSaved
<1> QED
  BY <1>1, <1>2

LEMMA LeavingKeepsSize ==
  ASSUME NEW e, Sound(e)
  PROVE  ResetMode(e, "AppScreen").size = e.size
<1> DEFINE x == [e EXCEPT !.modes = Bit(@, "AppScreen", FALSE)]
<1>1. ResetMode(e, "AppScreen") = SetScreen(x, 0)
  BY DEF ResetMode, Apply, MouseModes, SharedModes
<1>2. DOMAIN x = DOMAIN e /\ x.size = e.size /\ "size" \in DOMAIN e
  BY DEF Sound, Emulation
<1> HIDE DEF x
<1>3. SetScreen(x, 0).size = x.size
  BY <1>2 DEF SetScreen
<1> QED
  BY <1>1, <1>2, <1>3

LEMMA PlaceBroughtBack ==
  ASSUME IInv, PlaceSaved, left # NoPlace, LeaveAlternate
  PROVE  screen'[0].cursor = Nearest(left, size)
<1> DEFINE x == ResetMode(State, "AppScreen")
<1>1. screen[0].savedCursor = left /\ Sound(State)
  BY SoundState DEF PlaceSaved
<1>2. Sound(x) /\ x.modes = State.modes \ {"AppScreen"}
  BY <1>1, ResetModeSound
<1>3. SamePlace(x, State)
  BY <1>1, ModesKeepPlace DEF AnyModes, EmulationModes
<1>4. Become(RestoreCursor(x))
  BY DEF LeaveAlternate
<1>7. x.size = size
  BY <1>1, LeavingKeepsSize DEF State
<1> HIDE DEF x
<1>5. x.current = 0
  <2>1. x.current \in {0, 1} /\ (x.current = 1 <=> "AppScreen" \in x.modes)
    BY <1>2 DEF Sound, Emulation, Screens, InUse
  <2> QED
    BY <1>2, <2>1
<1>6. RestoreCursor(x).screen[0].cursor = Nearest(x.screen[0].savedCursor, x.size)
  BY <1>2, <1>5, CursorsKeepPlace
<1> QED
  BY <1>1, <1>3, <1>4, <1>6, <1>7 DEF Become, SamePlace, State

(* The cursor of the first screen comes back to where ESC [ ? 1049 h left  *)
(* it, or to the nearest place there still is, whatever is done on the     *)
(* second screen and whatever size it gets in between: for any sizes,      *)
(* displays and modes, and any sequences.                                  *)
THEOREM CursorComesBack == AlternateSpec => ReturnsToCursor
<1>1. AlternateInit => Init /\ PlaceSaved
  BY DEF AlternateInit, PlaceSaved
<1>2. [AlternateNext]_alternateVars => [Next]_modeVars
  BY DEF AlternateNext, alternateVars
<1>3. IInv /\ PlaceSaved /\ [AlternateNext]_alternateVars => IInv' /\ PlaceSaved'
  BY <1>2, NextSound, PlaceStaysSaved
<1>4. IInv /\ PlaceSaved /\ [AlternateNext]_alternateVars
      => [left # NoPlace /\ LeaveAlternate => screen'[0].cursor = Nearest(left, size)]_alternateVars
  BY PlaceBroughtBack
<1> QED
  BY <1>1, <1>3, <1>4, InitSound, PTL DEF AlternateSpec, ReturnsToCursor

-----------------------------------------------------------------------------
(* WindowTitles: the invariant is inductive as it stands.                  *)
LEMMA TitlesStart == TitlesInit => TitlesInv
BY TitlesAssumption
   DEF TitlesInit, TitlesInv, TitlesTypeOK, NothingForgotten, OwnTitle, OnlyWay, Attributes, Off

LEMMA RequestKeeps ==
  ASSUME TitlesInv, NEW a \in Attributes, NEW v \in Values, RequestAttribute(a, v)
  PROVE  TitlesInv'
<1>1. /\ DOMAIN pending' = DOMAIN pending \cup {a}
      /\ \A b \in DOMAIN pending' : pending'[b] = IF b = a THEN v ELSE pending[b]
  BY DEF RequestAttribute
<1>2. asked \in [Attributes -> Values \cup {NoValue}]
  BY DEF TitlesInv, TitlesTypeOK
<1>3. TitlesTypeOK'
  <2>1. DOMAIN pending' \subseteq Attributes /\ pending' \in [DOMAIN pending' -> Values]
    BY <1>1 DEF RequestAttribute, TitlesInv, TitlesTypeOK
  <2> QED
    BY <1>2, <2>1, TitlesAssumption DEF RequestAttribute, TitlesInv, TitlesTypeOK
<1>4. NothingForgotten'
  BY <1>1, <1>2, TitlesAssumption DEF RequestAttribute, TitlesInv, NothingForgotten, Off
<1>5. ASSUME NEW attributes \in SUBSET Attributes, NEW b \in attributes, OnlyWay(b, attributes)'
      PROVE  OnlyWay(b, attributes)
  BY <1>2, <1>5, TitlesAssumption DEF RequestAttribute, OnlyWay
<1>6. OwnTitle'
  BY <1>5 DEF RequestAttribute, TitlesInv, OwnTitle, Attributes
<1> QED
  BY <1>3, <1>4, <1>6 DEF TitlesInv

(* A title's new value is the one the session was told, or the old one.    *)
LEMMA TitleTold ==
  ASSUME TitlesInv, UpdateSessionAttributes, NEW attributes \in SUBSET Attributes,
         NEW a \in attributes, OnlyWay(a, attributes), NEW old, old = delivered[a]
  PROVE  \A t \in AfterAny(attributes, old) : t = delivered'[a]
<1>1. ASSUME NEW b \in attributes \ {a} PROVE b \notin DOMAIN pending
  <2>1. asked[b] = NoValue
    BY DEF OnlyWay
  <2>2. b \in DOMAIN pending => pending[b] \in Values /\ pending[b] = asked[b]
    BY DEF TitlesInv, TitlesTypeOK, NothingForgotten
  <2> QED
    BY <2>1, <2>2, TitlesAssumption
<1>2. delivered'[a] = IF a \in DOMAIN pending THEN pending[a] ELSE delivered[a]
  BY DEF UpdateSessionAttributes
<1>3. CASE a \in DOMAIN pending
  <2>1. DOMAIN pending \cap attributes = {a}
    BY <1>1, <1>3
  <2> QED
    BY <1>2, <1>3, <2>1 DEF AfterAny
<1>4. CASE a \notin DOMAIN pending
  <2>1. DOMAIN pending \cap attributes = {}
    BY <1>1, <1>4
  <2> QED
    BY <1>2, <1>4, <2>1 DEF AfterAny
<1> QED
  BY <1>3, <1>4

LEMMA UpdateKeeps ==
  ASSUME TitlesInv, UpdateSessionAttributes
  PROVE  TitlesInv'
<1>1. pending \in [DOMAIN pending -> Values] /\ DOMAIN pending \subseteq Attributes
      /\ delivered \in [Attributes -> Values \cup {NoValue}]
  BY DEF TitlesInv, TitlesTypeOK
<1>2. ASSUME NEW attributes \in SUBSET Attributes, NEW old \in Values \cup {NoValue},
             NEW t \in AfterAny(attributes, old)
      PROVE  t \in Values \cup {NoValue}
  BY <1>1 DEF AfterAny
<1>3. SetsWindow \in SUBSET Attributes /\ SetsIcon \in SUBSET Attributes
  BY DEF Attributes
<1>4. TitlesTypeOK'
  <2>1. userTitle' \in Values \cup {NoValue} /\ iconText' \in Values \cup {NoValue}
    BY <1>2, <1>3 DEF TitlesInv, TitlesTypeOK, UpdateSessionAttributes
  <2>2. delivered' \in [Attributes -> Values \cup {NoValue}]
    BY <1>1 DEF UpdateSessionAttributes
  <2>3. pending' = <<>> /\ timer' = Off /\ asked' = asked
    BY DEF UpdateSessionAttributes
  <2> QED
    BY <2>1, <2>2, <2>3 DEF TitlesInv, TitlesTypeOK
<1>5. NothingForgotten'
  BY <1>1 DEF UpdateSessionAttributes, TitlesInv, NothingForgotten
<1>6. ASSUME NEW a \in SetsWindow, OnlyWay(a, SetsWindow)' PROVE userTitle' = delivered'[a]
  <2>1. OnlyWay(a, SetsWindow)
    BY <1>6 DEF OnlyWay, UpdateSessionAttributes
  <2>2. userTitle = delivered[a]
    BY <2>1 DEF TitlesInv, OwnTitle
  <2>3. userTitle' \in AfterAny(SetsWindow, userTitle)
    BY DEF UpdateSessionAttributes
  <2> QED
    BY <1>3, <2>1, <2>2, <2>3, TitleTold
<1>7. ASSUME NEW a \in SetsIcon, OnlyWay(a, SetsIcon)' PROVE iconText' = delivered'[a]
  <2>1. OnlyWay(a, SetsIcon)
    BY <1>7 DEF OnlyWay, UpdateSessionAttributes
  <2>2. iconText = delivered[a]
    BY <2>1 DEF TitlesInv, OwnTitle
  <2>3. iconText' \in AfterAny(SetsIcon, iconText)
    BY DEF UpdateSessionAttributes
  <2> QED
    BY <1>3, <2>1, <2>2, <2>3, TitleTold
<1>8. OwnTitle'
  BY <1>6, <1>7 DEF OwnTitle, OnlyWay
<1> QED
  BY <1>4, <1>5, <1>8 DEF TitlesInv

(* What a program asked for last is on its way or was told the session,    *)
(* and a title named in one way only is the one told last: for any values  *)
(* and any delay.                                                          *)
THEOREM TitlesHold == TitlesSpec => []TitlesInv
<1>1. ASSUME TitlesInv, [TitlesNext]_titleVars PROVE TitlesInv'
  <2>1. CASE Naming
    BY <1>1, <2>1, RequestKeeps DEF Naming
  <2>2. CASE Tick
    <3>1. /\ timer' \in 0 .. Delay /\ timer # Off /\ timer' # Off
          /\ UNCHANGED <<pending, userTitle, iconText, asked, delivered>>
      BY <1>1, <2>2, TitlesAssumption DEF Tick, Off, TitlesInv, TitlesTypeOK
    <3> QED
      BY <1>1, <3>1 DEF TitlesInv, TitlesTypeOK, NothingForgotten, OwnTitle, OnlyWay
  <2>3. CASE UpdateSessionAttributes
    BY <1>1, <2>3, UpdateKeeps
  <2>4. CASE UNCHANGED titleVars
    BY <1>1, <2>4 DEF titleVars, TitlesInv, TitlesTypeOK, NothingForgotten, OwnTitle, OnlyWay
  <2> QED
    BY <1>1, <2>1, <2>2, <2>3, <2>4 DEF TitlesNext
<1> QED
  BY <1>1, TitlesStart, PTL DEF TitlesSpec
=============================================================================

----------------------- MODULE WallpaperPaletteProofs -----------------------
(***************************************************************************)
(* Theorems about WallpaperPalette: for any monitors, callers, pictures    *)
(* and tools, without a kick under way the palette is right, or the tool   *)
(* was run on the picture and the settings of now and failed.              *)
(***************************************************************************)
EXTENDS WallpaperPalette, WellFoundedInduction, TLAPS

(***************************************************************************)
(* The inductive invariant.  PaletteMatches alone is not inductive: what   *)
(* the tool was run on may be old while a kick is under way, and a plain   *)
(* kick does not run it again on the picture it was run on last.  So:      *)
(*  - unless a reset is under way, the last run was on the picture last    *)
(*    extracted and by the tool configured;                                *)
(*  - when nothing is under way, that picture is the one to be themed;     *)
(*  - a run that is over left its palette, or failed, or ran no tool.      *)
(***************************************************************************)
LastIsShown == NoReset => last = NoPicture \/ tried = <<last, extractor>>
Outcome ==
  extracting = "no" => failed \/ palette = tried \/ tried[2] = NoTool
LastIsThemed == Quiet => Skip \/ last = ThemingPath
IInv == TypeOK /\ LastIsShown /\ LastIsThemed /\ Outcome

-----------------------------------------------------------------------------
\* The path the loop reads.

\* Monitors that are plugged have a first among them.
LEMMA LowestIsPlugged ==
  ASSUME TypeOK, plugged # {}
  PROVE  Lowest \in plugged
<1>1. plugged \subseteq Nat
  BY MonitorsAssumption DEF TypeOK
<1>2. PICK m \in plugged : \A k \in plugged : ~ (<<k, m>> \in OpToRel(<, Nat))
  BY <1>1, NatLessThanWellFounded, WFMin
<1>3. \A k \in plugged : m <= k
  <2> TAKE k \in plugged
  <2>1. m \in Nat /\ k \in Nat
    BY <1>1
  <2>2. ~ (k < m)
    BY <1>2, <2>1 DEF OpToRel
  <2> QED
    BY <2>1, <2>2
<1> QED
  BY <1>2, <1>3 DEF Lowest

LEMMA ThemingPathIsPicture ==
  ASSUME TypeOK
  PROVE  ThemingPath \in Picture
<1>1. wall \in [Monitors -> Picture] /\ plugged \subseteq Monitors
      /\ theming \in Monitors \cup {NoMonitor}
  BY DEF TypeOK
<1>2. NoPicture \in Picture
  BY DEF Picture
<1> QED
  BY <1>1, <1>2, LowestIsPlugged DEF ThemingPath

-----------------------------------------------------------------------------
\* What a step may do to the kicks and to what they are about.

\* A call leaves its kick behind, and the loop's side as it was.
LEMMA CalledInv ==
  ASSUME IInv, NEW g \in Callers, NEW strength \in {"plain", "reset"},
         Call(g, strength), UNCHANGED <<extractKick, taken, tool>>,
         extractor' = extractor \/ strength = "reset",
         TypeOK'
  PROVE  IInv'
<1>1. /\ kick \in [Callers -> Kicks]
      /\ kick' = [kick EXCEPT ![g] = strength] /\ kick[g] = "none"
      /\ UNCHANGED <<extractKick, taken, extracting, last, tried, failed, palette>>
  BY DEF IInv, TypeOK, Call, tool
<1>2. kick'[g] = strength /\ \A h \in Callers \ {g} : kick'[h] = kick[h]
  BY <1>1
<1>3. ~Quiet'
  BY <1>2 DEF Quiet
<1>4. LastIsShown'
  <2> SUFFICES ASSUME NoReset'
               PROVE  last' = NoPicture \/ tried' = <<last', extractor'>>
    BY DEF LastIsShown
  <2>1. strength = "plain"
    BY <1>2 DEF NoReset
  <2>2. NoReset
    BY <1>1, <1>2 DEF NoReset
  <2> QED
    BY <1>1, <2>1, <2>2 DEF IInv, LastIsShown
<1>5. Outcome'
  BY <1>1 DEF IInv, Outcome
<1> QED
  BY <1>3, <1>4, <1>5 DEF IInv, LastIsThemed

LEMMA CallTyped ==
  ASSUME TypeOK, NEW g \in Callers, NEW strength \in Kicks, Call(g, strength)
  PROVE  kick' \in [Callers -> Kicks] /\ load' \in Nat
<1>1. load \in Nat /\ kick \in [Callers -> Kicks]
  BY DEF TypeOK
<1>2. load' = load + 1 /\ kick' = [kick EXCEPT ![g] = strength]
  BY DEF Call
<1> QED
  BY <1>1, <1>2

\* The calls, up to the unlock.
LEMMA CallStep ==
  ASSUME IInv, NEW g \in Callers,
         \/ \E walls \in [Monitors -> Pictures] : ChangeWallpapers(g, walls)
         \/ \E m \in Monitors, picture \in Picture :
              RegisterMonitor(g, m, picture)
         \/ \E m \in Monitors : UnregisterMonitor(g, m)
         \/ SetFitMode(g)
         \/ \E m \in Monitors \cup {NoMonitor} : SetThemingMonitor(g, m)
         \/ \E e \in Extractors : SetExtractor(g, e)
  PROVE  IInv'
<1> USE DEF IInv
<1>0. "plain" \in Kicks /\ "reset" \in Kicks /\ NoPicture \in Picture
      /\ Pictures \subseteq Picture
  BY DEF Kicks, Picture
<1>1. ASSUME NEW walls \in [Monitors -> Pictures], ChangeWallpapers(g, walls)
      PROVE  IInv'
  <2>1. /\ Call(g, "plain")
        /\ wall' = [m \in Monitors |->
                      IF m \in plugged THEN walls[m] ELSE wall[m]]
        /\ UNCHANGED <<plugged, theming, extractor, extractKick, taken, tool>>
    BY <1>1 DEF ChangeWallpapers
  <2>2. wall' \in [Monitors -> Picture]
    BY <1>0, <2>1 DEF TypeOK
  <2>3. TypeOK'
    BY <1>0, <2>1, <2>2, CallTyped DEF TypeOK, tool
  <2> QED
    BY <2>1, <2>3, CalledInv
<1>2. ASSUME NEW m \in Monitors, NEW picture \in Picture,
             RegisterMonitor(g, m, picture)
      PROVE  IInv'
  <2>1. /\ Call(g, "plain")
        /\ plugged' = plugged \cup {m}
        /\ wall' = [wall EXCEPT ![m] = picture]
        /\ UNCHANGED <<theming, extractor, extractKick, taken, tool>>
    BY <1>2 DEF RegisterMonitor
  <2>2. TypeOK'
    BY <1>0, <2>1, CallTyped DEF TypeOK, tool
  <2> QED
    BY <2>1, <2>2, CalledInv
<1>3. ASSUME NEW m \in Monitors, UnregisterMonitor(g, m)
      PROVE  IInv'
  <2>1. /\ Call(g, "plain")
        /\ plugged' = plugged \ {m}
        /\ wall' = [wall EXCEPT ![m] = NoPicture]
        /\ UNCHANGED <<theming, extractor, extractKick, taken, tool>>
    BY <1>3 DEF UnregisterMonitor
  <2>2. TypeOK'
    BY <1>0, <2>1, CallTyped DEF TypeOK, tool
  <2> QED
    BY <2>1, <2>2, CalledInv
<1>4. ASSUME SetFitMode(g) PROVE IInv'
  <2>1. /\ Call(g, "plain")
        /\ UNCHANGED <<plugged, wall, theming, extractor, extractKick, taken, tool>>
    BY <1>4 DEF SetFitMode, service
  <2>2. TypeOK'
    BY <1>0, <2>1, CallTyped DEF TypeOK, tool
  <2> QED
    BY <2>1, <2>2, CalledInv
<1>5. ASSUME NEW m \in Monitors \cup {NoMonitor}, SetThemingMonitor(g, m)
      PROVE  IInv'
  <2>1. /\ Call(g, "reset") /\ theming' = m
        /\ UNCHANGED <<plugged, wall, extractor, extractKick, taken, tool>>
    BY <1>5 DEF SetThemingMonitor
  <2>2. TypeOK'
    BY <1>0, <2>1, CallTyped DEF TypeOK, tool
  <2> QED
    BY <2>1, <2>2, CalledInv
<1>6. ASSUME NEW e \in Extractors, SetExtractor(g, e) PROVE IInv'
  <2>1. /\ Call(g, "reset") /\ extractor' = e
        /\ UNCHANGED <<plugged, wall, theming, extractKick, taken, tool>>
    BY <1>6 DEF SetExtractor
  <2>2. TypeOK'
    BY <1>0, <2>1, CallTyped DEF TypeOK, tool
  <2> QED
    BY <2>1, <2>2, CalledInv
<1> QED
  BY <1>1, <1>2, <1>3, <1>4, <1>5, <1>6

-----------------------------------------------------------------------------
\* The slot of the channel: a reset that meets another kick there stays one.
LEMMA SlotStep ==
  ASSUME IInv, (\E g \in Callers : Send(g) \/ TakeBack(g)) \/ TakeKick
  PROVE  IInv'
<1>1. /\ kick \in [Callers -> Kicks] /\ extractKick \in Kicks /\ taken \in Kicks
      /\ "none" \in Kicks /\ "reset" \in Kicks
  BY DEF IInv, TypeOK, Kicks
<1>2. UNCHANGED <<plugged, wall, theming, extractor, extracting, last, tried, failed,
                  palette, load>>
  BY DEF Send, TakeBack, TakeKick, service, tool
<1>3. /\ kick' \in [Callers -> Kicks] /\ extractKick' \in Kicks /\ taken' \in Kicks
      /\ ~Quiet'
      /\ NoReset' => NoReset
  <2>1. ASSUME NEW g \in Callers, Send(g)
        PROVE  /\ kick' \in [Callers -> Kicks] /\ extractKick' \in Kicks
               /\ taken' \in Kicks /\ ~Quiet' /\ (NoReset' => NoReset)
    <3>1. /\ kick[g] # "none" /\ extractKick = "none" /\ extractKick' = kick[g]
          /\ kick' = [kick EXCEPT ![g] = "none"] /\ taken' = taken
      BY <2>1 DEF Send
    <3>2. ~Quiet'
      BY <3>1 DEF Quiet
    <3>3. NoReset' => NoReset
      BY <1>1, <3>1 DEF NoReset
    <3> QED
      BY <1>1, <3>1, <3>2, <3>3
  <2>2. ASSUME NEW g \in Callers, TakeBack(g)
        PROVE  /\ kick' \in [Callers -> Kicks] /\ extractKick' \in Kicks
               /\ taken' \in Kicks /\ ~Quiet' /\ (NoReset' => NoReset)
    <3>1. /\ kick[g] # "none" /\ extractKick' = "none" /\ taken' = taken
          /\ kick' = [kick EXCEPT ![g] = Stronger(kick[g], extractKick)]
      BY <2>2 DEF TakeBack
    <3>2. /\ Stronger(kick[g], extractKick) \in Kicks \ {"none"}
          /\ "reset" \in {kick[g], extractKick}
               => Stronger(kick[g], extractKick) = "reset"
      BY <1>1, <3>1 DEF Stronger
    <3>3. ~Quiet'
      BY <1>1, <3>1, <3>2 DEF Quiet
    <3>4. NoReset' => NoReset
      BY <1>1, <3>1, <3>2 DEF NoReset
    <3> QED
      BY <1>1, <3>1, <3>2, <3>3, <3>4
  <2>3. ASSUME TakeKick
        PROVE  /\ kick' \in [Callers -> Kicks] /\ extractKick' \in Kicks
               /\ taken' \in Kicks /\ ~Quiet' /\ (NoReset' => NoReset)
    BY <1>1, <2>3 DEF TakeKick, Quiet, NoReset
  <2> QED
    BY <2>1, <2>2, <2>3
<1>4. TypeOK'
  BY <1>2, <1>3 DEF IInv, TypeOK
<1>5. LastIsShown'
  BY <1>2, <1>3 DEF IInv, LastIsShown
<1>6. Outcome'
  BY <1>2 DEF IInv, Outcome
<1> QED
  BY <1>3, <1>4, <1>5, <1>6 DEF IInv, LastIsThemed

-----------------------------------------------------------------------------
\* What extract leaves, whatever it was told was extracted before.
LEMMA Extracting ==
  ASSUME IInv, NEW who \in {"loop", "dbus"}, NEW before \in Picture,
         before = last \/ before = NoPicture,
         NoReset => before = last,
         Extract(who, before), UNCHANGED <<plugged, wall, theming, extractor>>
  PROVE  /\ last' \in Picture /\ failed' \in BOOLEAN
         /\ tried' \in Picture \X Extractors /\ palette' \in Picture \X Extractors
         /\ extracting' \in {"no", "loop", "dbus"}
         /\ Skip' \/ last' = ThemingPath'
         /\ before = NoPicture \/ NoReset
              => last' = NoPicture \/ tried' = <<last', extractor'>>
         /\ Outcome'
<1>1. /\ ThemingPath \in Picture /\ extractor \in Extractors /\ failed \in BOOLEAN
      /\ tried \in Picture \X Extractors /\ palette \in Picture \X Extractors
      /\ extracting \in {"no", "loop", "dbus"}
  BY ThemingPathIsPicture DEF IInv, TypeOK
<1>2. Skip' = Skip /\ ThemingPath' = ThemingPath
  BY DEF Skip, ThemingPath, Lowest
<1>3. /\ NoReset => last = NoPicture \/ tried = <<last, extractor>>
      /\ Outcome
  BY DEF IInv, LastIsShown
<1>4. CASE /\ Skip \/ ThemingPath = before
           /\ last' = before /\ UNCHANGED <<extracting, tried, failed, palette>>
  BY <1>1, <1>2, <1>3, <1>4 DEF Outcome
<1>5. CASE /\ ThemingPath = NoPicture
           /\ last' = NoPicture /\ UNCHANGED <<extracting, tried, failed, palette>>
  BY <1>1, <1>2, <1>3, <1>5 DEF Outcome
<1>6. CASE /\ last' = ThemingPath /\ extracting' = who
           /\ tried' = <<ThemingPath, extractor>> /\ failed' = FALSE
           /\ UNCHANGED palette
  BY <1>1, <1>2, <1>6 DEF Outcome
<1> QED
  BY <1>4, <1>5, <1>6 DEF Extract

\* A tool that returns leaves its outcome, and what it was run on.
LEMMA ReturnedStep ==
  ASSUME IInv, Extracted \/ ExtractFails
  PROVE  IInv'
<1>1. /\ UNCHANGED <<plugged, wall, theming, extractor, kick, extractKick, taken, last,
                     tried, load>>
      /\ extracting' = "no"
  BY DEF Extracted, ExtractFails, Returned, service
<1>2. /\ tried \in Picture \X Extractors /\ palette \in Picture \X Extractors
      /\ failed \in BOOLEAN
  BY DEF IInv, TypeOK
<1>3. /\ failed' \in BOOLEAN /\ palette' \in Picture \X Extractors
      /\ failed' \/ palette' = tried \/ tried[2] = NoTool
  BY <1>2 DEF Extracted, ExtractFails
<1>4. TypeOK'
  BY <1>1, <1>3 DEF IInv, TypeOK
<1>5. Outcome'
  BY <1>1, <1>3 DEF Outcome
<1>6. LastIsShown' /\ LastIsThemed'
  BY <1>1 DEF IInv, LastIsShown, LastIsThemed, NoReset, Quiet, Skip, ThemingPath, Lowest
<1> QED
  BY <1>4, <1>5, <1>6 DEF IInv

LEMMA LoopStep ==
  ASSUME IInv, ExtractLoop \/ ExtractColors
  PROVE  IInv'
<1>1. CASE ExtractLoop
  <2> DEFINE before == IF taken = "reset" THEN NoPicture ELSE last
  <2>1. /\ Extract("loop", before) /\ taken' = "none"
        /\ UNCHANGED <<plugged, wall, theming, extractor, kick, extractKick, load>>
    BY <1>1 DEF ExtractLoop, service
  <2>2. /\ before \in Picture
        /\ before = last \/ before = NoPicture
        /\ NoReset => before = last
        /\ NoReset' => before = NoPicture \/ NoReset
    BY <2>1 DEF IInv, TypeOK, Picture, NoReset
  <2>3. PICK b \in Picture : b = before
    BY <2>2
  <2>4. /\ last' \in Picture /\ failed' \in BOOLEAN /\ Outcome'
        /\ tried' \in Picture \X Extractors /\ palette' \in Picture \X Extractors
        /\ extracting' \in {"no", "loop", "dbus"}
        /\ Skip' \/ last' = ThemingPath'
        /\ b = NoPicture \/ NoReset
             => last' = NoPicture \/ tried' = <<last', extractor'>>
    <3> HIDE DEF before
    <3> QED
      BY <2>1, <2>2, <2>3, Extracting
  <2>5. TypeOK'
    BY <2>1, <2>4 DEF IInv, TypeOK, Kicks
  <2> QED
    BY <2>2, <2>3, <2>4, <2>5 DEF IInv, LastIsShown, LastIsThemed
<1>2. CASE ExtractColors
  <2>1. /\ Extract("dbus", last) /\ load' = load + 1
        /\ UNCHANGED <<plugged, wall, theming, extractor, kick, extractKick, taken>>
    BY <1>2 DEF ExtractColors, service
  <2>2. last \in Picture /\ load \in Nat
    BY DEF IInv, TypeOK
  <2>3. PICK b \in Picture : b = last
    BY <2>2
  <2>4. /\ last' \in Picture /\ failed' \in BOOLEAN /\ Outcome'
        /\ tried' \in Picture \X Extractors /\ palette' \in Picture \X Extractors
        /\ extracting' \in {"no", "loop", "dbus"}
        /\ Skip' \/ last' = ThemingPath'
        /\ NoReset => last' = NoPicture \/ tried' = <<last', extractor'>>
    BY <2>1, <2>3, Extracting
  <2>5. load' \in Nat
    BY <2>1, <2>2
  <2>6. TypeOK'
    BY <2>1, <2>4, <2>5 DEF IInv, TypeOK
  <2>7. NoReset' = NoReset
    BY <2>1 DEF NoReset
  <2> QED
    BY <2>4, <2>6, <2>7 DEF IInv, LastIsShown, LastIsThemed
<1> QED
  BY <1>1, <1>2

-----------------------------------------------------------------------------
LEMMA InitInv == Init => IInv
<1> SUFFICES ASSUME Init PROVE IInv
  OBVIOUS
<1>1. TypeOK
  BY DEF Init, TypeOK, Kicks, Picture
<1> QED
  BY <1>1 DEF Init, IInv, LastIsShown, LastIsThemed, Outcome, Quiet

LEMMA NextInv == IInv /\ [Next]_vars => IInv'
<1> SUFFICES ASSUME IInv, [Next]_vars PROVE IInv'
  OBVIOUS
<1>1. CASE UNCHANGED vars
  BY <1>1 DEF vars, service, tool, IInv, TypeOK, LastIsShown, LastIsThemed, Outcome,
     NoReset, Quiet, Skip, ThemingPath, Lowest
<1>2. CASE ExtractLoop \/ ExtractColors
  BY <1>2, LoopStep
<1>5. CASE Extracted \/ ExtractFails
  BY <1>5, ReturnedStep
<1>3. CASE (\E g \in Callers : Send(g) \/ TakeBack(g)) \/ TakeKick
  BY <1>3, SlotStep
<1>4. ASSUME NEW g \in Callers,
             \/ \E walls \in [Monitors -> Pictures] : ChangeWallpapers(g, walls)
             \/ \E m \in Monitors, picture \in Picture :
                  RegisterMonitor(g, m, picture)
             \/ \E m \in Monitors : UnregisterMonitor(g, m)
             \/ SetFitMode(g)
             \/ \E m \in Monitors \cup {NoMonitor} : SetThemingMonitor(g, m)
             \/ \E e \in Extractors : SetExtractor(g, e)
      PROVE  IInv'
  BY <1>4, CallStep
<1> QED
  BY <1>1, <1>2, <1>3, <1>4, <1>5 DEF Next

\* Without a kick under way or a tool at work, the palette is that of the
\* wallpaper on the theming monitor, by the tool configured, or that tool was
\* run on that wallpaper last and failed - however the kicks of any number of
\* callers met in the slot.
THEOREM PaletteStaysSound == Spec => []PaletteIsSound
<1>1. IInv => PaletteIsSound
  <2> SUFFICES ASSUME IInv, Quiet, extracting = "no", Themed PROVE Matches
    BY DEF IInv, PaletteIsSound, PaletteMatches
  <2>1. NoReset
    BY DEF Quiet, NoReset
  <2>2. last = ThemingPath /\ ThemingPath # NoPicture /\ extractor # NoTool
    BY DEF IInv, LastIsThemed, Themed
  <2>3. tried = <<ThemingPath, extractor>>
    BY <2>1, <2>2 DEF IInv, LastIsShown
  <2> QED
    BY <2>2, <2>3 DEF IInv, Outcome, Matches
<1> QED
  BY <1>1, InitInv, NextInv, PTL DEF Spec
=============================================================================

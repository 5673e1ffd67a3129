-------------------------- MODULE WallpaperPalette --------------------------
(***************************************************************************)
(* The palette of the wallpaper service (service/wallpaper): the colours   *)
(* extracted from the wallpaper of the theming monitor.                    *)
(*                                                                         *)
(* Every change of a wallpaper or of a setting kicks the extraction loop   *)
(* through a one-slot channel after it left the mutex.  A kick that finds  *)
(* the slot full takes what is there and tries again with the stronger of  *)
(* the two, without a lock, while others do the same.  How the cycle picks *)
(* a wallpaper is WallpaperCycle; here any change may come.  A tool may    *)
(* fail: the old colours stay, and nothing runs it again on that picture.  *)
(***************************************************************************)
EXTENDS Integers

CONSTANTS
  Callers,     \* the goroutines that change something
  Monitors,    \* the monitors, numbers in the order of their names
  Pictures,    \* the files a wallpaper may be
  Extractors,  \* the configurations of the tool
  NoTool,      \* the one that runs nothing (None), when it is offered
  NoPicture,   \* no wallpaper, and lastExtracted when it is reset
  MaxLoad      \* bound on the calls

ASSUME MonitorsAssumption == Monitors \subseteq Nat \ {0}
ASSUME PicturesAssumption == NoPicture \notin Pictures
ASSUME LoadAssumption == MaxLoad \in Nat

VARIABLES
  plugged,     \* the monitors registered and ...
  wall,        \* ... their wallpapers
  theming,     \* Service.themingMonitor, NoMonitor for the fallback
  extractor,   \* Service.extractor
  kick,        \* the kick a caller has yet to send: "none", "plain", "reset"
  extractKick, \* the slot of the channel
  taken,       \* the kick the loop took
  extracting,  \* who runs the tool, with extractMu held: "loop", "dbus", "no"
  last,        \* lastExtracted
  tried,       \* the picture and the configuration of the last run, and ...
  failed,      \* ... whether it came to nothing
  palette,     \* the picture and the configuration the colours are from
  load         \* what MaxLoad bounds

service == <<plugged, wall, theming, extractor>>
tool == <<extracting, last, tried, failed, palette>>
vars == <<service, kick, extractKick, taken, tool, load>>

NoMonitor == 0
Kicks == {"none", "plain", "reset"}
Picture == Pictures \cup {NoPicture}

Stronger(a, b) == IF "reset" \in {a, b} THEN "reset" ELSE a

-----------------------------------------------------------------------------
\* The calls, each up to the unlock.

Call(g, strength) ==
  /\ kick[g] = "none" /\ load < MaxLoad
  /\ load' = load + 1
  /\ kick' = [kick EXCEPT ![g] = strength]

\* updateMonitors with a change of wallpapers: SetWallpaper, or the cycle.
ChangeWallpapers(g, walls) ==
  /\ Call(g, "plain")
  /\ wall' = [m \in Monitors |-> IF m \in plugged THEN walls[m] ELSE wall[m]]
  /\ wall' # wall
  /\ UNCHANGED <<plugged, theming, extractor, extractKick, taken, tool>>

\* A monitor comes without a wallpaper, or with one of the cycle.
RegisterMonitor(g, m, picture) ==
  /\ m \notin plugged
  /\ Call(g, "plain")
  /\ plugged' = plugged \cup {m}
  /\ wall' = [wall EXCEPT ![m] = picture]
  /\ UNCHANGED <<theming, extractor, extractKick, taken, tool>>

UnregisterMonitor(g, m) ==
  /\ m \in plugged
  /\ Call(g, "plain")
  /\ plugged' = plugged \ {m}
  /\ wall' = [wall EXCEPT ![m] = NoPicture]
  /\ UNCHANGED <<theming, extractor, extractKick, taken, tool>>

\* SetFitMode changes nothing else here, but it is a change.
SetFitMode(g) ==
  /\ plugged # {}
  /\ Call(g, "plain")
  /\ UNCHANGED <<service, extractKick, taken, tool>>

SetThemingMonitor(g, m) ==
  /\ m # theming
  /\ Call(g, "reset")
  /\ theming' = m
  /\ UNCHANGED <<plugged, wall, extractor, extractKick, taken, tool>>

\* Mutant: a change of the tool is a change like any other.
SetExtractorPlainly(g, e) ==
  /\ e # extractor
  /\ Call(g, "plain")
  /\ extractor' = e
  /\ UNCHANGED <<plugged, wall, theming, extractKick, taken, tool>>
SetExtractor(g, e) ==
  /\ e # extractor
  /\ Call(g, "reset")
  /\ extractor' = e
  /\ UNCHANGED <<plugged, wall, theming, extractKick, taken, tool>>

-----------------------------------------------------------------------------
\* kickExtract, after the unlock.

Send(g) ==
  /\ kick[g] # "none" /\ extractKick = "none"
  /\ extractKick' = kick[g]
  /\ kick' = [kick EXCEPT ![g] = "none"]
  /\ UNCHANGED <<service, taken, tool, load>>

\* Mutant: a kick that is pending absorbs this one as it is.
Absorb(g) ==
  /\ kick[g] # "none" /\ extractKick # "none"
  /\ kick' = [kick EXCEPT ![g] = "none"]
  /\ UNCHANGED <<service, extractKick, taken, tool, load>>
TakeBack(g) ==
  /\ kick[g] # "none" /\ extractKick # "none"
  /\ kick' = [kick EXCEPT ![g] = Stronger(@, extractKick)]
  /\ extractKick' = "none"
  /\ UNCHANGED <<service, taken, tool, load>>

-----------------------------------------------------------------------------
\* extract.

\* themingPath: an unplugged theming monitor is waited for.
Lowest == CHOOSE m \in plugged : \A k \in plugged : m <= k
Skip == theming # NoMonitor /\ theming \notin plugged
ThemingPath ==
  IF theming # NoMonitor THEN wall[theming]
    ELSE IF plugged = {} THEN NoPicture ELSE wall[Lowest]

\* extractMu is taken; the path is read, and the tool started if it is new.
\* lastExtracted is set before the tool has done anything.
Extract(who, before) ==
  /\ extracting = "no"
  /\ \/ /\ Skip \/ ThemingPath = before
        /\ last' = before
        /\ UNCHANGED <<extracting, tried, failed, palette>>
     \/ /\ ~Skip /\ ThemingPath = NoPicture /\ before # NoPicture
        /\ last' = NoPicture
        /\ UNCHANGED <<extracting, tried, failed, palette>>
     \/ /\ ~Skip /\ ThemingPath \notin {before, NoPicture}
        /\ last' = ThemingPath
        /\ extracting' = who
        /\ tried' = <<ThemingPath, extractor>> /\ failed' = FALSE
        /\ UNCHANGED palette

TakeKick ==
  /\ taken = "none" /\ extractKick # "none" /\ extracting # "loop"
  /\ taken' = extractKick
  /\ extractKick' = "none"
  /\ UNCHANGED <<service, kick, tool, load>>

ExtractLoop ==
  /\ taken # "none"
  /\ Extract("loop", IF taken = "reset" THEN NoPicture ELSE last)
  /\ taken' = "none"
  /\ UNCHANGED <<service, kick, extractKick, load>>

\* ExtractColors of D-Bus.
ExtractColors ==
  /\ load < MaxLoad /\ load' = load + 1
  /\ Extract("dbus", last)
  /\ UNCHANGED <<service, kick, extractKick, taken>>

\* The tool returns, with extractMu still held until here.
Returned ==
  /\ extracting # "no"
  /\ extracting' = "no"
  /\ UNCHANGED <<service, kick, extractKick, taken, last, tried, load>>

\* It wrote its palette; no tool has nothing to write.
Extracted ==
  /\ Returned
  /\ palette' = IF tried[2] = NoTool THEN palette ELSE tried
  /\ UNCHANGED failed

\* It cannot be started, exits with an error or is killed, or its output
\* cannot be saved.  That is logged or told to the client, and left at that.
ExtractFails ==
  /\ Returned
  /\ tried[2] # NoTool
  /\ failed' = TRUE
  /\ UNCHANGED palette

-----------------------------------------------------------------------------
\* New; the loop starts as if kicked.
Init ==
  /\ plugged = {} /\ wall = [m \in Monitors |-> NoPicture]
  /\ theming \in Monitors \cup {NoMonitor} /\ extractor \in Extractors
  /\ kick = [g \in Callers |-> "none"]
  /\ extractKick = "none" /\ taken = "reset"
  /\ extracting = "no" /\ last = NoPicture
  /\ tried = <<NoPicture, extractor>> /\ failed = FALSE /\ palette = tried
  /\ load = 0

Next ==
  \/ \E g \in Callers :
       \/ \E walls \in [Monitors -> Pictures] : ChangeWallpapers(g, walls)
       \/ \E m \in Monitors, picture \in Picture :
            RegisterMonitor(g, m, picture)
       \/ \E m \in Monitors : UnregisterMonitor(g, m)
       \/ SetFitMode(g)
       \/ \E m \in Monitors \cup {NoMonitor} : SetThemingMonitor(g, m)
       \/ \E e \in Extractors : SetExtractor(g, e)
       \/ Send(g) \/ TakeBack(g)
  \/ TakeKick \/ ExtractLoop \/ ExtractColors \/ Extracted \/ ExtractFails

\* The goroutines run, and a tool returns, with a palette or without; what a
\* caller does next with its kick is one of two.
Fairness ==
  /\ WF_vars(TakeKick) /\ WF_vars(ExtractLoop)
  /\ WF_vars(Extracted \/ ExtractFails)
  /\ \A g \in Callers : WF_vars(Send(g) \/ TakeBack(g))

Spec == Init /\ [][Next]_vars /\ Fairness

-----------------------------------------------------------------------------
\* Properties.

\* Type correctness of the service, the kicks and the loop.
TypeOK ==
  /\ plugged \subseteq Monitors
  /\ wall \in [Monitors -> Picture]
  /\ theming \in Monitors \cup {NoMonitor}
  /\ extractor \in Extractors
  /\ kick \in [Callers -> Kicks] /\ extractKick \in Kicks /\ taken \in Kicks
  /\ extracting \in {"no", "loop", "dbus"}
  /\ last \in Picture /\ failed \in BOOLEAN
  /\ tried \in Picture \X Extractors /\ palette \in Picture \X Extractors
  /\ load \in Nat

\* Kicks under way: to be sent, in the slot, or taken by the loop.
Quiet ==
  extractKick = "none" /\ taken = "none" /\ \A g \in Callers : kick[g] = "none"
NoReset ==
  /\ extractKick # "reset" /\ taken # "reset"
  /\ \A g \in Callers : kick[g] # "reset"

\* There is a wallpaper to theme by, and a tool to do it.
Themed == ~Skip /\ ThemingPath # NoPicture /\ extractor # NoTool

\* The last run was on that wallpaper, as configured, and the palette is what
\* came of it, unless nothing did.
Matches ==
  /\ tried = <<ThemingPath, extractor>>
  /\ failed \/ palette = tried

\* Without a kick under way or a tool at work, the palette is that of the
\* wallpaper on the theming monitor, by the tool configured - or that very
\* tool was run on that very wallpaper last, and failed.
PaletteMatches == Quiet /\ extracting = "no" /\ Themed => Matches

PaletteIsSound == TypeOK /\ PaletteMatches

\* The callers are done in the end, however they meet in the slot, and from
\* then on the palette is right, or the tool failed on what is shown.
PaletteSettles == <>[](Themed => Matches)
=============================================================================

------------------------------ MODULE Platform ------------------------------
(***************************************************************************)
(* Which backends a session gets: the daemon's audit and resolvers          *)
(* (daemon/src/platform) and the popup's policy on losing the focus         *)
(* (ui/src/platform/mod.rs), each from its own reading of the environment.  *)
(*                                                                         *)
(* Data.  XDG_CURRENT_DESKTOP is one name.  The variables of Sway and       *)
(* Hyprland are unset, name a socket that is there, or one that is not.     *)
(* Whether the helper of KWin, the portal and the virtual keyboard of       *)
(* wlroots can be used shows when the backend is made.                      *)
(***************************************************************************)

Signal == {"unset", "missing", "there"}

Environment ==
  [session : {"x11", "wayland", "unknown"},
   desktop : {"kde", "gnome", "sway", "hyprland", "wlroots", "river", "other"},
   swaysock : Signal, hyprland : Signal,
   kwinHelper : BOOLEAN, portal : BOOLEAN, virtualKeyboard : BOOLEAN]

\* EnvironmentAudit::from_env
DesktopKind(e) ==
  CASE e.desktop \in {"sway", "wlroots", "hyprland", "river"} -> "Wlroots"
    [] e.desktop = "kde" -> "Kde"
    [] e.desktop = "gnome" -> "Gnome"
    [] OTHER -> "Other"

\* resolve_focus_backend: Sway's variable is looked at before Hyprland's.
FocusBackend(e) ==
  CASE e.session = "x11" -> "X11"
    [] e.session = "wayland" /\ DesktopKind(e) = "Kde" /\ e.kwinHelper -> "Kde"
    [] e.session = "wayland" /\ DesktopKind(e) # "Kde" /\ e.swaysock = "there" ->
         "Sway"
    [] /\ e.session = "wayland" /\ DesktopKind(e) # "Kde"
       /\ e.swaysock = "unset" /\ e.hyprland = "there" -> "Hyprland"
    [] OTHER -> "Unavailable"

CanRestoreFocus(e) == FocusBackend(e) # "Unavailable"

\* resolve_paste_backend, when allow_wayland_direct is can_restore_focus
PasteBackend(e) ==
  CASE e.session = "x11" -> "X11"
    [] /\ e.session = "wayland" /\ CanRestoreFocus(e)
       /\ DesktopKind(e) = "Kde" /\ e.portal -> "Portal"
    [] /\ e.session = "wayland" /\ CanRestoreFocus(e)
       /\ DesktopKind(e) # "Kde" /\ e.virtualKeyboard
       /\ (e.swaysock # "unset" \/ e.hyprland # "unset") -> "Wlroots"
    [] OTHER -> "Fallback"

\* resolve_focus_loss_policy: where the focus follows the mouse, losing it
\* does not dismiss the popup.
DismissesOnFocusLoss(e) ==
  \/ e.session = "x11"
  \/ e.desktop = "kde"
  \/ /\ e.desktop \notin {"sway", "hyprland"}
     /\ e.swaysock # "there"
     /\ e.hyprland # "there"
=============================================================================

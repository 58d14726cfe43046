SPECIFICATION Spec
CONSTANTS
    c1 = c1
    c2 = c2
    vpn = vpn
    app = app
    old = old
    new = new
    Command = {c1, c2}
    Daemon = {vpn}
    Agent = {app}
    DefaultVpn = vpn
    Content = {old, new}
SYMMETRY Alike
INVARIANTS
    JobsMatchFiles
PROPERTIES
    LoadReplaces

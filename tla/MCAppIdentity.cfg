\* A Context, main and one provider, four messages, four environments.
CONSTANTS
    Absent = Absent
    Context = Context
    Main = Main
    Holder = {Main, Provider}
    Part <- MCPart
    Text <- MCText
    Content <- MCContent
    Given <- MCGiven
    Environments <- MCEnvironments
SPECIFICATION Spec
INVARIANT IdentityIsSound
PROPERTY ContextIsPrivate

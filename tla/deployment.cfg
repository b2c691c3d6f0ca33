SPECIFICATION Spec
CONSTANTS
    up1 = up1
    up2 = up2
    down = down
    admin = admin
    seed = seed
    server = server
    Process = {up1, up2, down, admin, seed, server}
    Role <- MCRole
    Local = {TRUE, FALSE}
    Mistakes <- MCMistakes
INVARIANTS DeploymentConsistent AccountsConsistent
PROPERTIES ServesOnSchema

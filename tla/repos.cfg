\* Three deployments, two of them of one app, two pushes to one name, a
\* removal, a clone and the deletion of the project.
CONSTANTS
    p1 = p1
    p2 = p2
    d1 = d1
    c1 = c1
    own1 = own1
    app1 = app1
    app2 = app2
    delete = delete
    link = link
    Deletion = delete
    Link = link
    Pushes <- MCPushes
    RepoName <- MCRepoName
    Deploys <- MCDeploys
    BotName <- MCBotName
    Undeploys = {d1}
    Clones = {c1}
    RepoScenarios <- MCScenarios
    Tries = 2
SPECIFICATION ReposSpec
INVARIANTS
    BuiltFromOwnCode
    
    ProjectHasItsCode
CHECK_DEADLOCK FALSE

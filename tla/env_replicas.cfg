CONSTANTS
  home = home
  dev = dev
  main = main
  beta = beta
  Servers = {s1, s2}
  Requests = {q1, q2}
  Envs <- MCEnvs
  Pipes <- MCPipes
  DefaultEnv = home
  DefaultPipe = main
  Jobs <- MCJobs
SPECIFICATION FairSpec
INVARIANTS TypeOK DefaultsServed
PROPERTIES NewEnvironmentWhole DeletionFinal FailedStartRecovers

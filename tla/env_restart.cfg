CONSTANTS
  home = home
  dev = dev
  main = main
  beta = beta
  Servers = {s1}
  Requests = {q1}
  Envs <- MCEnvs
  Pipes <- MCPipes
  DefaultEnv = home
  DefaultPipe = main
  Jobs <- MCJobs
SPECIFICATION Spec
INVARIANT StartSucceeds

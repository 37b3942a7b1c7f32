SPECIFICATION MCSpec
CONSTANTS
  AuditJobs <- MCAuditJobs
  DepHits <- MCDepHits
  EditContents <- MCEditContents
  MaxEdits = 1
  ToolReports <- MCToolReports
  Rubrics <- MCRubrics
  Deliverables <- MCDeliverables
  JudgeScores <- MCJudgeScores
  RulingWriters = {"w1", "w2"}
  OracleCalls <- MCOracleCalls
  Bodies <- MCBodies
  SafeUrls = {"u1", "u2"}
  GoodSelectors = {"price", "root"}
  MaxOracleCalls = 2
  PostJobs = {"p1", "p2"}
  Texts = {1, 2}
  BadTexts = {9}
  MaxCalls = 3
  MaxPostCrashes = 1
  ReviewJobs = {j1, j2}
  Attempts = {a1, a2, a3}
  MaxReviewFaults = 1
  MaxVisitors = 1
  MaxHead = 3
  Project <- MCProject
  MaxEvaluations = 3
  MaxEvalFaults = 1
  Repos <- MCRepos
  Published <- MCPublished
  Known <- MCKnown
  UpgradeJobs <- MCUpgradeJobs
  Loaders = {l1, l2}
  FileUrls <- MCFileUrls
  CACHE_TTL = 1
  ListHorizon = 3
  MaxIssues = 1
  ONE = 1000
  GRAIN = 10
  MATCH_THRESHOLD = 930
  POTENTIAL_THRESHOLD = 850
  MAX_MATCHES_PER_SOURCE = 1
  ListEntries <- MCListEntries
  MaxEntries = 2
  SubjectKinds = {"entity", "wallet"}
  SubjectKindsDD = {"npm-package", "crypto-token"}
  Documents <- MCDocuments
  Answers <- MCAnswers
  CertDays = {10, 61}
  Samples = 2
  MAX_REDIRECTS = 1
  Targets <- MCTargets
  SiteSchemes = {"https", "http"}
SYMMETRY DeskSymmetry
INVARIANTS
  
  EvidenceIsSound
  ScoresAreSound
  
  RulingsAreSound
  SalesAreSound
  
CHECK_DEADLOCK FALSE

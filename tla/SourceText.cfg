SPECIFICATION Spec
CONSTANTS
  root = root
  page1 = page1
  page2 = page2
  l1 = l1
  l2 = l2
  l3 = l3
  Urls = {root, page1, page2}
  Root = root
  MaxPages = 2
  Keys = {"Title", "Overview", "How", "Step", "Webhooks"}
  InitialDocs <- MCDocs
  Answers <- MCAnswers
  Lines = {l1, l2, l3}
  Length = 51
  MaxRuns = 3
CHECK_DEADLOCK FALSE
INVARIANTS
  CrawlComplete
  SectionsOnce
  BodyIsLastUpdate
  

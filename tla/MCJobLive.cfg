SPECIFICATION CancelSpec
CONSTANTS
    JobIds = {j1, j2}
    MaxActive = 1
    MaxResults = 1
    Retention = 1
    Reasons = {operator, killswitch}
    MaxLag = 1
    MaxTime = 2
PROPERTIES
    CancelSettles
    AcceptedJobsSettle
